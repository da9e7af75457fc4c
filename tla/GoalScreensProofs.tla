-------------------------- MODULE GoalScreensProofs --------------------------
(***************************************************************************)
(* The safety of the app's active goal, its list and its chat, for any     *)
(* goals, exchanges, calls at once and faults.                             *)
(*                                                                         *)
(* The argument: while the app's word is not behind, at most one action is *)
(* under way, and once its screen was left no list is waited for.  Either  *)
(* the device and every answer on its way agree with the server, or that   *)
(* action went through and hearing of it leads to the server's goal from   *)
(* whichever the device holds by then.  What a chat shows was served as    *)
(* its own goal's and is stored; of a like whose exchange it shows, what   *)
(* is stored is known from what was asked and how it was answered.         *)
(***************************************************************************)
EXTENDS GoalScreens, TLAPS

-----------------------------------------------------------------------------
(* The inductive invariant, in named parts.                                *)

\* What the calls under way may be.
Lines ==
    /\ \A t \in Slot : call[t].op # "chat"
    /\ call["page"].op \in {"idle", "chat"}
    /\ \A t \in Line :
          /\ call[t].stage = "served" => call[t].heard /\ call[t].op # "idle"
          /\ call[t].stage = "thinking" => call[t].op = "send"
          /\ call[t].op \in {"chat", "launch"} => call[t].mounted
          /\ call[t].op \in Mutating => call[t].arg \in Goal
          /\ call[t].op \in {"send", "like"} => call[t].arg \in Exchange

Listing(t) == call[t].op \in {"goals", "launch"} /\ call[t].heard /\ call[t].mounted

\* Nothing else is waited for while the app starts; the goals are asked for
\* once.
Alone ==
    /\ \A t, s \in Line : call[t].op = "launch" /\ s # t => call[s].op = "idle" \/ ~call[s].heard
    /\ \A t, s \in Line : Listing(t) /\ Listing(s) => s = t

\* A change that went through, on its way to the app.
Changed(t) == call[t].op \in Mutating /\ call[t].stage = "served" /\ call[t].answer.ok

\* What is said of the goals is so, unless it is late.
Say ==
    /\ \A t \in Line : Told(t) /\ ~call[t].late => call[t].answer.active = current
    /\ \A t \in Line : call[t].op = "launch" /\ call[t].stage = "served" /\ ~call[t].answer.ok => live = {}

\* What the change that a call made leaves of goal x, were it the active one.
Leads(t, x) ==
    current = IF call[t].op = "setActive" THEN call[t].arg ELSE IF x = call[t].arg THEN None ELSE x

\* From the device's goal, and from any it may be told of meanwhile, hearing of
\* the change leads to the server's.
Leading(t) ==
    /\ Leads(t, active)
    /\ \A s \in Line : Told(s) => Leads(t, call[s].answer.active)
    /\ call[t].op = "delete" /\ call[t].to => current = None

\* The one action under way; once its screen was left, no list is waited for.
Sole(t) ==
    /\ call[t].heard
    /\ \A s \in Line : call[s].op \in Mutating => s = t
    /\ call[t].mounted \/ \A s \in Line : ~Listing(s)

Acted(t) ==
    /\ Sole(t)
    /\ Changed(t) => Leading(t)
    /\ call[t].op = "delete" /\ call[t].to /\ call[t].stage = "sent" => active = call[t].arg

\* The device, and whatever it may be told, agree with the server.
Even == active = current /\ \A t \in Line : Told(t) => call[t].answer.active = current

\* A device that is not behind agrees, or is about to hear why it does not.
Agree ==
    ~behind =>
        /\ \A t \in Line : call[t].op \in Mutating => Acted(t)
        /\ (\A t \in Line : ~Changed(t)) => Even

\* The call of the chat on screen, and its answer still wanted.
Wanted(t, op) == call[t].op = op /\ call[t].heard /\ call[t].mounted

\* Exchanges of the chat's goal, or of one that was deleted.
Own(exchanges) == \A e \in exchanges : kept[e] \in {chat.goal, None}

\* What a call of the chat on screen is served, or served with, is its goal's.
OwnCall(t) ==
    /\ Wanted(t, "chat") /\ call[t].stage = "served" => Own(call[t].answer.lists)
    /\ Wanted(t, "send") /\ call[t].stage = "thinking" => call[t].goal = chat.goal
    /\ Wanted(t, "send") /\ call[t].stage = "served" /\ call[t].answer.ok => Own({call[t].arg})

Chats ==
    ~astray =>
        /\ ~stale => chat.goal = active
        /\ Own(chat.shown)
        /\ \A t \in Line : OwnCall(t)

\* What is liked or listed is stored, and so is a reply that was answered; one
\* that was not is not.
OnceCall(t) ==
    /\ call[t].op = "chat" => \A e \in call[t].answer.lists : kept[e] # "unsent"
    /\ call[t].op = "like" => kept[call[t].arg] # "unsent"
    /\ call[t].op = "send" /\ call[t].stage # "served" => kept[call[t].arg] = "unsent"
    /\ call[t].op = "send" /\ call[t].stage = "served" /\ call[t].answer.ok => kept[call[t].arg] # "unsent"

\* What is shown is stored, and a message is sent once.
Once ==
    /\ \A e \in chat.shown : kept[e] # "unsent"
    /\ \A t \in Line : OnceCall(t)
    /\ \A t, s \in Line : call[t].op = "send" /\ call[s].op = "send" /\ call[t].arg = call[s].arg => s = t

\* Before the page there is nothing to send or like; every like a page might
\* miss is torn, and a message is neither shown nor liked before its reply.
PagedCall(t) ==
    /\ Wanted(t, "send") \/ Wanted(t, "like") => chat.page = "shown"
    /\ Wanted(t, "like") => call[t].arg \in chat.shown
    /\ Wanted(t, "chat") => /\ chat.page = "loading"
                           /\ \A s \in Line : call[s].op = "like" => call[s].arg \in torn
    /\ Wanted(t, "send") => /\ call[t].arg \notin chat.shown \cup liked
                           /\ \A s \in Line : call[s].op = "like" => call[s].arg # call[t].arg

Paged == \A t \in Line : PagedCall(t)

\* The heart of an exchange on screen, the like of it that is stored, and the
\* one like of it, at most, that is under way.
Settled(e) == \A t \in Line : call[t].op = "like" => call[t].arg # e

HeartOf(e) ==
    /\ Settled(e) => (e \in chat.hearts <=> e \in liked)
    /\ \A t, s \in Line : call[t].op = "like" /\ call[s].op = "like" /\ call[t].arg = e /\ call[s].arg = e => s = t
    /\ \A t \in Line : call[t].op = "like" /\ call[t].arg = e =>
          /\ call[t].heard /\ call[t].mounted
          /\ call[t].stage = "sent" => (e \in liked <=> ~call[t].to)
          /\ call[t].stage = "served" => (e \in liked <=> (call[t].to <=> call[t].answer.ok))

\* The hearts of a page on its way.
ListOf(t) ==
    Wanted(t, "chat") /\ call[t].stage = "served" =>
        /\ call[t].answer.hearts \subseteq call[t].answer.lists
        /\ \A e \in call[t].answer.lists : e \notin torn /\ kept[e] # None => (e \in call[t].answer.hearts <=> e \in liked)

Hearts ==
    /\ \A e \in chat.shown : e \notin torn /\ kept[e] # None => HeartOf(e)
    /\ \A t \in Line : ListOf(t)

IInv == TypeOK /\ Lines /\ Alone /\ Say /\ Agree /\ Chats /\ Once /\ Paged /\ Hearts

-----------------------------------------------------------------------------
(* What the steps do to the calls.                                         *)

Answer == [ok : BOOLEAN, active : Goal \cup {None}, lists : SUBSET Exchange, hearts : SUBSET Exchange]
Op == {"idle", "goals", "setActive", "delete", "send", "like", "chat", "launch"}

\* A call as it was, but for whether it is mounted or late.
Kept(t) ==
    /\ call'[t].op = call[t].op /\ call'[t].arg = call[t].arg /\ call'[t].to = call[t].to
    /\ call'[t].goal = call[t].goal /\ call'[t].stage = call[t].stage
    /\ call'[t].heard = call[t].heard /\ call'[t].answer = call[t].answer

\* A call that begins.
Begun(s, op, arg, to) ==
    /\ call'[s].op = op /\ call'[s].arg = arg /\ call'[s].to = to /\ call'[s].goal = None
    /\ call'[s].stage = "sent" /\ call'[s].heard /\ call'[s].mounted /\ ~call'[s].late
    /\ call'[s].answer = Nothing

LEMMA NothingTyped == Nothing \in Answer /\ Nothing.ok = FALSE /\ Nothing.lists = {} /\ Nothing.hearts = {}
BY DEF Nothing, Answer

LEMMA IdleTyped ==
    /\ Idle \in Call /\ Idle.op = "idle" /\ Idle.arg = None /\ Idle.stage = "sent" /\ Idle.heard /\ Idle.mounted
    /\ Idle.answer = Nothing
BY NothingTyped DEF Idle, Call, Answer

LEMMA BegunTyped ==
    ASSUME NEW op \in Op, NEW arg \in Goal \cup Exchange \cup {None}, NEW to \in BOOLEAN
    PROVE  LET r == [Idle EXCEPT !.op = op, !.arg = arg, !.to = to]
           IN  /\ r \in Call /\ r.op = op /\ r.arg = arg /\ r.to = to /\ r.goal = None
               /\ r.stage = "sent" /\ r.heard /\ r.mounted /\ ~r.late /\ r.answer = Nothing
BY NothingTyped DEF Idle, Call, Answer, Op

LEMMA RebuiltTyped ==
    ASSUME NEW op \in Op
    PROVE  LET r == [Idle EXCEPT !.op = op]
           IN  /\ r \in Call /\ r.op = op /\ r.arg = None /\ r.to = FALSE /\ r.goal = None
               /\ r.stage = "sent" /\ r.heard /\ r.mounted /\ ~r.late /\ r.answer = Nothing
BY NothingTyped DEF Idle, Call, Answer, Op

LEMMA UnmountedTyped ==
    ASSUME NEW c \in Call
    PROVE  LET r == [c EXCEPT !.mounted = FALSE]
           IN  /\ r \in Call /\ r.op = c.op /\ r.arg = c.arg /\ r.to = c.to /\ r.goal = c.goal
               /\ r.stage = c.stage /\ r.heard = c.heard /\ r.mounted = FALSE /\ r.late = c.late /\ r.answer = c.answer
BY DEF Call

LEMMA ServedTyped ==
    ASSUME NEW c \in Call, NEW a \in Answer
    PROVE  LET r == [c EXCEPT !.stage = "served", !.answer = a, !.goal = None]
           IN  /\ r \in Call /\ r.op = c.op /\ r.arg = c.arg /\ r.to = c.to /\ r.goal = None
               /\ r.stage = "served" /\ r.heard = c.heard /\ r.mounted = c.mounted /\ r.late = c.late /\ r.answer = a
BY DEF Call, Answer

LEMMA LateTyped ==
    ASSUME NEW c \in Call, NEW late \in BOOLEAN
    PROVE  LET r == [c EXCEPT !.late = late]
           IN  /\ r \in Call /\ r.op = c.op /\ r.arg = c.arg /\ r.to = c.to /\ r.goal = c.goal
               /\ r.stage = c.stage /\ r.heard = c.heard /\ r.mounted = c.mounted /\ r.late = late /\ r.answer = c.answer
BY DEF Call

LEMMA UnheardTyped ==
    ASSUME NEW c \in Call
    PROVE  LET r == [c EXCEPT !.heard = FALSE]
           IN  /\ r \in Call /\ r.op = c.op /\ r.arg = c.arg /\ r.to = c.to /\ r.goal = c.goal
               /\ r.stage = c.stage /\ r.heard = FALSE /\ r.mounted = c.mounted /\ r.late = c.late /\ r.answer = c.answer
BY DEF Call

LEMMA CallsTo ==
    ASSUME call \in [Line -> Call], NEW s \in Line, NEW op \in Op, NEW arg \in Goal \cup Exchange \cup {None},
           NEW to \in BOOLEAN, Calls(s, op, arg, to)
    PROVE  /\ call' \in [Line -> Call] /\ Begun(s, op, arg, to)
           /\ \A t \in Line : t # s => call'[t] = call[t]
<1> DEFINE r == [Idle EXCEPT !.op = op, !.arg = arg, !.to = to]
<1>1. /\ r \in Call /\ r.op = op /\ r.arg = arg /\ r.to = to /\ r.goal = None
      /\ r.stage = "sent" /\ r.heard /\ r.mounted /\ ~r.late /\ r.answer = Nothing
  BY NothingTyped DEF Idle, Call, Answer, Op
<1>2. call' = [call EXCEPT ![s] = r]
  BY DEF Calls
<1> HIDE DEF r
<1>3. QED
  BY <1>1, <1>2 DEF Begun

LEMMA RebuildsTo ==
    ASSUME call \in [Line -> Call], NEW s \in Line, NEW ops, NEW op \in Op, Rebuilds(s, ops, op)
    PROVE  /\ call' \in [Line -> Call] /\ Begun(s, op, None, FALSE)
           /\ \A t \in Line : t # s =>
                 /\ Kept(t) /\ call'[t].late = call[t].late
                 /\ call[t].op \in ops /\ call[t].heard => ~call'[t].mounted
                 /\ ~(call[t].op \in ops /\ call[t].heard) => call'[t].mounted = call[t].mounted
<1> DEFINE r == [Idle EXCEPT !.op = op]
           u(t) == [call[t] EXCEPT !.mounted = FALSE]
<1>1. /\ r \in Call /\ r.op = op /\ r.arg = None /\ r.to = FALSE /\ r.goal = None
      /\ r.stage = "sent" /\ r.heard /\ r.mounted /\ ~r.late /\ r.answer = Nothing
  BY RebuiltTyped
<1>2. \A t \in Line : /\ u(t) \in Call /\ u(t).op = call[t].op /\ u(t).arg = call[t].arg /\ u(t).to = call[t].to
                      /\ u(t).goal = call[t].goal /\ u(t).stage = call[t].stage /\ u(t).heard = call[t].heard
                      /\ u(t).mounted = FALSE /\ u(t).late = call[t].late /\ u(t).answer = call[t].answer
  BY UnmountedTyped
<1>3. call' = [t \in Line |-> IF t = s THEN r ELSE IF call[t].op \in ops /\ call[t].heard THEN u(t) ELSE call[t]]
  BY DEF Rebuilds
<1> HIDE DEF r, u
<1>4. call' \in [Line -> Call]
  BY <1>1, <1>2, <1>3
<1>5. Begun(s, op, None, FALSE)
  BY <1>1, <1>3 DEF Begun
<1>6. ASSUME NEW t \in Line, t # s
      PROVE  /\ Kept(t) /\ call'[t].late = call[t].late
             /\ call[t].op \in ops /\ call[t].heard => ~call'[t].mounted
             /\ ~(call[t].op \in ops /\ call[t].heard) => call'[t].mounted = call[t].mounted
  <2>1. CASE call[t].op \in ops /\ call[t].heard
    BY <1>2, <1>3, <1>6, <2>1 DEF Kept
  <2>2. CASE ~(call[t].op \in ops /\ call[t].heard)
    BY <1>3, <1>6, <2>2 DEF Kept
  <2>3. QED
    BY <2>1, <2>2
<1>7. QED
  BY <1>4, <1>5, <1>6

\* A handler is over: its call is answered, or forgotten when nobody hears it.
ServedAs(s, a) ==
    /\ call'[s].op = call[s].op /\ call'[s].arg = call[s].arg /\ call'[s].to = call[s].to
    /\ call'[s].stage = "served" /\ call'[s].heard /\ call'[s].mounted = call[s].mounted
    /\ call'[s].late = call[s].late /\ call'[s].answer = a

LEMMA AnswersTo ==
    ASSUME call \in [Line -> Call], NEW s \in Line, NEW a \in Answer, Answers(s, a)
    PROVE  /\ call' \in [Line -> Call]
           /\ call[s].heard => ServedAs(s, a)
           /\ ~call[s].heard => call'[s] = Idle
           /\ \A t \in Line : t # s =>
                 /\ Kept(t) /\ call'[t].mounted = call[t].mounted
                 /\ call[t].late \/ (Told(t) /\ current' # current) => call'[t].late
<1> DEFINE r == [call[s] EXCEPT !.stage = "served", !.answer = a, !.goal = None]
           u(t) == [call[t] EXCEPT !.late = @ \/ (Told(t) /\ current' # current)]
<1>0. call[s] \in Call
  OBVIOUS
<1>1. /\ r \in Call /\ r.op = call[s].op /\ r.arg = call[s].arg /\ r.to = call[s].to
      /\ r.stage = "served" /\ r.heard = call[s].heard /\ r.mounted = call[s].mounted /\ r.late = call[s].late
      /\ r.answer = a
  BY <1>0, ServedTyped, Zenon
<1>2. \A t \in Line : /\ u(t) \in Call /\ u(t).op = call[t].op /\ u(t).arg = call[t].arg /\ u(t).to = call[t].to
                      /\ u(t).goal = call[t].goal /\ u(t).stage = call[t].stage /\ u(t).heard = call[t].heard
                      /\ u(t).mounted = call[t].mounted /\ u(t).answer = call[t].answer
                      /\ call[t].late \/ (Told(t) /\ current' # current) => u(t).late
  <2> SUFFICES ASSUME NEW t \in Line
               PROVE  /\ u(t) \in Call /\ u(t).op = call[t].op /\ u(t).arg = call[t].arg /\ u(t).to = call[t].to
                      /\ u(t).goal = call[t].goal /\ u(t).stage = call[t].stage /\ u(t).heard = call[t].heard
                      /\ u(t).mounted = call[t].mounted /\ u(t).answer = call[t].answer
                      /\ call[t].late \/ (Told(t) /\ current' # current) => u(t).late
    OBVIOUS
  <2>1. PICK late \in BOOLEAN : late <=> (call[t].late \/ (Told(t) /\ current' # current))
    OBVIOUS
  <2>2. call[t] \in Call /\ call[t].late \in BOOLEAN
    BY DEF Call
  <2>3. u(t) = [call[t] EXCEPT !.late = late]
    BY <2>1, <2>2
  <2> HIDE DEF u
  <2>4. QED
    BY <2>1, <2>2, <2>3, LateTyped
<1>3. call' = [t \in Line |-> IF t = s THEN IF call[s].heard THEN r ELSE Idle ELSE u(t)]
  BY DEF Answers
<1> HIDE DEF r, u
<1>4. call' \in [Line -> Call]
  BY <1>1, <1>2, <1>3, IdleTyped
<1>5. call[s].heard => ServedAs(s, a)
  BY <1>1, <1>3 DEF ServedAs
<1>6. ASSUME NEW t \in Line, t # s
      PROVE  /\ Kept(t) /\ call'[t].mounted = call[t].mounted
             /\ call[t].late \/ (Told(t) /\ current' # current) => call'[t].late
  BY <1>2, <1>3, <1>6 DEF Kept
<1>7. QED
  BY <1>3, <1>4, <1>5, <1>6

LEMMA EndsTo ==
    ASSUME call \in [Line -> Call], NEW s \in Line, Ends(s)
    PROVE  /\ call' \in [Line -> Call] /\ call'[s] = Idle
           /\ \A t \in Line : t # s => call'[t] = call[t]
BY IdleTyped DEF Ends

-----------------------------------------------------------------------------
(* Each action, by what it does to the calls.                              *)

\* A call that is over, or was forgotten.
Over(s) == call'[s].op = "idle" /\ call'[s].stage = "sent"

\* A call the app no longer waits for.
Unheard(t) ==
    /\ call'[t].op = call[t].op /\ call'[t].arg = call[t].arg /\ call'[t].to = call[t].to
    /\ call'[t].goal = call[t].goal /\ call'[t].stage = call[t].stage
    /\ ~call'[t].heard /\ call'[t].mounted = call[t].mounted /\ call'[t].answer = call[t].answer

OthersSame(s) == \A t \in Line : t # s => call'[t] = call[t]

\* Calls that others' answers leave as they were, but for being late.
OthersKept(s) ==
    \A t \in Line : t # s =>
        /\ Kept(t) /\ call'[t].mounted = call[t].mounted
        /\ call[t].late \/ (Told(t) /\ current' # current) => call'[t].late

Began(s, op, arg, to) == call' \in [Line -> Call] /\ Begun(s, op, arg, to) /\ OthersSame(s)

Ended(s) == call' \in [Line -> Call] /\ Over(s) /\ OthersSame(s)

\* A provider built again.
Rebuilt(s, ops, op) ==
    /\ call' \in [Line -> Call] /\ Begun(s, op, None, FALSE)
    /\ \A t \in Line : t # s =>
          /\ Kept(t) /\ call'[t].late = call[t].late
          /\ call[t].op \in ops /\ call[t].heard => ~call'[t].mounted
          /\ ~(call[t].op \in ops /\ call[t].heard) => call'[t].mounted = call[t].mounted

Replied(s, ok) ==
    /\ call'[s].op = call[s].op /\ call'[s].arg = call[s].arg /\ call'[s].to = call[s].to
    /\ call'[s].stage = "served" /\ call'[s].heard /\ call'[s].mounted = call[s].mounted
    /\ call'[s].late = call[s].late
    /\ call'[s].answer.ok = ok

Answered(s, ok) ==
    /\ call' \in [Line -> Call]
    /\ call[s].heard => Replied(s, ok)
    /\ ~call[s].heard => Over(s)
    /\ OthersKept(s)

LEMMA OkTyped ==
    ASSUME NEW ok \in BOOLEAN
    PROVE  LET a == [Nothing EXCEPT !.ok = ok]
           IN  a \in Answer /\ a.ok = ok /\ a.lists = {} /\ a.hearts = {}
BY DEF Nothing, Answer

LEMMA OkActiveTyped ==
    ASSUME NEW ok \in BOOLEAN, NEW g \in Goal \cup {None}
    PROVE  LET a == [Nothing EXCEPT !.ok = ok, !.active = g]
           IN  a \in Answer /\ a.ok = ok /\ a.active = g /\ a.lists = {} /\ a.hearts = {}
BY DEF Nothing, Answer

LEMMA AnswersThat ==
    ASSUME TypeOK, NEW s \in Line, NEW a \in Answer, Answers(s, a)
    PROVE  Answered(s, a.ok) /\ (call[s].heard => call'[s].answer = a)
<1>1. call \in [Line -> Call]
  BY DEF TypeOK
<1>2. /\ call' \in [Line -> Call]
      /\ call[s].heard => ServedAs(s, a)
      /\ ~call[s].heard => call'[s] = Idle
      /\ \A t \in Line : t # s =>
            /\ Kept(t) /\ call'[t].mounted = call[t].mounted
            /\ call[t].late \/ (Told(t) /\ current' # current) => call'[t].late
  BY <1>1, AnswersTo
<1>3. QED
  BY <1>2, IdleTyped DEF Answered, OthersKept, Over, ServedAs, Replied

LEMMA AnswersOk ==
    ASSUME TypeOK, NEW s \in Line, NEW ok \in BOOLEAN, Answers(s, [Nothing EXCEPT !.ok = ok])
    PROVE  Answered(s, ok) /\ (call[s].heard => call'[s].answer.lists = {} /\ call'[s].answer.hearts = {})
<1> DEFINE a == [Nothing EXCEPT !.ok = ok]
<1>1. a \in Answer /\ a.ok = ok /\ a.lists = {} /\ a.hearts = {} /\ Answers(s, a)
  BY OkTyped
<1> HIDE DEF a
<1>2. QED
  BY <1>1, AnswersThat

LEMMA CallsThat ==
    ASSUME TypeOK, NEW s \in Line, NEW op \in Op, NEW arg \in Goal \cup Exchange \cup {None},
           NEW to \in BOOLEAN, Calls(s, op, arg, to)
    PROVE  Began(s, op, arg, to)
BY CallsTo DEF Began, OthersSame, TypeOK

LEMMA EndsThat ==
    ASSUME TypeOK, NEW s \in Line, Ends(s)
    PROVE  Ended(s)
BY EndsTo, IdleTyped DEF Ended, Over, OthersSame, TypeOK

LEMMA RebuildsThat ==
    ASSUME TypeOK, NEW s \in Line, NEW ops, NEW op \in Op, Rebuilds(s, ops, op)
    PROVE  Rebuilt(s, ops, op)
BY RebuildsTo DEF Rebuilt, TypeOK

LEMMA ThenTo ==
    ASSUME TypeOK, NEW s \in Line, Then(s)
    PROVE  IF Ok(s) /\ call[s].mounted THEN Rebuilt(s, {"goals"}, "goals") ELSE Ended(s)
BY RebuildsThat, EndsThat DEF Then, Op

LEMMA ReloadGoalsTo ==
    ASSUME TypeOK, NEW s \in Line, ReloadGoals(s)
    PROVE  Rebuilt(s, {"goals"}, "goals")
BY RebuildsThat DEF ReloadGoals, Op

LEMMA BuildTo ==
    ASSUME TypeOK, Build
    PROVE  Rebuilt("page", {"send", "like"}, "chat")
BY RebuildsThat DEF Build, Op, Line

LEMMA SetActiveTo ==
    ASSUME TypeOK, NEW s \in Line, NEW g \in Goal, SetActive(s, g)
    PROVE  Began(s, "setActive", g, FALSE)
BY CallsThat DEF SetActive, Op

LEMMA DeleteTo ==
    ASSUME TypeOK, NEW s \in Line, NEW g \in Goal, Delete(s, g)
    PROVE  Began(s, "delete", g, listed = g)
<1>1. (listed = g) \in BOOLEAN
  OBVIOUS
<1>2. Calls(s, "delete", g, listed = g)
  BY DEF Delete
<1>3. QED
  BY <1>1, <1>2, CallsThat DEF Op

LEMMA SendTo ==
    ASSUME TypeOK, NEW s \in Line, NEW e \in Exchange, Send(s, e)
    PROVE  Began(s, "send", e, FALSE)
BY CallsThat DEF Send, Op

LEMMA LikeTo ==
    ASSUME TypeOK, NEW s \in Line, NEW e \in Exchange, Like(s, e)
    PROVE  Began(s, "like", e, e \notin chat.hearts)
<1>1. (e \notin chat.hearts) \in BOOLEAN
  OBVIOUS
<1>2. Calls(s, "like", e, e \notin chat.hearts)
  BY DEF Like
<1>3. QED
  BY <1>1, <1>2, CallsThat DEF Op

LEMMA ListGoalsTo ==
    ASSUME TypeOK, NEW s \in Line, ListGoals(s)
    PROVE  /\ Answered(s, live # {})
           /\ call[s].heard => call'[s].answer.active = current /\ call'[s].answer.lists = {}
<1>1. (live # {}) \in BOOLEAN /\ current \in Goal \cup {None}
  BY DEF TypeOK
<1> DEFINE a == [Nothing EXCEPT !.ok = live # {}, !.active = current]
<1>2. a \in Answer /\ a.ok = (live # {}) /\ a.active = current /\ a.lists = {} /\ a.hearts = {}
  BY <1>1, OkActiveTyped
<1>3. Answers(s, a)
  BY DEF ListGoals
<1> HIDE DEF a
<1>4. QED
  BY <1>2, <1>3, AnswersThat

LEMMA SetActiveGoalTo ==
    ASSUME TypeOK, NEW s \in Line, SetActiveGoal(s)
    PROVE  \E ok \in BOOLEAN : (ok <=> call[s].arg \in live) /\ Answered(s, ok)
<1>a. (call[s].arg \in live) \in BOOLEAN
  OBVIOUS
<1>1. PICK ok \in BOOLEAN : ok = (call[s].arg \in live)
  BY <1>a, Zenon
<1>2. Answers(s, [Nothing EXCEPT !.ok = ok])
  BY <1>1 DEF SetActiveGoal, Owned
<1>3. QED
  BY <1>1, <1>2, AnswersOk

LEMMA DeleteGoalTo ==
    ASSUME TypeOK, NEW s \in Line, DeleteGoal(s)
    PROVE  \E ok \in BOOLEAN : (ok <=> call[s].arg \in live) /\ Answered(s, ok)
<1>a. (call[s].arg \in live) \in BOOLEAN
  OBVIOUS
<1>1. PICK ok \in BOOLEAN : ok = (call[s].arg \in live)
  BY <1>a, Zenon
<1>2. Answers(s, [Nothing EXCEPT !.ok = ok])
  BY <1>1 DEF DeleteGoal, Owned
<1>3. QED
  BY <1>1, <1>2, AnswersOk

LEMMA ListMessagesTo ==
    ASSUME TypeOK, NEW s \in Line, ListMessages(s)
    PROVE  /\ Answered(s, current # None)
           /\ call[s].heard => /\ call'[s].answer.lists = Page(current)
                               /\ call'[s].answer.hearts = liked \cap Page(current)
<1> DEFINE a == [ok |-> HasActive, active |-> None, lists |-> Page(current), hearts |-> liked \cap Page(current)]
<1>1. Page(current) \subseteq Exchange /\ HasActive = (current # None) /\ HasActive \in BOOLEAN
  BY DEF Page, HasActive
<1>2. /\ a \in Answer /\ a.ok = (current # None)
      /\ a.lists = Page(current) /\ a.hearts = liked \cap Page(current)
  BY <1>1 DEF Answer
<1>3. Answers(s, a)
  BY DEF ListMessages
<1> HIDE DEF a
<1>4. QED
  BY <1>2, <1>3, AnswersThat

LEMMA LikeMessageTo ==
    ASSUME TypeOK, NEW s \in Line, LikeMessage(s)
    PROVE  \E ok \in BOOLEAN : (ok <=> call[s].arg \in Page(current)) /\ Answered(s, ok)
<1>a. (call[s].arg \in Page(current)) \in BOOLEAN
  OBVIOUS
<1>1. PICK ok \in BOOLEAN : ok = (call[s].arg \in Page(current))
  BY <1>a, Zenon
<1>2. Answers(s, [Nothing EXCEPT !.ok = ok])
  BY <1>1 DEF LikeMessage
<1>3. QED
  BY <1>1, <1>2, AnswersOk

\* A message being thought about, under the goal that was active.
Thinks(s) ==
    /\ call' \in [Line -> Call] /\ OthersSame(s)
    /\ call'[s].op = call[s].op /\ call'[s].arg = call[s].arg /\ call'[s].to = call[s].to
    /\ call'[s].stage = "thinking" /\ call'[s].goal = current
    /\ call'[s].heard = call[s].heard /\ call'[s].mounted = call[s].mounted
    /\ call'[s].answer = call[s].answer

LEMMA SendMessageTo ==
    ASSUME TypeOK, NEW s \in Line, SendMessage(s)
    PROVE  \/ Answered(s, FALSE)
           \/ current # None /\ Thinks(s)
<1>1. CASE ~HasActive
  <2>1. Nothing \in Answer /\ Nothing.ok = FALSE
    BY NothingTyped
  <2>2. QED
    BY <1>1, <2>1, AnswersThat DEF SendMessage
<1>2. CASE HasActive
  <2> DEFINE r == [call[s] EXCEPT !.stage = "thinking", !.goal = current]
  <2>1. call[s] \in Call /\ current \in Goal \cup {None} /\ call \in [Line -> Call]
    BY DEF TypeOK
  <2>2. /\ r \in Call /\ r.op = call[s].op /\ r.arg = call[s].arg /\ r.to = call[s].to
        /\ r.stage = "thinking" /\ r.goal = current
        /\ r.heard = call[s].heard /\ r.mounted = call[s].mounted /\ r.answer = call[s].answer
    <3> ASSUME NEW c \in Call, NEW g \in Goal \cup {None}
        PROVE  LET q == [c EXCEPT !.stage = "thinking", !.goal = g]
               IN  /\ q \in Call /\ q.op = c.op /\ q.arg = c.arg /\ q.to = c.to
                   /\ q.stage = "thinking" /\ q.goal = g
                   /\ q.heard = c.heard /\ q.mounted = c.mounted /\ q.answer = c.answer
      BY DEF Call
    <3> QED
      BY <2>1
  <2>3. call' = [call EXCEPT ![s] = r]
    BY <1>2, <2>1 DEF SendMessage
  <2> HIDE DEF r
  <2>4. QED
    BY <1>2, <2>1, <2>2, <2>3 DEF Thinks, OthersSame, HasActive
<1>3. QED
  BY <1>1, <1>2

LEMMA StoreReplyTo ==
    ASSUME TypeOK, NEW s \in Line, StoreReply(s)
    PROVE  \/ /\ call[s].goal \in live /\ kept' = [kept EXCEPT ![call[s].arg] = call[s].goal]
              /\ Answered(s, TRUE)
           \/ kept' = kept /\ Answered(s, FALSE)
<1>1. Nothing \in Answer /\ Nothing.ok = FALSE
  BY NothingTyped
<1>2. QED
  <2>1. \/ /\ call[s].goal \in live /\ kept' = [kept EXCEPT ![call[s].arg] = call[s].goal]
           /\ Answers(s, Done)
        \/ kept' = kept /\ Answers(s, Nothing)
    BY DEF StoreReply
  <2>2. Answers(s, Done) => Answered(s, TRUE)
    BY AnswersOk DEF Done
  <2>3. Answers(s, Nothing) => Answered(s, FALSE)
    BY <1>1, AnswersThat
  <2>4. QED
    BY <2>1, <2>2, <2>3

LEMMA NeverArrivesTo ==
    ASSUME TypeOK, NEW s \in Line, NeverArrives(s)
    PROVE  Ended(s)
BY EndsThat DEF NeverArrives, Ends

LEMMA LaunchTo ==
    ASSUME TypeOK, NEW s \in Line, Launch(s)
    PROVE  /\ call' \in [Line -> Call] /\ Begun(s, "launch", None, FALSE)
           /\ \A t \in Line : t # s =>
                 \/ Over(t)
                 \/ Unheard(t) /\ call[t].stage # "served" /\ call[t].op \notin {"idle", "chat", "goals"}
<1> DEFINE r == [Idle EXCEPT !.op = "launch"]
           u(t) == [call[t] EXCEPT !.heard = FALSE]
           gone(t) == call[t].stage = "served" \/ call[t].op \in {"idle", "chat", "goals"}
<1>1. /\ r \in Call /\ r.op = "launch" /\ r.arg = None /\ r.to = FALSE /\ r.goal = None
      /\ r.stage = "sent" /\ r.heard /\ r.mounted /\ ~r.late /\ r.answer = Nothing
  BY RebuiltTyped DEF Op
<1>2. \A t \in Line : /\ u(t) \in Call /\ u(t).op = call[t].op /\ u(t).arg = call[t].arg /\ u(t).to = call[t].to
                      /\ u(t).goal = call[t].goal /\ u(t).stage = call[t].stage /\ u(t).heard = FALSE
                      /\ u(t).mounted = call[t].mounted /\ u(t).answer = call[t].answer
  BY UnheardTyped DEF TypeOK
<1>3. call' = [t \in Line |-> IF t = s THEN r ELSE IF gone(t) THEN Idle ELSE u(t)]
  BY DEF Launch
<1>4. \A t \in Line : ~gone(t) => call[t].stage # "served" /\ call[t].op \notin {"idle", "chat", "goals"}
  OBVIOUS
<1> HIDE DEF r, u, gone
<1>5. call' \in [Line -> Call]
  BY <1>1, <1>2, <1>3, IdleTyped
<1>6. Begun(s, "launch", None, FALSE)
  BY <1>1, <1>3 DEF Begun
<1>7. ASSUME NEW t \in Line, t # s
      PROVE  \/ Over(t)
             \/ Unheard(t) /\ call[t].stage # "served" /\ call[t].op \notin {"idle", "chat", "goals"}
  <2>1. CASE gone(t)
    BY <1>3, <1>7, <2>1, IdleTyped DEF Over
  <2>2. CASE ~gone(t)
    BY <1>2, <1>3, <1>4, <1>7, <2>2 DEF Unheard
  <2>3. QED
    BY <2>1, <2>2
<1>8. QED
  BY <1>5, <1>6, <1>7

LEMMA GivesUpTo ==
    ASSUME TypeOK, NEW s \in Line, GivesUp(s)
    PROVE  \/ call[s].stage = "served" /\ Ended(s)
           \/ /\ call[s].stage # "served" /\ Unheard(s) /\ call'[s].answer = call[s].answer
              /\ call' \in [Line -> Call] /\ OthersSame(s)
<1>1. CASE call[s].stage = "served"
  BY <1>1, EndsThat DEF GivesUp, Ends, TypeOK
<1>2. CASE call[s].stage # "served"
  <2> DEFINE r == [call[s] EXCEPT !.heard = FALSE]
  <2>1. call \in [Line -> Call] /\ call[s] \in Call
    BY DEF TypeOK
  <2>2. /\ r \in Call /\ r.op = call[s].op /\ r.arg = call[s].arg /\ r.to = call[s].to
        /\ r.goal = call[s].goal /\ r.stage = call[s].stage /\ r.heard = FALSE
        /\ r.mounted = call[s].mounted /\ r.answer = call[s].answer
    BY <2>1, UnheardTyped
  <2>3. call' = [call EXCEPT ![s] = r]
    BY <1>2, <2>1 DEF GivesUp
  <2> HIDE DEF r
  <2>4. QED
    BY <1>2, <2>1, <2>2, <2>3 DEF Unheard, OthersSame
<1>3. QED
  BY <1>1, <1>2

LEMMA OtherDeviceTo ==
    ASSUME TypeOK, NEW g \in Goal, OtherDevice(g)
    PROVE  /\ call' \in [Line -> Call]
           /\ \A t \in Line :
                 /\ Kept(t) /\ call'[t].mounted = call[t].mounted
                 /\ call[t].late \/ Told(t) => call'[t].late
<1> DEFINE u(t) == [call[t] EXCEPT !.late = @ \/ Told(t)]
<1>1. ASSUME NEW t \in Line
      PROVE  /\ u(t) \in Call /\ u(t).op = call[t].op /\ u(t).arg = call[t].arg /\ u(t).to = call[t].to
             /\ u(t).goal = call[t].goal /\ u(t).stage = call[t].stage /\ u(t).heard = call[t].heard
             /\ u(t).mounted = call[t].mounted /\ u(t).answer = call[t].answer
             /\ call[t].late \/ Told(t) => u(t).late
  <2>1. PICK late \in BOOLEAN : late <=> (call[t].late \/ Told(t))
    OBVIOUS
  <2>2. call[t] \in Call /\ call[t].late \in BOOLEAN
    BY DEF Call, TypeOK
  <2>3. u(t) = [call[t] EXCEPT !.late = late]
    BY <2>1, <2>2
  <2> HIDE DEF u
  <2>4. QED
    BY <2>1, <2>2, <2>3, LateTyped
<1>2. call' = [t \in Line |-> u(t)]
  BY DEF OtherDevice
<1> HIDE DEF u
<1>3. QED
  BY <1>1, <1>2 DEF Kept

\* The screen of an action is left: only the actions are unmounted.
LEMMA LeavesGoalTo ==
    ASSUME TypeOK, LeavesGoal
    PROVE  /\ call' \in [Line -> Call]
           /\ \A t \in Line :
                 /\ Kept(t) /\ call'[t].late = call[t].late
                 /\ call'[t].mounted => call[t].mounted
                 /\ call[t].op \notin Mutating => call'[t].mounted = call[t].mounted
<1> DEFINE u(t) == [call[t] EXCEPT !.mounted = FALSE]
<1>1. \A t \in Line : /\ u(t) \in Call /\ u(t).op = call[t].op /\ u(t).arg = call[t].arg /\ u(t).to = call[t].to
                      /\ u(t).goal = call[t].goal /\ u(t).stage = call[t].stage /\ u(t).heard = call[t].heard
                      /\ u(t).mounted = FALSE /\ u(t).late = call[t].late /\ u(t).answer = call[t].answer
  BY UnmountedTyped DEF TypeOK
<1>2. call' = [t \in Line |-> IF call[t].op \in Mutating THEN u(t) ELSE call[t]]
  BY DEF LeavesGoal
<1> HIDE DEF u
<1>3. call' \in [Line -> Call]
  BY <1>1, <1>2 DEF TypeOK
<1>4. QED
  BY <1>1, <1>2, <1>3 DEF Kept

LEMMA HeardTo ==
    ASSUME TypeOK, NEW s \in Line,
           HeardGoals(s) \/ HeardLaunch(s) \/ HeardChat(s) \/ HeardSend(s) \/ HeardLike(s)
    PROVE  Ended(s)
BY EndsThat DEF HeardGoals, HeardLaunch, HeardChat, HeardSend, HeardLike

LEMMA HeardActionTo ==
    ASSUME TypeOK, NEW s \in Line, HeardSetActive(s) \/ HeardDelete(s)
    PROVE  IF Ok(s) /\ call[s].mounted THEN Rebuilt(s, {"goals"}, "goals") ELSE Ended(s)
BY ThenTo DEF HeardSetActive, HeardDelete

-----------------------------------------------------------------------------
(* What is written to the chat.                                            *)

LEMMA BlankTyped ==
    ASSUME NEW g \in Goal \cup {None}
    PROVE  /\ Blank(g) \in Chat /\ Blank(g).goal = g /\ Blank(g).page = "loading"
           /\ Blank(g).shown = {} /\ Blank(g).hearts = {} /\ Blank(g).sending = FALSE
BY DEF Blank, Chat

LEMMA HeartedTyped ==
    ASSUME NEW c \in Chat, NEW e \in Exchange, NEW full \in BOOLEAN
    PROVE  LET r == Hearted(c, e, full)
           IN  /\ r \in Chat /\ r.goal = c.goal /\ r.page = c.page /\ r.shown = c.shown /\ r.sending = c.sending
               /\ full => r.hearts = c.hearts \cup {e}
               /\ ~full => r.hearts = c.hearts \ {e}
BY DEF Hearted, Chat

\* A tap on a heart, or on send.
LEMMA LikeTaps ==
    ASSUME TypeOK, NEW s \in Line, NEW e \in Exchange, Like(s, e)
    PROVE  /\ chat' \in Chat /\ chat'.goal = chat.goal /\ chat'.page = chat.page /\ chat'.shown = chat.shown
           /\ e \in chat.shown /\ chat.page = "shown"
           /\ e \in chat.hearts => chat'.hearts = chat.hearts \ {e}
           /\ e \notin chat.hearts => chat'.hearts = chat.hearts \cup {e}
<1>1. PICK full \in BOOLEAN : full <=> e \notin chat.hearts
  OBVIOUS
<1>2. chat' = Hearted(chat, e, full) /\ e \in chat.shown /\ chat.page = "shown"
  BY <1>1 DEF Like, Taps, Writes
<1>3. chat \in Chat
  BY DEF TypeOK
<1>4. QED
  BY <1>1, <1>2, <1>3, HeartedTyped

LEMMA SendTaps ==
    ASSUME TypeOK, NEW s \in Line, NEW e \in Exchange, Send(s, e)
    PROVE  /\ chat' \in Chat /\ chat'.goal = chat.goal /\ chat'.page = chat.page
           /\ chat'.shown = chat.shown /\ chat'.hearts = chat.hearts /\ chat.page = "shown"
<1>1. chat' = [chat EXCEPT !.sending = TRUE] /\ chat \in Chat /\ chat.page = "shown"
  BY DEF Send, Taps, Writes, TypeOK
<1>2. QED
  BY <1>1 DEF Chat

LEMMA SentTo ==
    ASSUME TypeOK, NEW s \in Line, call[s].arg \in Exchange, NEW ok \in BOOLEAN, Sent(s, ok)
    PROVE  /\ chat' \in Chat /\ chat'.goal = chat.goal /\ chat'.page = chat.page /\ chat'.hearts = chat.hearts
           /\ StillCurrent(s) /\ ok => chat'.shown = chat.shown \cup {call[s].arg}
           /\ ~(StillCurrent(s) /\ ok) => chat'.shown = chat.shown
           /\ StillCurrent(s) => stale' = FALSE
           /\ ~StillCurrent(s) => stale' = stale
<1>1. chat \in Chat
  BY DEF TypeOK
<1>2. CASE StillCurrent(s) /\ ok
  <2>1. chat' = [chat EXCEPT !.sending = FALSE, !.shown = @ \cup {call[s].arg}] /\ stale' = FALSE
    BY <1>2 DEF Sent, Writes
  <2>2. QED
    BY <1>1, <1>2, <2>1 DEF Chat
<1>3. CASE StillCurrent(s) /\ ~ok
  <2>1. chat' = [chat EXCEPT !.sending = FALSE, !.shown = @] /\ stale' = FALSE
    BY <1>3 DEF Sent, Writes
  <2>2. QED
    BY <1>1, <1>3, <2>1 DEF Chat
<1>4. CASE ~StillCurrent(s)
  BY <1>1, <1>4 DEF Sent
<1>5. QED
  BY <1>2, <1>3, <1>4

LEMMA LikedTo ==
    ASSUME TypeOK, NEW s \in Line, call[s].arg \in Exchange, NEW ok \in BOOLEAN, Liked(s, ok)
    PROVE  /\ chat' \in Chat /\ chat'.goal = chat.goal /\ chat'.page = chat.page /\ chat'.shown = chat.shown
           /\ StillCurrent(s) /\ (call[s].to <=> ok) => chat'.hearts = chat.hearts \cup {call[s].arg}
           /\ StillCurrent(s) /\ ~(call[s].to <=> ok) => chat'.hearts = chat.hearts \ {call[s].arg}
           /\ ~StillCurrent(s) => chat'.hearts = chat.hearts
           /\ StillCurrent(s) => stale' = FALSE
           /\ ~StillCurrent(s) => stale' = stale
<1>1. chat \in Chat /\ call[s].to \in BOOLEAN
  BY DEF TypeOK, Call
<1>2. CASE StillCurrent(s)
  <2>1. PICK full \in BOOLEAN : full <=> (call[s].to <=> ok)
    OBVIOUS
  <2>2. chat' = Hearted(chat, call[s].arg, full) /\ stale' = FALSE
    BY <1>1, <1>2, <2>1 DEF Liked, Writes
  <2>3. QED
    BY <1>1, <1>2, <2>1, <2>2, HeartedTyped
<1>3. CASE ~StillCurrent(s)
  BY <1>1, <1>3 DEF Liked
<1>4. QED
  BY <1>2, <1>3

LEMMA HeardChatTo ==
    ASSUME TypeOK, NEW s \in Line, HeardChat(s), call[s].mounted
    PROVE  /\ chat' \in Chat /\ chat'.goal = chat.goal /\ chat'.page \in {"shown", "noGoal"}
           /\ chat'.shown = call[s].answer.lists /\ chat'.hearts = call[s].answer.hearts
<1>1. chat \in Chat /\ call[s].answer.lists \subseteq Exchange /\ call[s].answer.hearts \subseteq Exchange
  BY DEF TypeOK, Call
<1>2. PICK p \in {"shown", "noGoal"} :
         chat' = [chat EXCEPT !.page = p, !.shown = call[s].answer.lists, !.hearts = call[s].answer.hearts]
  BY DEF HeardChat
<1>3. QED
  BY <1>1, <1>2 DEF Chat

LEMMA FailedTyped ==
    ASSUME NEW c \in Chat
    PROVE  LET r == [c EXCEPT !.page = "failed"]
           IN  /\ r \in Chat /\ r.goal = c.goal /\ r.page = "failed" /\ r.shown = c.shown /\ r.hearts = c.hearts
BY DEF Chat

-----------------------------------------------------------------------------
(* TypeOK.                                                                 *)

LEMMA TypeInit == Init => TypeOK
<1> SUFFICES ASSUME Init PROVE TypeOK
  OBVIOUS
<1>1. call \in [Line -> Call]
  BY IdleTyped DEF Init
<1>2. chat = [Blank(First) EXCEPT !.page = "shown"] /\ Blank(First) \in Chat
  BY BlankTyped, FirstAssumption DEF Init
<1>3. chat \in Chat /\ chat.hearts = {}
  BY <1>2, FirstAssumption DEF Blank, Chat
<1>4. /\ live \subseteq Goal /\ current \in live \cup {None} /\ active \in Goal \cup {None}
      /\ listed \in Goal \cup {None, "unread"}
      /\ kept \in [Exchange -> live \cup {None, "unsent"}] /\ liked \subseteq {e \in Exchange : kept[e] \in live}
  BY FirstAssumption DEF Init
<1>5. stale \in BOOLEAN /\ behind \in BOOLEAN /\ astray \in BOOLEAN /\ torn \subseteq Exchange
  BY DEF Init
<1>6. faults \in 0 .. MaxFaults
  BY FaultsAssumption DEF Init
<1>7. QED
  BY <1>1, <1>3, <1>4, <1>5, <1>6 DEF TypeOK

LEMMA StudentType ==
    ASSUME TypeOK, Lines, NEW s \in Slot, Student(s)
    PROVE  TypeOK'
<1>1. s \in Line
  BY DEF Line
<1>2. CASE ReloadGoals(s)
  BY <1>1, <1>2, ReloadGoalsTo DEF ReloadGoals, Abandoned, Rebuilt, TypeOK, server, device
<1>3. CASE Launch(s)
  <2>1. call' \in [Line -> Call]
    BY <1>1, <1>3, LaunchTo
  <2>2. chat' \in Chat /\ chat'.hearts = {}
    BY <1>3, BlankTyped DEF Launch, TypeOK
  <2>3. faults' \in 0 .. MaxFaults
    BY <1>3, FaultsAssumption DEF Launch, TypeOK
  <2>4. QED
    BY <1>3, <2>1, <2>2, <2>3 DEF Launch, TypeOK, server
<1>4. ASSUME NEW g \in Goal, SetActive(s, g)
      PROVE  TypeOK'
  BY <1>1, <1>4, SetActiveTo DEF SetActive, Abandoned, Began, TypeOK, server, device
<1>5. ASSUME NEW g \in Goal, Delete(s, g)
      PROVE  TypeOK'
  BY <1>1, <1>5, DeleteTo DEF Delete, Abandoned, Began, TypeOK, server, device
<1>6. ASSUME NEW e \in Exchange, Send(s, e)
      PROVE  TypeOK'
  BY <1>1, <1>6, SendTo, SendTaps DEF Send, Taps, Writes, Began, TypeOK, server
<1>7. ASSUME NEW e \in Exchange, Like(s, e)
      PROVE  TypeOK'
  BY <1>1, <1>7, LikeTo, LikeTaps DEF Like, Taps, Writes, Began, TypeOK, server
<1>8. QED
  BY <1>2, <1>3, <1>4, <1>5, <1>6, <1>7 DEF Student

LEMMA ServerType ==
    ASSUME TypeOK, Lines, NEW s \in Line, Server(s)
    PROVE  TypeOK'
<1>1. CASE ListGoals(s)
  BY <1>1, ListGoalsTo DEF ListGoals, Answered, TypeOK, server, device, history
<1>2. CASE SetActiveGoal(s)
  BY <1>2, SetActiveGoalTo DEF SetActiveGoal, Owned, Answered, TypeOK, device, history
<1>3. CASE DeleteGoal(s)
  <2>1. call' \in [Line -> Call]
    BY <1>3, DeleteGoalTo DEF Answered
  <2>2. CASE call[s].arg \notin live
    BY <1>3, <2>1, <2>2 DEF DeleteGoal, Owned, TypeOK, server, device, history
  <2>3. CASE call[s].arg \in live
    <3>1. /\ live' = live \ {call[s].arg}
          /\ current' = IF current = call[s].arg THEN None ELSE current
          /\ kept' = [e \in Exchange |-> IF kept[e] = call[s].arg THEN None ELSE kept[e]]
          /\ liked' = {e \in liked : kept[e] # call[s].arg}
      BY <1>3, <2>3 DEF DeleteGoal, Owned
    <3>2. kept' \in [Exchange -> live' \cup {None, "unsent"}]
      BY <3>1 DEF TypeOK
    <3>3. current' \in live' \cup {None}
      BY <3>1 DEF TypeOK
    <3>4. \A e \in liked' : e \in Exchange /\ kept'[e] = kept[e] /\ kept[e] \in live'
      BY <3>1 DEF TypeOK
    <3>5. QED
      BY <1>3, <2>1, <3>1, <3>2, <3>3, <3>4 DEF DeleteGoal, TypeOK, device, history
  <2>4. QED
    BY <2>2, <2>3
<1>4. CASE ListMessages(s)
  BY <1>4, ListMessagesTo DEF ListMessages, Serves, Answered, TypeOK, server, device
<1>5. CASE LikeMessage(s)
  <2>1. call[s].arg \in Page(current) => call[s].arg \in Exchange /\ kept[call[s].arg] \in live
    BY DEF Page, TypeOK
  <2>2. QED
    BY <1>5, <2>1, LikeMessageTo DEF LikeMessage, Answered, TypeOK, device, history
<1>6. CASE SendMessage(s)
  BY <1>6, SendMessageTo DEF SendMessage, Serves, Answered, Thinks, TypeOK, server, device
<1>7. CASE StoreReply(s)
  <2>1. call[s].arg \in Exchange
    BY <1>7 DEF StoreReply, Lines
  <2>2. /\ call' \in [Line -> Call]
        /\ \/ call[s].goal \in live /\ kept' = [kept EXCEPT ![call[s].arg] = call[s].goal]
           \/ kept' = kept
    BY <1>7, StoreReplyTo DEF Answered
  <2>3. kept' \in [Exchange -> live \cup {None, "unsent"}]
    BY <2>1, <2>2 DEF TypeOK
  <2>4. \A e \in liked : kept'[e] \in live
    BY <2>1, <2>2 DEF TypeOK
  <2>5. QED
    BY <1>7, <2>2, <2>3, <2>4 DEF StoreReply, TypeOK, device, history
<1>8. CASE NeverArrives(s)
  BY <1>8, NeverArrivesTo DEF NeverArrives, Ended, TypeOK, server, device, history
<1>9. QED
  BY <1>1, <1>2, <1>3, <1>4, <1>5, <1>6, <1>7, <1>8 DEF Server

LEMMA DeviceType ==
    ASSUME TypeOK, Lines, Paged, Hearts, NEW s \in Line, Device(s)
    PROVE  TypeOK'
<1>a. call[s] \in Call /\ call[s].answer.active \in Goal \cup {None} /\ call[s].answer.ok \in BOOLEAN
  BY DEF TypeOK, Call
<1>1. CASE HeardSetActive(s)
  <2>1. call' \in [Line -> Call]
    BY <1>1, HeardActionTo DEF Rebuilt, Ended
  <2>2. active' \in Goal \cup {None} /\ stale' \in BOOLEAN
    BY <1>1 DEF HeardSetActive, Hears, Set, Keeps, Lines, Mutating, TypeOK
  <2>3. QED
    BY <1>1, <2>1, <2>2 DEF HeardSetActive, TypeOK, server, history
<1>2. CASE HeardDelete(s)
  <2>1. call' \in [Line -> Call]
    BY <1>2, HeardActionTo DEF Rebuilt, Ended
  <2>2. active' \in Goal \cup {None} /\ stale' \in BOOLEAN
    BY <1>2 DEF HeardDelete, Set, Keeps, TypeOK
  <2>3. QED
    BY <1>2, <2>1, <2>2 DEF HeardDelete, TypeOK, server, history
<1>3. CASE HeardGoals(s)
  <2>1. call' \in [Line -> Call]
    BY <1>3, HeardTo DEF Ended
  <2>2. /\ active' \in Goal \cup {None} /\ stale' \in BOOLEAN /\ behind' \in BOOLEAN
        /\ listed' \in Goal \cup {None, "unread"}
    BY <1>a, <1>3 DEF HeardGoals, CatchesUp, Set, Keeps, TypeOK
  <2>3. QED
    BY <1>3, <2>1, <2>2 DEF HeardGoals, TypeOK, server
<1>4. CASE HeardLaunch(s)
  <2>1. call' \in [Line -> Call]
    BY <1>4, HeardTo DEF Ended
  <2>2. active' \in Goal \cup {None} /\ stale' \in BOOLEAN /\ behind' \in BOOLEAN
    BY <1>a, <1>4 DEF HeardLaunch, CatchesUp, Set, Keeps, TypeOK
  <2>3. QED
    BY <1>4, <2>1, <2>2 DEF HeardLaunch, TypeOK, server
<1>5. CASE HeardChat(s)
  <2>1. call' \in [Line -> Call]
    BY <1>5, HeardTo DEF Ended
  <2>2. chat' \in Chat /\ chat'.shown = call[s].answer.lists /\ chat'.hearts = call[s].answer.hearts
    BY <1>5, HeardChatTo DEF HeardChat, Hears, Lines
  <2>3. call[s].answer.hearts \subseteq call[s].answer.lists
    BY <1>5 DEF HeardChat, Hears, Hearts, ListOf, Wanted, Lines
  <2>4. QED
    BY <1>5, <2>1, <2>2, <2>3 DEF HeardChat, TypeOK, server, history
<1>6. CASE HeardSend(s)
  <2>1. call' \in [Line -> Call]
    BY <1>6, HeardTo DEF Ended
  <2>2. chat' \in Chat /\ chat'.hearts \subseteq chat'.shown /\ stale' \in BOOLEAN
    BY <1>a, <1>6, SentTo DEF HeardSend, Hears, Ok, Lines, TypeOK
  <2>3. QED
    BY <1>6, <2>1, <2>2 DEF HeardSend, TypeOK, server, history
<1>7. CASE HeardLike(s)
  <2>1. call' \in [Line -> Call]
    BY <1>7, HeardTo DEF Ended
  <2>2. call[s].arg \in Exchange /\ (StillCurrent(s) => call[s].arg \in chat.shown)
    BY <1>7 DEF HeardLike, Hears, Lines, Paged, PagedCall, Wanted, StillCurrent
  <2>3. chat' \in Chat /\ chat'.hearts \subseteq chat'.shown /\ stale' \in BOOLEAN
    BY <1>a, <1>7, <2>2, LikedTo DEF HeardLike, Ok, TypeOK
  <2>4. QED
    BY <1>7, <2>1, <2>2, <2>3 DEF HeardLike, TypeOK, server
<1>8. CASE GivesUp(s)
  <2>1. call' \in [Line -> Call]
    BY <1>8, GivesUpTo DEF Ended
  <2>2. faults' \in 0 .. MaxFaults
    BY <1>8, FaultsAssumption DEF GivesUp, TypeOK
  <2>3. chat' \in Chat /\ chat'.hearts \subseteq chat'.shown /\ stale' \in BOOLEAN
    <3>1. CASE call[s].op = "send"
      BY <1>8, <3>1, SentTo DEF GivesUp, Lines, TypeOK
    <3>2. CASE call[s].op = "like"
      <4>1. call[s].arg \in Exchange /\ (StillCurrent(s) => call[s].arg \in chat.shown)
        BY <1>8, <3>2 DEF GivesUp, Lines, Paged, PagedCall, Wanted, StillCurrent
      <4>2. QED
        BY <1>8, <3>2, <4>1, LikedTo DEF GivesUp, TypeOK
    <3>3. CASE call[s].op = "chat" /\ call[s].mounted
      BY <1>8, <3>3, FailedTyped DEF GivesUp, TypeOK
    <3>4. CASE call[s].op \notin {"send", "like"} /\ ~(call[s].op = "chat" /\ call[s].mounted)
      BY <1>8, <3>4 DEF GivesUp, TypeOK
    <3>5. QED
      BY <3>1, <3>2, <3>3, <3>4
  <2>4. torn' \subseteq Exchange
    BY <1>8 DEF GivesUp, Lines, TypeOK
  <2>5. QED
    BY <1>8, <2>1, <2>2, <2>3, <2>4 DEF GivesUp, TypeOK, server
<1>9. QED
  BY <1>1, <1>2, <1>3, <1>4, <1>5, <1>6, <1>7, <1>8 DEF Device

LEMMA TypeStep == IInv /\ [Next]_vars => TypeOK'
<1> SUFFICES ASSUME TypeOK, Lines, Paged, Hearts, [Next]_vars PROVE TypeOK'
  BY DEF IInv
<1>1. CASE Build
  <2>1. call' \in [Line -> Call]
    BY <1>1, BuildTo DEF Rebuilt
  <2>2. chat' \in Chat /\ chat'.hearts = {}
    BY <1>1, BlankTyped DEF Build, TypeOK
  <2>3. QED
    BY <1>1, <2>1, <2>2 DEF Build, TypeOK, server
<1>2. ASSUME NEW g \in Goal, OtherDevice(g)
      PROVE  TypeOK'
  <2>1. faults' \in 0 .. MaxFaults
    BY <1>2, FaultsAssumption DEF OtherDevice, TypeOK
  <2>2. QED
    BY <1>2, <2>1, OtherDeviceTo DEF OtherDevice, TypeOK, device
<1>3. CASE LeavesGoal
  <2>1. faults' \in 0 .. MaxFaults
    BY <1>3, FaultsAssumption DEF LeavesGoal, TypeOK
  <2>2. QED
    BY <1>3, <2>1, LeavesGoalTo DEF LeavesGoal, TypeOK, server, device
<1>4. CASE UNCHANGED vars
  BY <1>4 DEF vars, server, device, history, TypeOK
<1>5. QED
  BY <1>1, <1>2, <1>3, <1>4, StudentType, ServerType, DeviceType DEF Next

-----------------------------------------------------------------------------
(* Lines: by what a step does to the calls.                                *)

LEMMA BeganLines ==
    ASSUME Lines, NEW s \in Slot, NEW op, NEW arg, NEW to, Began(s, op, arg, to),
           op \in Op \ {"idle", "chat"},
           op \in Mutating => arg \in Goal, op \in {"send", "like"} => arg \in Exchange
    PROVE  Lines'
BY LineAssumption DEF Lines, Began, Begun, OthersSame, Line

LEMMA EndedLines ==
    ASSUME Lines, NEW s \in Line, Ended(s)
    PROVE  Lines'
BY LineAssumption DEF Lines, Ended, Over, OthersSame, Line, Mutating

LEMMA AnsweredLines ==
    ASSUME Lines, NEW s \in Line, NEW ok, Answered(s, ok), call[s].op # "idle"
    PROVE  Lines'
<1>1. ASSUME NEW t \in Line
      PROVE  \/ Over(t)
             \/ /\ call'[t].op = call[t].op /\ call'[t].arg = call[t].arg /\ call'[t].heard = call[t].heard
                /\ call'[t].mounted = call[t].mounted
                /\ call'[t].stage = call[t].stage \/ (t = s /\ call'[t].stage = "served" /\ call[t].heard)
  <2>1. CASE t = s
    BY <2>1 DEF Answered, Replied
  <2>2. CASE t # s
    BY <2>2 DEF Answered, OthersKept, Kept
  <2>3. QED
    BY <2>1, <2>2
<1>2. QED
  BY <1>1, LineAssumption DEF Lines, Over, Line, Mutating

\* A provider is built again: the goals of a slot, or the chat of the page.
RebuildsGoals(s) == s \in Slot /\ Rebuilt(s, {"goals"}, "goals")
RebuildsChat == Rebuilt("page", {"send", "like"}, "chat")

LEMMA RebuiltLines ==
    ASSUME Lines, NEW s \in Line, RebuildsGoals(s) \/ (s = "page" /\ RebuildsChat)
    PROVE  Lines'
<1>1. ASSUME NEW t \in Line, t # s
      PROVE  /\ call'[t].op = call[t].op /\ call'[t].arg = call[t].arg /\ call'[t].heard = call[t].heard
             /\ call'[t].stage = call[t].stage
             /\ call[t].op \in {"chat", "launch"} => call'[t].mounted = call[t].mounted
  BY <1>1 DEF RebuildsGoals, RebuildsChat, Rebuilt, Kept
<1>2. CASE RebuildsGoals(s)
  <2>1. call'[s].op = "goals" /\ call'[s].stage = "sent" /\ s # "page"
    BY <1>2, LineAssumption DEF RebuildsGoals, Rebuilt, Begun
  <2>2. QED
    BY <1>1, <1>2, <2>1 DEF Lines, Line, Mutating
<1>3. CASE s = "page" /\ RebuildsChat
  <2>1. call'[s].op = "chat" /\ call'[s].stage = "sent" /\ call'[s].mounted
    BY <1>3 DEF RebuildsChat, Rebuilt, Begun
  <2>2. QED
    BY <1>1, <1>3, <2>1, LineAssumption DEF Lines, Line, Mutating
<1>4. QED
  BY <1>2, <1>3

\* Whose action was heard is a slot.
LEMMA ActionHeard ==
    ASSUME TypeOK, Lines, NEW s \in Line, HeardSetActive(s) \/ HeardDelete(s)
    PROVE  /\ s \in Slot /\ call[s].op \in Mutating /\ call[s].stage = "served" /\ call[s].heard
           /\ Ok(s) /\ call[s].mounted => RebuildsGoals(s)
           /\ ~(Ok(s) /\ call[s].mounted) => Ended(s)
<1>1. call[s].op \in Mutating /\ call[s].stage = "served"
  BY DEF HeardSetActive, HeardDelete, Hears, Mutating
<1>2. s \in Slot /\ call[s].heard
  BY <1>1 DEF Lines, Line, Mutating
<1>3. QED
  BY <1>1, <1>2, HeardActionTo DEF RebuildsGoals

\* What an action of the student does to the calls.
LEMMA StudentDoes ==
    ASSUME TypeOK, NEW s \in Slot, Student(s)
    PROVE  \/ RebuildsGoals(s)
           \/ Launch(s)
           \/ \E op \in {"setActive", "delete", "send", "like"}, arg \in Goal \cup Exchange, to \in BOOLEAN :
                 /\ Began(s, op, arg, to)
                 /\ op \in Mutating => arg \in Goal
                 /\ op \in {"send", "like"} => arg \in Exchange
<1>1. s \in Line
  BY DEF Line
<1>2. ASSUME NEW g \in Goal, SetActive(s, g)
      PROVE  Began(s, "setActive", g, FALSE)
  BY <1>1, <1>2, SetActiveTo
<1>3. ASSUME NEW g \in Goal, Delete(s, g)
      PROVE  \E to \in BOOLEAN : Began(s, "delete", g, to)
  BY <1>1, <1>3, DeleteTo
<1>4. ASSUME NEW e \in Exchange, Send(s, e)
      PROVE  Began(s, "send", e, FALSE)
  BY <1>1, <1>4, SendTo
<1>5. ASSUME NEW e \in Exchange, Like(s, e)
      PROVE  \E to \in BOOLEAN : Began(s, "like", e, to)
  BY <1>1, <1>5, LikeTo
<1>6. CASE ReloadGoals(s)
  BY <1>1, <1>6, ReloadGoalsTo DEF RebuildsGoals
<1>7. QED
  BY <1>2, <1>3, <1>4, <1>5, <1>6 DEF Student, Mutating

LEMMA StudentLines ==
    ASSUME TypeOK, Lines, NEW s \in Slot, Student(s)
    PROVE  Lines'
<1>1. s \in Line
  BY DEF Line
<1>2. CASE RebuildsGoals(s)
  BY <1>1, <1>2, RebuiltLines
<1>3. CASE Launch(s)
  <2>1. Begun(s, "launch", None, FALSE)
    BY <1>1, <1>3, LaunchTo
  <2>2. ASSUME NEW t \in Line, t # s
        PROVE  \/ Over(t)
               \/ Unheard(t) /\ call[t].stage # "served" /\ call[t].op # "chat"
    BY <1>1, <1>3, <2>2, LaunchTo
  <2>3. QED
    BY <1>1, <2>1, <2>2, LineAssumption DEF Lines, Begun, Over, Unheard, Line, Mutating
<1>4. ASSUME NEW op \in {"setActive", "delete", "send", "like"}, NEW arg \in Goal \cup Exchange,
             NEW to \in BOOLEAN, Began(s, op, arg, to),
             op \in Mutating => arg \in Goal, op \in {"send", "like"} => arg \in Exchange
      PROVE  Lines'
  BY <1>4, BeganLines DEF Op
<1>5. QED
  BY <1>2, <1>3, <1>4, StudentDoes

\* What the server does to the calls.
LEMMA ServerDoes ==
    ASSUME TypeOK, Lines, NEW s \in Line, Server(s)
    PROVE  /\ call[s].op # "idle"
           /\ \/ \E ok \in BOOLEAN : Answered(s, ok)
              \/ SendMessage(s) /\ current # None /\ Thinks(s)
              \/ NeverArrives(s) /\ Ended(s)
<1>1. CASE ListGoals(s)
  BY <1>1, ListGoalsTo DEF ListGoals, Arrived
<1>2. CASE SetActiveGoal(s)
  BY <1>2, SetActiveGoalTo DEF SetActiveGoal, Arrived
<1>3. CASE DeleteGoal(s)
  BY <1>3, DeleteGoalTo DEF DeleteGoal, Arrived
<1>4. CASE ListMessages(s)
  BY <1>4, ListMessagesTo DEF ListMessages, Arrived
<1>5. CASE LikeMessage(s)
  BY <1>5, LikeMessageTo DEF LikeMessage, Arrived
<1>6. CASE SendMessage(s)
  BY <1>6, SendMessageTo DEF SendMessage, Arrived
<1>7. CASE StoreReply(s)
  BY <1>7, StoreReplyTo DEF StoreReply, Lines
<1>8. CASE NeverArrives(s)
  BY <1>8, NeverArrivesTo DEF NeverArrives
<1>9. QED
  BY <1>1, <1>2, <1>3, <1>4, <1>5, <1>6, <1>7, <1>8 DEF Server

LEMMA ServerLines ==
    ASSUME TypeOK, Lines, NEW s \in Line, Server(s)
    PROVE  Lines'
<1>1. call[s].op # "idle"
  BY ServerDoes
<1>2. ASSUME NEW ok \in BOOLEAN, Answered(s, ok)
      PROVE  Lines'
  BY <1>1, <1>2, AnsweredLines
<1>3. CASE SendMessage(s) /\ Thinks(s)
  BY <1>3, LineAssumption DEF SendMessage, Arrived, Thinks, OthersSame, Lines, Line, Mutating
<1>4. CASE Ended(s)
  BY <1>4, EndedLines
<1>5. QED
  BY <1>2, <1>3, <1>4, ServerDoes

LEMMA DeviceLines ==
    ASSUME TypeOK, Lines, NEW s \in Line, Device(s)
    PROVE  Lines'
<1>1. CASE HeardSetActive(s) \/ HeardDelete(s)
  BY <1>1, ActionHeard, RebuiltLines, EndedLines
<1>2. CASE HeardGoals(s) \/ HeardLaunch(s) \/ HeardChat(s) \/ HeardSend(s) \/ HeardLike(s)
  BY <1>2, HeardTo, EndedLines
<1>3. CASE GivesUp(s)
  <2>1. CASE Ended(s)
    BY <2>1, EndedLines
  <2>2. CASE call[s].stage # "served" /\ Unheard(s) /\ OthersSame(s)
    BY <2>2, LineAssumption DEF Unheard, OthersSame, Lines, Line, Mutating
  <2>3. QED
    BY <1>3, <2>1, <2>2, GivesUpTo
<1>4. QED
  BY <1>1, <1>2, <1>3 DEF Device

LEMMA LinesStep == IInv /\ [Next]_vars => Lines'
<1> SUFFICES ASSUME TypeOK, Lines, [Next]_vars PROVE Lines'
  BY DEF IInv
<1>1. CASE Build
  BY <1>1, BuildTo, RebuiltLines DEF RebuildsChat, Line
<1>2. ASSUME NEW g \in Goal, OtherDevice(g)
      PROVE  Lines'
  <2>1. \A t \in Line : Kept(t) /\ call'[t].mounted = call[t].mounted
    BY <1>2, OtherDeviceTo
  <2>2. QED
    BY <2>1, LineAssumption DEF Kept, Lines, Line, Mutating
<1>3. CASE LeavesGoal
  <2>1. \A t \in Line : Kept(t) /\ (call[t].op \notin Mutating => call'[t].mounted = call[t].mounted)
    BY <1>3, LeavesGoalTo
  <2>2. QED
    BY <2>1, LineAssumption DEF Kept, Lines, Line, Mutating
<1>4. CASE UNCHANGED vars
  BY <1>4 DEF vars, Lines, Mutating
<1>5. QED
  BY <1>1, <1>2, <1>3, <1>4, StudentLines, ServerLines, DeviceLines DEF Next

-----------------------------------------------------------------------------
(* Alone.                                                                  *)

NoLaunch == \A t \in Line : call[t].op # "launch"

LEMMA StudentReady ==
    ASSUME Lines, NEW s \in Slot, Student(s)
    PROVE  call[s].op = "idle" /\ NoLaunch
<1>1. Ready(s)
  BY DEF Student, ReloadGoals, Launch, SetActive, Delete, Send, Like
<1>2. QED
  BY <1>1 DEF Ready, NoLaunch, Lines, Line

\* Once every call of the goals is unmounted, and none launches, the new one
\* is the only one.
LEMMA RebuildsGoalsAlone ==
    ASSUME NEW s \in Line, RebuildsGoals(s), \A t \in Line : t # s => call[t].op # "launch"
    PROVE  Alone'
<1>1. call'[s].op = "goals"
  BY DEF RebuildsGoals, Rebuilt, Begun
<1>2. ASSUME NEW t \in Line, t # s
      PROVE  /\ call'[t].op # "launch"
             /\ call'[t].op = "goals" => ~(call'[t].heard /\ call'[t].mounted)
  BY <1>2 DEF RebuildsGoals, Rebuilt, Kept
<1>3. QED
  BY <1>1, <1>2 DEF Alone, Listing

\* A step after which each call is over, or is waited for at most as before.
LEMMA NoneNewAlone ==
    ASSUME Alone,
           \A t \in Line : \/ Over(t)
                           \/ /\ call'[t].op = call[t].op
                              /\ call'[t].heard => call[t].heard
                              /\ call'[t].mounted => call[t].mounted
    PROVE  Alone'
BY DEF Alone, Listing, Over

LEMMA AnsweredNoneNew ==
    ASSUME NEW s \in Line, NEW ok, Answered(s, ok)
    PROVE  \A t \in Line : \/ Over(t)
                           \/ /\ call'[t].op = call[t].op
                              /\ call'[t].heard => call[t].heard
                              /\ call'[t].mounted => call[t].mounted
BY DEF Answered, Replied, OthersKept, Kept

LEMMA StudentAlone ==
    ASSUME TypeOK, Lines, Alone, NEW s \in Slot, Student(s)
    PROVE  Alone'
<1>1. s \in Line /\ call[s].op = "idle" /\ NoLaunch
  BY StudentReady DEF Line
<1>2. CASE RebuildsGoals(s)
  BY <1>1, <1>2, RebuildsGoalsAlone DEF NoLaunch
<1>3. CASE Launch(s)
  <2>1. call'[s].op = "launch"
    BY <1>1, <1>3, LaunchTo DEF Begun
  <2>2. ASSUME NEW t \in Line, t # s
        PROVE  Over(t) \/ (~call'[t].heard /\ call'[t].op # "launch")
    BY <1>1, <1>3, <2>2, LaunchTo DEF Unheard, NoLaunch
  <2>3. QED
    BY <2>1, <2>2 DEF Alone, Listing, Over
<1>4. ASSUME NEW op \in {"setActive", "delete", "send", "like"}, NEW arg \in Goal \cup Exchange,
             NEW to \in BOOLEAN, Began(s, op, arg, to)
      PROVE  Alone'
  <2>1. call'[s].op \notin {"goals", "launch"}
    BY <1>4 DEF Began, Begun
  <2>2. \A t \in Line : t # s => call'[t] = call[t]
    BY <1>4 DEF Began, OthersSame
  <2>3. \A t \in Line : call'[t].op # "launch"
    BY <1>1, <2>1, <2>2 DEF NoLaunch
  <2>4. QED
    BY <2>1, <2>2, <2>3 DEF Alone, Listing
<1>5. QED
  BY <1>2, <1>3, <1>4, StudentDoes

LEMMA AloneStep == IInv /\ [Next]_vars => Alone'
<1> SUFFICES ASSUME TypeOK, Lines, Alone, [Next]_vars PROVE Alone'
  BY DEF IInv
<1>1. CASE Build
  <2>1. \A t \in Line : call[t].op # "launch"
    BY <1>1 DEF Build, Under
  <2>2. RebuildsChat /\ "page" \in Line
    BY <1>1, BuildTo DEF RebuildsChat, Line
  <2>3. ASSUME NEW t \in Line
        PROVE  \/ call'[t].op = "chat"
               \/ /\ call'[t].op = call[t].op /\ call'[t].heard = call[t].heard
                  /\ call'[t].mounted => call[t].mounted
    <3>1. CASE t = "page"
      BY <2>2, <3>1 DEF RebuildsChat, Rebuilt, Begun
    <3>2. CASE t # "page"
      BY <2>2, <3>2 DEF RebuildsChat, Rebuilt, Kept, TypeOK, Call
    <3>3. QED
      BY <3>1, <3>2
  <2>4. QED
    BY <2>1, <2>3 DEF Alone, Listing
<1>2. ASSUME NEW s \in Line, Server(s)
      PROVE  Alone'
  <2>1. ASSUME NEW ok \in BOOLEAN, Answered(s, ok)
        PROVE  Alone'
    BY <2>1, AnsweredNoneNew, NoneNewAlone
  <2>2. CASE Thinks(s)
    BY <2>2, NoneNewAlone DEF Thinks, OthersSame
  <2>3. CASE Ended(s)
    BY <2>3, NoneNewAlone DEF Ended, OthersSame
  <2>4. QED
    BY <1>2, <2>1, <2>2, <2>3, ServerDoes
<1>3. ASSUME NEW s \in Line, Device(s)
      PROVE  Alone'
  <2>1. CASE Ended(s)
    BY <2>1, NoneNewAlone DEF Ended, OthersSame
  <2>2. CASE Unheard(s) /\ OthersSame(s)
    BY <2>2, NoneNewAlone DEF Unheard, OthersSame
  <2>3. CASE HeardSetActive(s) \/ HeardDelete(s)
    <3>1. call[s].op \in Mutating /\ call[s].heard /\ (RebuildsGoals(s) \/ Ended(s))
      BY <2>3, ActionHeard
    <3>2. \A t \in Line : t # s => call[t].op # "launch"
      BY <3>1 DEF Alone, Mutating
    <3>3. QED
      BY <2>1, <3>1, <3>2, RebuildsGoalsAlone
  <2>4. QED
    BY <1>3, <2>1, <2>2, <2>3, HeardTo, GivesUpTo DEF Device
<1>4. ASSUME NEW g \in Goal, OtherDevice(g)
      PROVE  Alone'
  BY <1>4, OtherDeviceTo, NoneNewAlone DEF Kept
<1>5. CASE LeavesGoal
  BY <1>5, LeavesGoalTo, NoneNewAlone DEF Kept
<1>6. CASE UNCHANGED vars
  BY <1>6 DEF vars, Alone, Listing
<1>7. QED
  BY <1>1, <1>2, <1>3, <1>4, <1>5, <1>6, StudentAlone DEF Next

-----------------------------------------------------------------------------
(* Say and Agree.                                                          *)

\* What a call says after a step, it said before, of the same goal or late.
SaysSo(t) ==
    call'[t].op \in {"goals", "launch"} /\ call'[t].stage = "served" =>
        /\ call[t].op = call'[t].op /\ call[t].stage = "served" /\ call'[t].answer = call[t].answer
        /\ call'[t].mounted => call[t].mounted
        /\ Told(t) /\ (call[t].late \/ current' # current) => call'[t].late

LEMMA SayKept ==
    ASSUME Say, live' \subseteq live, \A t \in Line : SaysSo(t)
    PROVE  Say'
<1>1. ASSUME NEW t \in Line, Told(t)', ~call'[t].late
      PROVE  call'[t].answer.active = current'
  BY <1>1 DEF Say, SaysSo, Told
<1>2. ASSUME NEW t \in Line, call'[t].op = "launch", call'[t].stage = "served", ~call'[t].answer.ok
      PROVE  live' = {}
  BY <1>2 DEF Say, SaysSo
<1>3. QED
  BY <1>1, <1>2 DEF Say

LEMMA SameSays ==
    ASSUME NEW t \in Line, call'[t] = call[t], current' = current
    PROVE  SaysSo(t)
BY DEF SaysSo, Told

LEMMA StudentKeeps ==
    ASSUME NEW s \in Slot, Student(s)
    PROVE  /\ live' = live /\ current' = current /\ kept' = kept /\ liked' = liked /\ active' = active
           /\ behind => behind'
<1>1. live' = live /\ current' = current /\ kept' = kept /\ liked' = liked /\ active' = active
  BY DEF Student, ReloadGoals, Launch, SetActive, Delete, Send, Like, server, device
<1>2. ASSUME behind
      PROVE  behind'
  BY <1>2, Zenon DEF Student, ReloadGoals, Launch, SetActive, Delete, Send, Like
<1>3. QED
  BY <1>1, <1>2

LEMMA SayStep == IInv /\ [Next]_vars => Say'
<1> SUFFICES ASSUME TypeOK, Lines, Say, [Next]_vars PROVE Say'
  BY DEF IInv
<1>1. CASE Build
  <2>1. RebuildsChat /\ "page" \in Line /\ live' = live /\ current' = current
    BY <1>1, BuildTo DEF RebuildsChat, Line, Build, server
  <2>2. ASSUME NEW t \in Line
        PROVE  SaysSo(t)
    BY <2>1 DEF RebuildsChat, Rebuilt, Begun, Kept, SaysSo, Told, TypeOK, Call
  <2>3. QED
    BY <2>1, <2>2, SayKept
<1>2. ASSUME NEW s \in Slot, Student(s)
      PROVE  Say'
  <2>1. s \in Line /\ live' = live /\ current' = current
    BY <1>2, StudentKeeps DEF Line
  <2>2. CASE RebuildsGoals(s)
    <3>1. ASSUME NEW t \in Line
          PROVE  SaysSo(t)
      BY <2>1, <2>2 DEF RebuildsGoals, Rebuilt, Begun, Kept, SaysSo, Told, TypeOK, Call
    <3>2. QED
      BY <2>1, <3>1, SayKept
  <2>3. CASE Launch(s)
    <3>1. ASSUME NEW t \in Line
          PROVE  SaysSo(t)
      BY <2>1, <2>3, LaunchTo DEF Begun, Over, Unheard, SaysSo
    <3>2. QED
      BY <2>1, <3>1, SayKept
  <2>4. ASSUME NEW op \in {"setActive", "delete", "send", "like"}, NEW arg \in Goal \cup Exchange,
               NEW to \in BOOLEAN, Began(s, op, arg, to)
        PROVE  Say'
    <3>1. ASSUME NEW t \in Line
          PROVE  SaysSo(t)
      BY <2>1, <2>4, SameSays DEF Began, Begun, OthersSame, SaysSo
    <3>2. QED
      BY <2>1, <3>1, SayKept
  <2>5. QED
    BY <1>2, <2>2, <2>3, <2>4, StudentDoes
<1>3. ASSUME NEW s \in Line, Server(s)
      PROVE  Say'
  <2>1. live' \subseteq live
    BY <1>3 DEF Server, ListGoals, SetActiveGoal, DeleteGoal, ListMessages, LikeMessage, SendMessage, StoreReply,
                NeverArrives, server
  <2>2. CASE ListGoals(s)
    <3>1. /\ Answered(s, live # {}) /\ live' = live /\ current' = current
          /\ call[s].heard => call'[s].answer.active = current
      BY <2>2, ListGoalsTo DEF ListGoals, server
    <3>2. ASSUME NEW t \in Line, t # s
          PROVE  SaysSo(t)
      BY <3>1, <3>2 DEF Answered, OthersKept, Kept, SaysSo, Told, TypeOK, Call
    <3>3. CASE call[s].heard
      <4>1. call'[s].answer.active = current /\ (call'[s].answer.ok <=> live # {})
        BY <3>1, <3>3 DEF Answered, Replied
      <4>2. ASSUME NEW t \in Line, Told(t)', ~call'[t].late
            PROVE  call'[t].answer.active = current'
        BY <3>1, <3>2, <4>1, <4>2 DEF Say, SaysSo, Told
      <4>3. ASSUME NEW t \in Line, call'[t].op = "launch", call'[t].stage = "served", ~call'[t].answer.ok
            PROVE  live' = {}
        BY <3>1, <3>2, <4>1, <4>3 DEF Say, SaysSo
      <4>4. QED
        BY <4>2, <4>3 DEF Say
    <3>4. CASE ~call[s].heard
      <4>1. SaysSo(s)
        BY <3>1, <3>4 DEF Answered, Over, SaysSo
      <4>2. QED
        BY <2>1, <3>2, <4>1, SayKept
    <3>5. QED
      BY <3>3, <3>4
  <2>3. ASSUME NEW ok \in BOOLEAN, Answered(s, ok), call[s].op \notin {"goals", "launch"}
        PROVE  Say'
    <3>1. ASSUME NEW t \in Line
          PROVE  SaysSo(t)
      BY <2>3 DEF Answered, OthersKept, Over, Replied, Kept, SaysSo, Told, TypeOK, Call
    <3>2. QED
      BY <2>1, <3>1, SayKept
  <2>4. CASE SendMessage(s) /\ Thinks(s)
    <3>1. current' = current /\ call[s].op = "send"
      BY <2>4 DEF SendMessage, Arrived, server
    <3>2. ASSUME NEW t \in Line
          PROVE  SaysSo(t)
      BY <2>4, <3>1, SameSays DEF Thinks, OthersSame, SaysSo
    <3>3. QED
      BY <2>1, <3>2, SayKept
  <2>5. CASE NeverArrives(s) /\ Ended(s)
    <3>1. current' = current
      BY <2>5 DEF NeverArrives, server
    <3>2. ASSUME NEW t \in Line
          PROVE  SaysSo(t)
      BY <2>5, <3>1, SameSays DEF Ended, Over, OthersSame, SaysSo
    <3>3. QED
      BY <2>1, <3>2, SayKept
  <2>6. call[s].op \in {"goals", "launch"} => ListGoals(s) \/ NeverArrives(s)
    BY <1>3 DEF Server, SetActiveGoal, DeleteGoal, ListMessages, LikeMessage, SendMessage, StoreReply, Arrived, Lines
  <2>7. QED
    BY <1>3, <2>2, <2>3, <2>4, <2>5, <2>6, ServerDoes, NeverArrivesTo
<1>4. ASSUME NEW s \in Line, Device(s)
      PROVE  Say'
  <2>1. live' = live /\ current' = current
    BY <1>4 DEF Device, HeardSetActive, HeardDelete, HeardGoals, HeardLaunch, HeardChat, HeardSend, HeardLike,
                GivesUp, server
  <2>2. CASE Ended(s)
    <3>1. ASSUME NEW t \in Line
          PROVE  SaysSo(t)
      BY <2>1, <2>2, SameSays DEF Ended, Over, OthersSame, SaysSo
    <3>2. QED
      BY <2>1, <3>1, SayKept
  <2>3. CASE RebuildsGoals(s)
    <3>1. ASSUME NEW t \in Line
          PROVE  SaysSo(t)
      BY <2>1, <2>3 DEF RebuildsGoals, Rebuilt, Begun, Kept, SaysSo, Told, TypeOK, Call
    <3>2. QED
      BY <2>1, <3>1, SayKept
  <2>4. CASE call[s].stage # "served" /\ Unheard(s) /\ OthersSame(s)
    <3>1. ASSUME NEW t \in Line
          PROVE  SaysSo(t)
      BY <2>1, <2>4, SameSays DEF Unheard, OthersSame, SaysSo
    <3>2. QED
      BY <2>1, <3>1, SayKept
  <2>5. QED
    BY <1>4, <2>2, <2>3, <2>4, ActionHeard, HeardTo, GivesUpTo DEF Device
<1>5. ASSUME NEW g \in Goal, OtherDevice(g)
      PROVE  Say'
  <2>1. live' = live
    BY <1>5 DEF OtherDevice
  <2>2. ASSUME NEW t \in Line
        PROVE  SaysSo(t)
    BY <1>5, OtherDeviceTo DEF Kept, SaysSo
  <2>3. QED
    BY <2>1, <2>2, SayKept
<1>6. CASE LeavesGoal
  <2>1. live' = live /\ current' = current
    BY <1>6 DEF LeavesGoal, server
  <2>2. ASSUME NEW t \in Line
        PROVE  SaysSo(t)
    BY <1>6, <2>1, LeavesGoalTo DEF Kept, SaysSo, Told
  <2>3. QED
    BY <2>1, <2>2, SayKept
<1>7. CASE UNCHANGED vars
  BY <1>7, SameSays, SayKept DEF vars, server
<1>8. QED
  BY <1>1, <1>2, <1>3, <1>4, <1>5, <1>6, <1>7 DEF Next

\* A call after a step that changes neither side's word.
StillSo(t) ==
    /\ call'[t].op \in Mutating =>
          /\ call'[t].op = call[t].op /\ call'[t].arg = call[t].arg /\ call'[t].to = call[t].to
          /\ call[t].heard => call'[t].heard
          /\ call'[t].stage = "sent" => call[t].stage = "sent"
    /\ Changed(t)' <=> Changed(t)
    /\ Told(t)' => call'[t].answer.active = current \/ (Told(t) /\ call'[t].answer = call[t].answer)

\* A call that is still waited for on its screen, where the goals are not
\* asked for anew.
SoLeft(t) ==
    /\ call'[t].op \in Mutating => call'[t].mounted = call[t].mounted
    /\ Listing(t)' => Listing(t)

\* An action whose screen was left, with a list waited for.
Crossed(t, s) == call[t].op \in Mutating /\ ~call[t].mounted /\ Listing(s)

LEMMA LeadsOn ==
    ASSUME NEW t \in Line, call[t].arg \in Goal, Leads(t, active)
    PROVE  Leads(t, current)
BY FirstAssumption DEF Leads

LEMMA AgreeKept ==
    ASSUME Lines, Agree, behind => behind', active' = active, current' = current, \A t \in Line : StillSo(t),
           ~behind' => \A t, s \in Line : ~Crossed(t, s)'
    PROVE  Agree'
<1> SUFFICES ASSUME ~behind, ~behind'
             PROVE  /\ \A t \in Line : call'[t].op \in Mutating => Acted(t)'
                    /\ (\A t \in Line : ~Changed(t)') => Even'
  BY DEF Agree
<1>1. (\A t \in Line : ~Changed(t)) => Even
  BY DEF Agree
<1>2. ASSUME NEW t \in Line, call'[t].op \in Mutating
      PROVE  Acted(t)'
  <2>1. /\ call[t].op \in Mutating /\ call'[t].op = call[t].op /\ call'[t].arg = call[t].arg /\ call'[t].to = call[t].to
        /\ Acted(t)
    BY <1>2 DEF StillSo, Agree
  <2>2. Sole(t)'
    <3>1. call'[t].heard
      BY <1>2, <2>1 DEF StillSo, Acted, Sole
    <3>2. ASSUME NEW s \in Line, call'[s].op \in Mutating
          PROVE  s = t
      BY <2>1, <3>2 DEF StillSo, Acted, Sole
    <3>3. call'[t].mounted \/ \A s \in Line : ~Listing(s)'
      BY <1>2 DEF Crossed
    <3>4. QED
      BY <3>1, <3>2, <3>3 DEF Sole
  <2>3. ASSUME Changed(t)'
        PROVE  Leading(t)'
    <3>1. Leading(t) /\ call[t].arg \in Goal
      BY <2>1, <2>3 DEF StillSo, Acted, Lines
    <3>2. ASSUME NEW s \in Line, Told(s)'
          PROVE  Leads(t, call'[s].answer.active)
      BY <3>1, <3>2, LeadsOn DEF StillSo, Leading
    <3>3. QED
      BY <2>1, <3>1, <3>2 DEF Leading, Leads
  <2>4. call'[t].op = "delete" /\ call'[t].to /\ call'[t].stage = "sent" => active' = call'[t].arg
    BY <1>2, <2>1 DEF StillSo, Acted
  <2>5. QED
    BY <2>2, <2>3, <2>4 DEF Acted
<1>3. ASSUME \A t \in Line : ~Changed(t)'
      PROVE  Even'
  <2>1. Even
    BY <1>1, <1>3 DEF StillSo
  <2>2. QED
    BY <2>1 DEF Even, StillSo
<1>4. QED
  BY <1>2, <1>3

\* ... and asks for nothing anew.
LEMMA AgreeLeft ==
    ASSUME Lines, Agree, behind => behind', active' = active, current' = current,
           \A t \in Line : StillSo(t) /\ SoLeft(t)
    PROVE  Agree'
<1>1. ASSUME ~behind', NEW t \in Line, NEW s \in Line, Crossed(t, s)'
      PROVE  FALSE
  <2>1. call[t].op \in Mutating /\ ~call[t].mounted /\ Listing(s)
    BY <1>1 DEF Crossed, StillSo, SoLeft
  <2>2. Sole(t)
    BY <1>1, <2>1 DEF Agree, Acted
  <2>3. QED
    BY <2>1, <2>2 DEF Sole
<1>2. QED
  BY <1>1, AgreeKept

LEMMA SameSo ==
    ASSUME NEW t \in Line, call'[t] = call[t]
    PROVE  StillSo(t) /\ SoLeft(t)
BY DEF StillSo, SoLeft, Changed, Listing, Told

\* A step that ends a call which was not a change.
LEMMA EndedAgree ==
    ASSUME Lines, Agree, NEW s \in Line, Ended(s), behind => behind', active' = active, current' = current, ~Changed(s)
    PROVE  Agree'
<1>1. ASSUME NEW t \in Line
      PROVE  StillSo(t) /\ SoLeft(t)
  BY SameSo DEF Ended, Over, OthersSame, StillSo, SoLeft, Told, Changed, Listing, Mutating
<1>2. QED
  BY <1>1, AgreeLeft

\* Without an action under way the device agrees.
LEMMA IdleAgree ==
    ASSUME \A t \in Line : call'[t].op \notin Mutating, ~behind' => Even'
    PROVE  Agree'
BY DEF Agree

\* Who is not busy, and left no action behind, has none under way.
LEMMA NoneActs ==
    ASSUME Agree, ~behind, ~Busy, ~Abandoned
    PROVE  (\A t \in Line : call[t].op \notin Mutating) /\ Even
<1>1. \A t \in Line : call[t].op \notin Mutating
  BY DEF Agree, Acted, Sole, Busy, Abandoned
<1>2. QED
  BY <1>1 DEF Agree, Changed

\* An action begins.
LEMMA BegunAgree ==
    ASSUME Lines, NEW s \in Line, NEW op \in Mutating, NEW arg \in Goal, NEW to \in BOOLEAN,
           Began(s, op, arg, to), Even, \A t \in Line : call[t].op \notin Mutating,
           active' = active, current' = current, op = "delete" /\ to => active = arg
    PROVE  Agree'
<1>1. /\ call'[s].op = op /\ call'[s].arg = arg /\ call'[s].to = to
      /\ call'[s].stage = "sent" /\ call'[s].heard /\ call'[s].mounted
  BY DEF Began, Begun
<1>2. \A t \in Line : t # s => call'[t] = call[t]
  BY DEF Began, OthersSame
<1>3. Sole(s)'
  BY <1>1, <1>2 DEF Sole
<1>4. Acted(s)'
  BY <1>1, <1>3 DEF Acted, Changed
<1>5. \A t \in Line : Told(t)' => call'[t].answer.active = current
  BY <1>1, <1>2 DEF Even, Told
<1>6. QED
  BY <1>1, <1>2, <1>4, <1>5 DEF Agree, Even

LEMMA StudentAgree ==
    ASSUME TypeOK, Lines, Agree, NEW s \in Slot, Student(s)
    PROVE  Agree'
<1>1. s \in Line /\ call[s].op = "idle" /\ active' = active /\ current' = current /\ (behind => behind')
  BY StudentReady, StudentKeeps DEF Line
<1>2. CASE ReloadGoals(s)
  <2>1. RebuildsGoals(s) /\ (~behind' => ~Abandoned)
    BY <1>1, <1>2, ReloadGoalsTo DEF ReloadGoals, RebuildsGoals
  <2>2. StillSo(s) /\ call'[s].op \notin Mutating
    BY <1>1, <2>1 DEF RebuildsGoals, Rebuilt, Begun, StillSo, Told, Changed, Mutating
  <2>3. ASSUME NEW t \in Line, t # s
        PROVE  StillSo(t) /\ (call'[t].op \in Mutating => call[t].op \in Mutating /\ call'[t].mounted = call[t].mounted)
    BY <2>1, <2>3 DEF RebuildsGoals, Rebuilt, Kept, StillSo, Told, Changed, Mutating, TypeOK, Call
  <2>4. ASSUME ~behind', NEW t \in Line, NEW r \in Line, Crossed(t, r)'
        PROVE  FALSE
    <3>1. call[t].op \in Mutating /\ ~call[t].mounted
      BY <2>2, <2>3, <2>4 DEF Crossed
    <3>2. call[t].heard
      BY <1>1, <2>4, <3>1 DEF Agree, Acted, Sole
    <3>3. QED
      BY <2>1, <2>4, <3>1, <3>2 DEF Abandoned
  <2>5. QED
    BY <1>1, <2>2, <2>3, <2>4, AgreeKept
<1>3. CASE Launch(s)
  <2>1. ~Told(s)' /\ call'[s].op \notin Mutating
    BY <1>1, <1>3, LaunchTo DEF Begun, Told, Mutating
  <2>2. ASSUME NEW t \in Line, t # s
        PROVE  ~Told(t)'
    BY <1>1, <1>3, <2>2, LaunchTo DEF Over, Unheard, Told
  <2>3. CASE behind'
    BY <2>3 DEF Agree
  <2>4. CASE ~behind'
    <3>1. ~behind /\ \A t \in Line : call[t].op \notin Mutating
      BY <1>3, <2>4 DEF Launch
    <3>2. ASSUME NEW t \in Line, t # s
          PROVE  call'[t].op \notin Mutating
      BY <1>1, <1>3, <3>1, <3>2, LaunchTo DEF Over, Unheard, Mutating
    <3>3. active = current
      BY <3>1 DEF Agree, Even, Changed
    <3>4. Even'
      BY <1>1, <2>1, <2>2, <3>3 DEF Even
    <3>5. QED
      BY <2>1, <3>2, <3>4, IdleAgree
  <2>5. QED
    BY <2>3, <2>4
<1>4. ASSUME NEW g \in Goal, SetActive(s, g) \/ Delete(s, g)
      PROVE  Agree'
  <2>1. CASE behind'
    BY <2>1 DEF Agree
  <2>2. CASE ~behind'
    <3>1. ~behind /\ ~Busy /\ ~Abandoned /\ (Delete(s, g) /\ listed = g => active = g)
      BY <1>4, <2>2 DEF SetActive, Delete
    <3>2. (\A t \in Line : call[t].op \notin Mutating) /\ Even
      BY <3>1, NoneActs
    <3>3. CASE SetActive(s, g)
      BY <1>1, <3>2, <3>3, SetActiveTo, BegunAgree DEF Mutating
    <3>4. CASE Delete(s, g)
      <4>1. PICK to \in BOOLEAN : to <=> listed = g
        OBVIOUS
      <4>2. Began(s, "delete", g, to) /\ (to => active = g)
        BY <1>1, <3>1, <3>4, <4>1, DeleteTo
      <4>3. QED
        BY <1>1, <3>2, <4>2, BegunAgree DEF Mutating
    <3>5. QED
      BY <1>4, <3>3, <3>4
  <2>3. QED
    BY <2>1, <2>2
<1>5. ASSUME NEW e \in Exchange, Send(s, e) \/ Like(s, e)
      PROVE  Agree'
  <2>1. PICK op \in {"send", "like"}, to \in BOOLEAN : Began(s, op, e, to)
    BY <1>1, <1>5, SendTo, LikeTo
  <2>2. StillSo(s) /\ SoLeft(s)
    BY <1>1, <2>1 DEF Began, Begun, StillSo, SoLeft, Listing, Told, Changed, Mutating
  <2>3. ASSUME NEW t \in Line, t # s
        PROVE  StillSo(t) /\ SoLeft(t)
    BY <2>1, <2>3, SameSo DEF Began, OthersSame
  <2>4. QED
    BY <1>1, <2>2, <2>3, AgreeLeft
<1>6. QED
  BY <1>2, <1>3, <1>4, <1>5 DEF Student

\* A handler that leaves the active goal alone, and says of it what it is.
LEMMA AnsweredAgree ==
    ASSUME TypeOK, Lines, Agree, NEW s \in Line, NEW ok \in BOOLEAN, Answered(s, ok), call[s].stage # "served",
           call[s].op \in Mutating => ~ok,
           call[s].op \in {"goals", "launch"} /\ call[s].heard => call'[s].answer.active = current,
           behind' = behind, active' = active, current' = current
    PROVE  Agree'
<1>1. StillSo(s) /\ SoLeft(s)
  <2>1. CASE call[s].heard
    BY <2>1 DEF Answered, Replied, StillSo, SoLeft, Listing, Told, Changed, Mutating
  <2>2. CASE ~call[s].heard
    BY <2>2 DEF Answered, Over, StillSo, SoLeft, Listing, Told, Changed, Mutating
  <2>3. QED
    BY <2>1, <2>2
<1>2. ASSUME NEW t \in Line, t # s
      PROVE  StillSo(t) /\ SoLeft(t)
  BY <1>2 DEF Answered, OthersKept, Kept, StillSo, SoLeft, Listing, Told, Changed
<1>3. QED
  BY <1>1, <1>2, AgreeLeft

\* A handler that changed the active goal, as Leading says.
LEMMA ChangedAgree ==
    ASSUME TypeOK, Lines, Agree, NEW s \in Line, Answered(s, TRUE), call[s].op \in Mutating, call[s].stage = "sent",
           behind' = behind, active' = active,
           Even =>
             current' = IF call[s].op = "setActive" THEN call[s].arg ELSE IF current = call[s].arg THEN None ELSE current
    PROVE  Agree'
<1> SUFFICES ASSUME ~behind
             PROVE  Agree'
  BY DEF Agree
<1>1. Acted(s)
  BY DEF Agree
<1>2. call[s].heard /\ (\A t \in Line : call[t].op \in Mutating => t = s)
  BY <1>1 DEF Acted, Sole
<1>3. Even
  BY <1>2 DEF Agree, Changed
<1>4. /\ call'[s].op = call[s].op /\ call'[s].arg = call[s].arg /\ call'[s].to = call[s].to
      /\ call'[s].stage = "served" /\ call'[s].heard /\ call'[s].mounted = call[s].mounted /\ call'[s].answer.ok
  BY <1>2 DEF Answered, Replied
<1>5. ASSUME NEW t \in Line, t # s
      PROVE  /\ call'[t].op = call[t].op /\ call'[t].stage = call[t].stage /\ call'[t].heard = call[t].heard
             /\ call'[t].mounted = call[t].mounted /\ call'[t].answer = call[t].answer
  BY <1>5 DEF Answered, OthersKept, Kept
<1>6. Sole(s)'
  <2>1. ASSUME NEW t \in Line, Listing(t)'
        PROVE  Listing(t)
    <3>1. CASE t = s
      BY <1>2, <1>4, <2>1, <3>1 DEF Listing
    <3>2. CASE t # s
      BY <1>5, <2>1, <3>2 DEF Listing
    <3>3. QED
      BY <3>1, <3>2
  <2>2. \A t \in Line : call'[t].op \in Mutating => t = s
    BY <1>2, <1>5
  <2>3. QED
    BY <1>1, <1>4, <2>1, <2>2 DEF Acted, Sole
<1>7. \A t \in Line : Told(t)' => call'[t].answer.active = current
  BY <1>3, <1>4, <1>5 DEF Even, Told, Mutating
<1>8. Leading(s)'
  <2>1. current' = IF call'[s].op = "setActive" THEN call'[s].arg ELSE IF current = call'[s].arg THEN None ELSE current
    BY <1>3, <1>4
  <2>2. active' = current
    BY <1>3 DEF Even
  <2>3. call'[s].op = "delete" /\ call'[s].to => current' = None
    BY <1>1, <1>4, <2>1, <2>2 DEF Acted
  <2>4. QED
    BY <1>7, <2>1, <2>2, <2>3 DEF Leading, Leads
<1>9. Acted(s)' /\ Changed(s)'
  BY <1>4, <1>6, <1>8 DEF Acted, Changed
<1>10. QED
  BY <1>2, <1>5, <1>9 DEF Agree

LEMMA ServerAgree ==
    ASSUME TypeOK, Lines, Agree, NEW s \in Line, Server(s)
    PROVE  Agree'
<1>1. behind' = behind /\ active' = active
  BY DEF Server, ListGoals, SetActiveGoal, DeleteGoal, ListMessages, LikeMessage, SendMessage, StoreReply,
         NeverArrives, server, device, history
<1>2. CASE ListGoals(s)
  <2>1. /\ Answered(s, live # {}) /\ current' = current /\ call[s].op \in {"goals", "launch"}
        /\ call[s].stage = "sent"
        /\ call[s].heard => call'[s].answer.active = current
    BY <1>2, ListGoalsTo DEF ListGoals, Arrived, server
  <2>2. PICK ok \in BOOLEAN : ok <=> live # {}
    OBVIOUS
  <2>3. Answered(s, ok)
    BY <2>1, <2>2
  <2>4. QED
    BY <1>1, <2>1, <2>3, AnsweredAgree DEF Mutating
<1>3. CASE SetActiveGoal(s)
  <2>1. PICK ok \in BOOLEAN : (ok <=> call[s].arg \in live) /\ Answered(s, ok)
    BY <1>3, SetActiveGoalTo
  <2>2. /\ call[s].op = "setActive" /\ call[s].stage = "sent"
        /\ current' = IF ok THEN call[s].arg ELSE current
    BY <1>3, <2>1 DEF SetActiveGoal, Arrived, Owned
  <2>3. CASE ok
    BY <1>1, <2>1, <2>2, <2>3, ChangedAgree DEF Mutating
  <2>4. CASE ~ok
    BY <1>1, <2>1, <2>2, <2>4, AnsweredAgree DEF Mutating
  <2>5. QED
    BY <2>3, <2>4
<1>4. CASE DeleteGoal(s)
  <2>1. PICK ok \in BOOLEAN : (ok <=> call[s].arg \in live) /\ Answered(s, ok)
    BY <1>4, DeleteGoalTo
  <2>2. /\ call[s].op = "delete" /\ call[s].stage = "sent"
        /\ ok => current' = IF current = call[s].arg THEN None ELSE current
        /\ ~ok => current' = current
    BY <1>4, <2>1 DEF DeleteGoal, Arrived, Owned, server
  <2>3. CASE ok
    BY <1>1, <2>1, <2>2, <2>3, ChangedAgree DEF Mutating
  <2>4. CASE ~ok
    BY <1>1, <2>1, <2>2, <2>4, AnsweredAgree DEF Mutating
  <2>5. QED
    BY <2>3, <2>4
<1>5. CASE ListMessages(s) \/ LikeMessage(s) \/ SendMessage(s) \/ StoreReply(s) \/ NeverArrives(s)
  <2>1. current' = current
    BY <1>5 DEF ListMessages, LikeMessage, SendMessage, StoreReply, NeverArrives, server
  <2>2. CASE NeverArrives(s)
    <3>1. Ended(s) /\ ~Changed(s)
      BY <2>2, NeverArrivesTo DEF NeverArrives, Changed
    <3>2. QED
      BY <1>1, <2>1, <3>1, EndedAgree
  <2>3. CASE ~NeverArrives(s)
    <3>1. call[s].op \notin {"goals", "launch"} \cup Mutating /\ call[s].stage # "served"
      BY <1>5, <2>3 DEF ListMessages, LikeMessage, SendMessage, StoreReply, Arrived, Lines, Mutating
    <3>2. CASE Thinks(s)
      <4>1. StillSo(s) /\ SoLeft(s)
        BY <3>1, <3>2 DEF Thinks, StillSo, SoLeft, Listing, Told, Changed
      <4>2. ASSUME NEW t \in Line, t # s
            PROVE  StillSo(t) /\ SoLeft(t)
        BY <3>2, <4>2, SameSo DEF Thinks, OthersSame
      <4>3. QED
        BY <1>1, <2>1, <4>1, <4>2, AgreeLeft
    <3>3. ASSUME NEW ok \in BOOLEAN, Answered(s, ok)
          PROVE  Agree'
      BY <1>1, <2>1, <3>1, <3>3, AnsweredAgree
    <3>4. QED
      BY <2>3, <3>2, <3>3, ServerDoes
  <2>4. QED
    BY <2>2, <2>3
<1>6. QED
  BY <1>2, <1>3, <1>4, <1>5 DEF Server

\* The action's change is heard: the device agrees, and no earlier answer on
\* the goals is taken.
LEMMA HeardAgree ==
    ASSUME TypeOK, Lines, Alone, Agree, NEW s \in Line, HeardSetActive(s) \/ HeardDelete(s), Ok(s), current' = current
    PROVE  Agree'
<1>1. /\ s \in Slot /\ call[s].op \in Mutating /\ call[s].stage = "served" /\ call[s].heard /\ Changed(s)
      /\ call[s].mounted => RebuildsGoals(s)
      /\ ~call[s].mounted => Ended(s)
      /\ behind' = behind
      /\ active' = IF call[s].op = "setActive" \/ ~(call[s].to \/ active = call[s].arg)
                   THEN IF call[s].op = "setActive" THEN call[s].arg ELSE active
                   ELSE None
  BY ActionHeard DEF Changed, Ok, HeardSetActive, HeardDelete, Hears, Set, Keeps, history
<1> SUFFICES ASSUME ~behind
             PROVE  Agree'
  BY <1>1 DEF Agree
<1>2. Sole(s) /\ Leading(s)
  BY <1>1 DEF Agree, Acted
<1>3. active' = current
  BY <1>1, <1>2 DEF Leading, Leads, Mutating
<1>4. call'[s].op \notin Mutating /\ ~Told(s)'
  BY <1>1 DEF RebuildsGoals, Rebuilt, Begun, Ended, Over, Told, Mutating
<1>5. ASSUME NEW t \in Line, t # s
      PROVE  call'[t].op \notin Mutating /\ ~Told(t)'
  <2>1. call[t].op \notin {"launch"} \cup Mutating
    BY <1>1, <1>2, <1>5 DEF Alone, Sole, Mutating
  <2>2. CASE call[s].mounted
    <3>1. Kept(t) /\ (call[t].op = "goals" /\ call[t].heard => ~call'[t].mounted)
      BY <1>1, <1>5, <2>2 DEF RebuildsGoals, Rebuilt
    <3>2. QED
      BY <2>1, <3>1 DEF Kept, Told, Lines
  <2>3. CASE ~call[s].mounted
    <3>1. call'[t] = call[t] /\ ~Listing(t)
      BY <1>1, <1>2, <1>5, <2>3 DEF Ended, OthersSame, Sole
    <3>2. QED
      BY <2>1, <3>1 DEF Told, Listing, Lines
  <2>4. QED
    BY <2>2, <2>3
<1>6. Even'
  BY <1>3, <1>4, <1>5 DEF Even
<1>7. QED
  BY <1>4, <1>5, <1>6, IdleAgree

\* An answer on the goals is taken.
LEMMA CatchesUpAgree ==
    ASSUME TypeOK, Lines, Alone, Say, Agree, NEW s \in Line, Ended(s), CatchesUp(s),
           call[s].op \in {"goals", "launch"}, call[s].stage = "served", call[s].mounted, current' = current
    PROVE  Agree'
<1>1. active' = call[s].answer.active /\ behind' = (behind /\ ~Fresh(s))
  BY DEF CatchesUp, Set
<1>2. Told(s) /\ Listing(s) /\ ~Changed(s)
  BY DEF Told, Listing, Lines, Changed, Mutating
<1>3. call'[s].op = "idle" /\ \A t \in Line : t # s => call'[t] = call[t]
  BY DEF Ended, Over, OthersSame
<1>4. ASSUME NEW t \in Line
      PROVE  ~Told(t)' /\ ~Listing(t)'
  <2>1. CASE t = s
    BY <1>3, <2>1 DEF Told, Listing
  <2>2. CASE t # s
    <3>1. ~Listing(t)
      BY <1>2, <2>2 DEF Alone
    <3>2. QED
      BY <1>3, <2>2, <3>1 DEF Told, Listing, Lines
  <2>3. QED
    BY <2>1, <2>2
<1>5. CASE behind'
  BY <1>5 DEF Agree
<1>6. CASE behind /\ Fresh(s)
  <2>1. \A t \in Line : call'[t].op \notin Mutating
    BY <1>3, <1>6 DEF Fresh, Mutating
  <2>2. active' = current
    BY <1>1, <1>2, <1>6 DEF Fresh, Say
  <2>3. QED
    BY <1>4, <2>1, <2>2, IdleAgree DEF Even
<1>7. CASE ~behind
  <2>1. ASSUME NEW t \in Line, call'[t].op \in Mutating
        PROVE  Acted(t)'
    <3>1. t # s /\ call'[t] = call[t] /\ Acted(t)
      BY <1>3, <1>7, <2>1 DEF Agree, Mutating
    <3>2. Sole(t)'
      <4>1. \A r \in Line : call'[r].op \in Mutating => call[r].op \in Mutating
        BY <1>3 DEF Mutating
      <4>2. QED
        BY <1>4, <3>1, <4>1 DEF Acted, Sole
    <3>3. ASSUME Changed(t)'
          PROVE  Leading(t)'
      <4>1. Leading(t)
        BY <3>1, <3>3 DEF Acted, Changed
      <4>2. Leads(t, call[s].answer.active)
        BY <1>2, <4>1 DEF Leading
      <4>3. QED
        BY <1>1, <1>4, <3>1, <4>1, <4>2 DEF Leading, Leads
    <3>4. ASSUME call'[t].op = "delete", call'[t].to, call'[t].stage = "sent"
          PROVE  active' = call'[t].arg
      <4>1. active = call[t].arg /\ ~Changed(t)
        BY <3>1, <3>4 DEF Acted, Changed
      <4>2. \A r \in Line : ~Changed(r)
        BY <3>1, <4>1 DEF Acted, Sole, Changed
      <4>3. Even
        BY <1>7, <4>2 DEF Agree
      <4>4. QED
        BY <1>1, <1>2, <3>1, <4>1, <4>3 DEF Even
    <3>5. QED
      BY <3>2, <3>3, <3>4 DEF Acted
  <2>2. ASSUME \A t \in Line : ~Changed(t)'
        PROVE  Even'
    <3>1. \A t \in Line : ~Changed(t)
      BY <1>2, <1>3, <2>2 DEF Changed
    <3>2. Even
      BY <1>7, <3>1 DEF Agree
    <3>3. QED
      BY <1>1, <1>2, <1>4, <3>2 DEF Even
  <2>3. QED
    BY <2>1, <2>2 DEF Agree
<1>8. QED
  BY <1>1, <1>5, <1>6, <1>7

LEMMA DeviceAgree ==
    ASSUME TypeOK, Lines, Alone, Say, Agree, NEW s \in Line, Device(s)
    PROVE  Agree'
<1>1. current' = current
  BY DEF Device, HeardSetActive, HeardDelete, HeardGoals, HeardLaunch, HeardChat, HeardSend, HeardLike,
         GivesUp, server
<1>2. CASE HeardSetActive(s) \/ HeardDelete(s)
  <2>1. CASE Ok(s)
    BY <1>1, <1>2, <2>1, HeardAgree
  <2>2. CASE ~Ok(s)
    <3>1. Ended(s) /\ ~Changed(s) /\ active' = active /\ behind' = behind
      BY <1>2, <2>2, ActionHeard DEF Changed, Ok, HeardSetActive, HeardDelete, Keeps, history
    <3>2. QED
      BY <1>1, <3>1, EndedAgree
  <2>3. QED
    BY <2>1, <2>2
<1>3. CASE HeardGoals(s)
  <2>1. Ended(s) /\ call[s].op = "goals" /\ call[s].stage = "served"
    BY <1>3, HeardTo DEF HeardGoals, Hears
  <2>2. CASE call[s].mounted
    <3>1. CatchesUp(s)
      BY <1>3, <2>2 DEF HeardGoals
    <3>2. QED
      BY <1>1, <2>1, <2>2, <3>1, CatchesUpAgree
  <2>3. CASE ~call[s].mounted
    <3>1. ~Changed(s) /\ active' = active /\ behind' = behind
      BY <1>3, <2>1, <2>3 DEF HeardGoals, Keeps, Changed, Mutating
    <3>2. QED
      BY <1>1, <2>1, <3>1, EndedAgree
  <2>4. QED
    BY <2>2, <2>3
<1>4. CASE HeardLaunch(s)
  <2>1. Ended(s) /\ call[s].op = "launch" /\ call[s].stage = "served" /\ call[s].mounted
    BY <1>4, HeardTo DEF HeardLaunch, Hears, Lines
  <2>2. CASE Ok(s)
    <3>1. CatchesUp(s)
      BY <1>4, <2>2 DEF HeardLaunch
    <3>2. QED
      BY <1>1, <2>1, <3>1, CatchesUpAgree
  <2>3. CASE ~Ok(s)
    <3>1. behind' = (behind \/ active # None) /\ active' = active /\ ~Changed(s)
      BY <1>4, <2>1, <2>3 DEF HeardLaunch, Keeps, Changed, Mutating
    <3>2. QED
      BY <1>1, <2>1, <3>1, EndedAgree
  <2>4. QED
    BY <2>2, <2>3
<1>5. CASE HeardChat(s) \/ HeardSend(s) \/ HeardLike(s)
  <2>1. Ended(s) /\ ~Changed(s) /\ behind' = behind /\ active' = active
    BY <1>5, HeardTo DEF HeardChat, HeardSend, HeardLike, Hears, Changed, Mutating, history
  <2>2. QED
    BY <1>1, <2>1, EndedAgree
<1>6. CASE GivesUp(s)
  <2>1. behind' = (behind \/ call[s].op \in Mutating \cup {"goals", "launch"}) /\ active' = active
    BY <1>6 DEF GivesUp
  <2>2. CASE behind'
    BY <2>2 DEF Agree
  <2>3. CASE ~behind'
    <3>1. behind' = behind /\ call[s].op \notin Mutating \cup {"goals", "launch"}
      BY <2>1, <2>3 DEF TypeOK
    <3>2. ~Changed(s)
      BY <3>1 DEF Changed
    <3>3. CASE Ended(s)
      BY <1>1, <2>1, <3>1, <3>2, <3>3, EndedAgree
    <3>4. CASE Unheard(s) /\ OthersSame(s)
      <4>1. StillSo(s) /\ SoLeft(s)
        BY <3>1, <3>2, <3>4 DEF Unheard, StillSo, SoLeft, Listing, Changed, Told
      <4>2. ASSUME NEW t \in Line, t # s
            PROVE  StillSo(t) /\ SoLeft(t)
        BY <3>4, <4>2, SameSo DEF OthersSame
      <4>3. QED
        BY <1>1, <2>1, <3>1, <4>1, <4>2, AgreeLeft
    <3>5. QED
      BY <1>6, <3>3, <3>4, GivesUpTo
  <2>4. QED
    BY <2>2, <2>3
<1>7. QED
  BY <1>2, <1>3, <1>4, <1>5, <1>6 DEF Device

\* The screen of an action is left while no list is waited for.
LEMMA LeavesAgree ==
    ASSUME TypeOK, Lines, Alone, Agree, LeavesGoal
    PROVE  Agree'
<1>1. /\ active' = active /\ current' = current
      /\ behind' = (behind \/ \E t \in Under("goals") : call[t].mounted)
  BY DEF LeavesGoal, server, device
<1>2. ASSUME NEW t \in Line
      PROVE  StillSo(t)
  BY LeavesGoalTo DEF Kept, StillSo, Told, Changed
<1>3. ASSUME ~behind', NEW t \in Line, NEW s \in Line, Crossed(t, s)'
      PROVE  FALSE
  <2>1. Listing(s)
    BY <1>3, LeavesGoalTo DEF Crossed, Listing, Kept
  <2>2. call[s].op = "launch"
    BY <1>1, <1>3, <2>1 DEF Listing, Under
  <2>3. PICK r \in Line : call[r].op \in Mutating /\ call[r].heard
    BY DEF LeavesGoal, Busy
  <2>4. QED
    BY <2>2, <2>3 DEF Alone, Mutating
<1>4. QED
  BY <1>1, <1>2, <1>3, AgreeKept

LEMMA AgreeStep == IInv /\ [Next]_vars => Agree'
<1> SUFFICES ASSUME TypeOK, Lines, Alone, Say, Agree, [Next]_vars PROVE Agree'
  BY DEF IInv
<1>1. CASE Build
  <2>1. /\ RebuildsChat /\ "page" \in Line /\ behind' = behind /\ active' = active /\ current' = current
    BY <1>1, BuildTo DEF RebuildsChat, Line, Build, server
  <2>2. call["page"].op \in {"idle", "chat"}
    BY DEF Lines
  <2>3. StillSo("page") /\ SoLeft("page")
    BY <2>1, <2>2 DEF RebuildsChat, Rebuilt, Begun, StillSo, SoLeft, Told, Changed, Listing, Mutating
  <2>4. ASSUME NEW t \in Line, t # "page"
        PROVE  StillSo(t) /\ SoLeft(t)
    <3>1. /\ Kept(t) /\ (call[t].op \notin {"send", "like"} => call'[t].mounted = call[t].mounted)
      BY <2>1, <2>4 DEF RebuildsChat, Rebuilt
    <3>2. QED
      BY <3>1 DEF Kept, StillSo, SoLeft, Told, Changed, Listing, Mutating
  <2>5. QED
    BY <2>1, <2>3, <2>4, AgreeLeft
<1>2. ASSUME NEW g \in Goal, OtherDevice(g)
      PROVE  Agree'
  BY <1>2 DEF OtherDevice, Agree
<1>3. CASE UNCHANGED vars
  <2>1. \A t \in Line : call'[t] = call[t]
    BY <1>3 DEF vars
  <2>2. behind' = behind /\ active' = active /\ current' = current
    BY <1>3 DEF vars, history, device, server
  <2>3. QED
    BY <2>1, <2>2, SameSo, AgreeLeft
<1>4. QED
  BY <1>1, <1>2, <1>3, StudentAgree, ServerAgree, DeviceAgree, LeavesAgree DEF Next

-----------------------------------------------------------------------------
(* Chats.                                                                  *)

\* A call that is over, or is as it was but for who waits for it.
AsBefore(t) ==
    \/ Over(t)
    \/ /\ call'[t].op = call[t].op /\ call'[t].arg = call[t].arg /\ call'[t].to = call[t].to
       /\ call'[t].goal = call[t].goal /\ call'[t].stage = call[t].stage /\ call'[t].answer = call[t].answer
       /\ call'[t].heard => call[t].heard
       /\ call'[t].mounted => call[t].mounted

LEMMA SameAsBefore ==
    ASSUME NEW t \in Line, call'[t] = call[t]
    PROVE  AsBefore(t)
BY DEF AsBefore

\* What is stored stays where it is, or is deleted with its goal.
KeptOn == \A e \in Exchange : kept'[e] \in {kept[e], None}

LEMMA OwnCallKept ==
    ASSUME TypeOK, Lines, NEW t \in Line, OwnCall(t), AsBefore(t), KeptOn, chat'.goal = chat.goal
    PROVE  OwnCall(t)'
<1>1. CASE Over(t)
  BY <1>1 DEF Over, OwnCall, Wanted
<1>2. CASE ~Over(t)
  <2>1. /\ call'[t].op = call[t].op /\ call'[t].arg = call[t].arg /\ call'[t].goal = call[t].goal
        /\ call'[t].stage = call[t].stage /\ call'[t].answer = call[t].answer
        /\ call'[t].heard => call[t].heard
        /\ call'[t].mounted => call[t].mounted
    BY <1>2 DEF AsBefore
  <2>2. call[t].answer.lists \subseteq Exchange
    BY DEF TypeOK, Call
  <2>3. call[t].op = "send" => call[t].arg \in Exchange
    BY DEF Lines
  <2>4. QED
    BY <2>1, <2>2, <2>3 DEF OwnCall, Wanted, Own, KeptOn
<1>3. QED
  BY <1>1, <1>2

LEMMA ChatsKept ==
    ASSUME TypeOK, Lines, Chats, KeptOn, chat' \in Chat, chat'.goal = chat.goal,
           ~astray' => ~astray /\ Own(chat'.shown) /\ (~stale' => chat'.goal = active'),
           \A t \in Line : AsBefore(t) \/ OwnCall(t)'
    PROVE  Chats'
<1> SUFFICES ASSUME ~astray'
             PROVE  /\ ~stale' => chat'.goal = active'
                    /\ Own(chat.shown)'
                    /\ \A t \in Line : OwnCall(t)'
  BY DEF Chats
<1>1. ~astray /\ Own(chat'.shown) /\ (~stale' => chat'.goal = active')
  OBVIOUS
<1>2. ASSUME NEW e \in chat'.shown
      PROVE  kept'[e] \in {chat'.goal, None}
  <2>1. e \in Exchange /\ kept[e] \in {chat.goal, None}
    BY <1>1 DEF Own, Chat
  <2>2. QED
    BY <2>1 DEF KeptOn
<1>3. QED
  BY <1>1, <1>2, OwnCallKept DEF Chats, Own

LEMMA StudentChats ==
    ASSUME TypeOK, Lines, Chats, NEW s \in Slot, Student(s)
    PROVE  Chats'
<1>1. s \in Line /\ kept' = kept /\ active' = active
  BY StudentKeeps DEF Line
<1>2. CASE RebuildsGoals(s) /\ ReloadGoals(s)
  <2>1. chat' = chat /\ stale' = stale /\ astray' = astray /\ chat \in Chat
    BY <1>2 DEF ReloadGoals, device, TypeOK
  <2>2. ASSUME NEW t \in Line
        PROVE  AsBefore(t) \/ OwnCall(t)'
    BY <1>2 DEF RebuildsGoals, Rebuilt, Begun, Kept, AsBefore, OwnCall, Wanted, TypeOK, Call
  <2>3. QED
    BY <1>1, <2>1, <2>2, ChatsKept DEF Chats, KeptOn
<1>3. CASE Launch(s)
  <2>1. stale' = TRUE /\ chat'.shown = {}
    BY <1>3, BlankTyped DEF Launch, TypeOK
  <2>2. ASSUME NEW t \in Line
        PROVE  ~Wanted(t, "chat")' /\ ~Wanted(t, "send")'
    BY <1>1, <1>3, LaunchTo DEF Begun, Over, Unheard, Wanted
  <2>3. QED
    BY <2>1, <2>2 DEF Chats, Own, OwnCall
<1>4. ASSUME NEW op \in {"setActive", "delete", "send", "like"}, NEW arg \in Goal \cup Exchange,
             NEW to \in BOOLEAN, Began(s, op, arg, to)
      PROVE  \A t \in Line : AsBefore(t) \/ OwnCall(t)'
  BY <1>1, <1>4, SameAsBefore DEF Began, Begun, OthersSame, OwnCall, Wanted
<1>5. ASSUME NEW g \in Goal, SetActive(s, g) \/ Delete(s, g)
      PROVE  Chats'
  <2>1. chat' = chat /\ stale' = stale /\ astray' = astray /\ chat \in Chat
    BY <1>5 DEF SetActive, Delete, device, TypeOK
  <2>2. \A t \in Line : AsBefore(t) \/ OwnCall(t)'
    BY <1>1, <1>4, <1>5, SetActiveTo, DeleteTo
  <2>3. QED
    BY <1>1, <2>1, <2>2, ChatsKept DEF Chats, KeptOn
<1>6. ASSUME NEW e \in Exchange, Send(s, e) \/ Like(s, e)
      PROVE  Chats'
  <2>1. /\ chat' \in Chat /\ chat'.goal = chat.goal /\ chat'.shown = chat.shown
        /\ stale' = FALSE /\ astray' = (astray \/ stale)
    BY <1>1, <1>6, SendTaps, LikeTaps DEF Send, Like, Taps, Writes
  <2>2. \A t \in Line : AsBefore(t) \/ OwnCall(t)'
    BY <1>1, <1>4, <1>6, SendTo, LikeTo
  <2>3. ~astray' => ~astray /\ ~stale
    BY <2>1 DEF TypeOK
  <2>4. ~astray' => Own(chat'.shown) /\ chat'.goal = active'
    BY <1>1, <2>1, <2>3 DEF Chats
  <2>5. QED
    BY <1>1, <2>1, <2>2, <2>3, <2>4, ChatsKept DEF KeptOn
<1>7. QED
  BY <1>1, <1>2, <1>3, <1>5, <1>6, ReloadGoalsTo DEF Student, RebuildsGoals

LEMMA BuildChats ==
    ASSUME TypeOK, Lines, Chats, Build
    PROVE  Chats'
<1>1. chat'.goal = active /\ chat'.shown = {} /\ active' = active
  BY BlankTyped DEF Build, TypeOK
<1>2. RebuildsChat /\ "page" \in Line
  BY BuildTo DEF RebuildsChat, Line
<1>3. call'["page"].op = "chat" /\ call'["page"].stage = "sent"
  BY <1>2 DEF RebuildsChat, Rebuilt, Begun
<1>4. ASSUME NEW t \in Line, t # "page"
      PROVE  ~Wanted(t, "chat")' /\ ~Wanted(t, "send")'
  <2>1. call[t].op # "chat" /\ Kept(t) /\ (call[t].op = "send" /\ call[t].heard => ~call'[t].mounted)
    BY <1>2, <1>4 DEF Lines, Line, RebuildsChat, Rebuilt
  <2>2. QED
    BY <2>1 DEF Kept, Wanted
<1>5. ASSUME NEW t \in Line
      PROVE  OwnCall(t)'
  BY <1>3, <1>4 DEF OwnCall, Wanted
<1>6. QED
  BY <1>1, <1>5 DEF Chats, Own

\* Of the calls that a handler leaves alone.
LEMMA OthersAsBefore ==
    ASSUME NEW s \in Line, OthersKept(s) \/ OthersSame(s)
    PROVE  \A t \in Line : t # s => AsBefore(t)
BY DEF OthersKept, OthersSame, Kept, AsBefore

LEMMA ServerChats ==
    ASSUME TypeOK, Lines, Chats, Once, NEW s \in Line, Server(s)
    PROVE  Chats'
<1>1. chat' = chat /\ stale' = stale /\ active' = active /\ chat \in Chat
  BY DEF Server, ListGoals, SetActiveGoal, DeleteGoal, ListMessages, LikeMessage, SendMessage, StoreReply,
         NeverArrives, server, device, TypeOK
<1>2. ASSUME NEW t \in Line, t # s
      PROVE  AsBefore(t)
  BY <1>2, ServerDoes, OthersAsBefore DEF Answered, Thinks, Ended
<1>3. CASE ListMessages(s)
  <2>1. astray' = (astray \/ (call[s].heard /\ call[s].mounted /\ current # chat.goal)) /\ kept' = kept
    BY <1>3 DEF ListMessages, Serves, server
  <2>2. /\ call[s].op = "chat"
        /\ call[s].heard => call'[s].op = "chat" /\ call'[s].mounted = call[s].mounted /\ call'[s].answer.lists = Page(current)
        /\ ~call[s].heard => Over(s)
    BY <1>3, ListMessagesTo DEF ListMessages, Arrived, Answered, Replied
  <2>3. ~astray' => ~astray /\ (call[s].heard /\ call[s].mounted => current = chat.goal)
    BY <2>1 DEF TypeOK
  <2>4. ~astray' => OwnCall(s)'
    BY <1>1, <2>1, <2>2, <2>3 DEF OwnCall, Wanted, Over, Own, Page
  <2>5. CASE astray'
    BY <2>5 DEF Chats
  <2>6. CASE ~astray'
    BY <1>1, <1>2, <2>1, <2>3, <2>4, <2>6, ChatsKept DEF Chats, KeptOn
  <2>7. QED
    BY <2>5, <2>6
<1>4. CASE SendMessage(s)
  <2>1. astray' = (astray \/ (call[s].heard /\ call[s].mounted /\ current # chat.goal)) /\ kept' = kept
    BY <1>4 DEF SendMessage, Serves, server
  <2>2. \/ Over(s)
        \/ call'[s].op = "send" /\ call'[s].stage = "served" /\ ~call'[s].answer.ok
        \/ /\ call'[s].op = "send" /\ call'[s].stage = "thinking" /\ call'[s].goal = current
           /\ call'[s].heard = call[s].heard /\ call'[s].mounted = call[s].mounted
    BY <1>4, SendMessageTo DEF SendMessage, Arrived, Answered, Replied, Thinks
  <2>3. ~astray' => ~astray /\ (call[s].heard /\ call[s].mounted => current = chat.goal)
    BY <2>1 DEF TypeOK
  <2>4. ~astray' => OwnCall(s)'
    BY <1>1, <2>2, <2>3 DEF OwnCall, Wanted, Over
  <2>5. CASE astray'
    BY <2>5 DEF Chats
  <2>6. CASE ~astray'
    BY <1>1, <1>2, <2>1, <2>3, <2>4, <2>6, ChatsKept DEF Chats, KeptOn
  <2>7. QED
    BY <2>5, <2>6
<1>5. CASE StoreReply(s)
  <2>1. call[s].op = "send" /\ call[s].stage = "thinking" /\ call[s].arg \in Exchange /\ astray' = astray
    BY <1>5 DEF StoreReply, Lines, history
  <2>2. CASE kept' = kept /\ Answered(s, FALSE)
    <3>1. OwnCall(s)'
      BY <2>1, <2>2 DEF Answered, Over, Replied, OwnCall, Wanted
    <3>2. QED
      BY <1>1, <1>2, <2>1, <2>2, <3>1, ChatsKept DEF Chats, KeptOn
  <2>3. CASE kept' = [kept EXCEPT ![call[s].arg] = call[s].goal] /\ Answered(s, TRUE)
    <3> SUFFICES ASSUME ~astray
                 PROVE  /\ ~stale => chat.goal = active
                        /\ Own(chat.shown)'
                        /\ \A t \in Line : OwnCall(t)'
      BY <1>1, <2>1 DEF Chats
    <3>1. kept \in [Exchange -> live \cup {None, "unsent"}] /\ kept[call[s].arg] = "unsent"
      BY <2>1 DEF TypeOK, Once, OnceCall
    <3>2. \A e \in Exchange : kept[e] # "unsent" => kept'[e] = kept[e]
      BY <2>1, <2>3, <3>1
    <3>3. ASSUME NEW e \in chat.shown
          PROVE  kept'[e] \in {chat.goal, None}
      <4>1. e \in Exchange /\ kept[e] # "unsent" /\ kept[e] \in {chat.goal, None}
        BY <1>1 DEF Chat, Once, Chats, Own
      <4>2. QED
        BY <3>2, <4>1
    <3>4. OwnCall(s)'
      <4>1. CASE call[s].heard /\ call[s].mounted
        <5>1. call[s].goal = chat.goal
          BY <2>1, <4>1 DEF Chats, OwnCall, Wanted
        <5>2. call'[s].op = "send" /\ call'[s].stage = "served" /\ call'[s].arg = call[s].arg
          BY <2>1, <2>3, <4>1 DEF Answered, Replied
        <5>3. kept'[call[s].arg] = chat.goal
          BY <2>1, <2>3, <3>1, <5>1
        <5>4. QED
          BY <1>1, <5>2, <5>3 DEF OwnCall, Wanted, Own
      <4>2. CASE ~(call[s].heard /\ call[s].mounted)
        BY <2>1, <2>3, <4>2 DEF Answered, Replied, Over, OwnCall, Wanted
      <4>3. QED
        BY <4>1, <4>2
    <3>5. ASSUME NEW t \in Line, t # s
          PROVE  OwnCall(t)'
      <4>1. CASE Over(t)
        BY <4>1 DEF Over, OwnCall, Wanted
      <4>2. CASE ~Over(t)
        <5>1. /\ call'[t].op = call[t].op /\ call'[t].arg = call[t].arg /\ call'[t].goal = call[t].goal
              /\ call'[t].stage = call[t].stage /\ call'[t].answer = call[t].answer
              /\ call'[t].heard => call[t].heard
              /\ call'[t].mounted => call[t].mounted
          BY <1>2, <3>5, <4>2 DEF AsBefore
        <5>2. OwnCall(t) /\ call[t].answer.lists \subseteq Exchange /\ (call[t].op = "send" => call[t].arg \in Exchange)
          BY DEF Chats, TypeOK, Call, Lines
        <5>3. call[t].op = "chat" => \A e \in call[t].answer.lists : kept[e] # "unsent"
          BY DEF Once, OnceCall
        <5>4. call[t].op = "send" /\ call[t].stage = "served" /\ call[t].answer.ok => kept[call[t].arg] # "unsent"
          BY DEF Once, OnceCall
        <5>5. QED
          BY <1>1, <3>2, <5>1, <5>2, <5>3, <5>4 DEF OwnCall, Wanted, Own
      <4>3. QED
        BY <4>1, <4>2
    <3>6. QED
      BY <1>1, <3>3, <3>4, <3>5 DEF Chats, Own
  <2>4. QED
    BY <1>5, <2>2, <2>3, StoreReplyTo
<1>6. CASE ListGoals(s) \/ SetActiveGoal(s) \/ DeleteGoal(s) \/ LikeMessage(s) \/ NeverArrives(s)
  <2>1. astray' = astray
    BY <1>6 DEF ListGoals, SetActiveGoal, DeleteGoal, LikeMessage, NeverArrives, history
  <2>2. KeptOn
    BY <1>6 DEF ListGoals, SetActiveGoal, DeleteGoal, LikeMessage, NeverArrives, server, KeptOn, Owned
  <2>3. CASE NeverArrives(s)
    <3>1. AsBefore(s)
      BY <2>3, NeverArrivesTo DEF Ended, AsBefore
    <3>2. QED
      BY <1>1, <1>2, <2>1, <2>2, <3>1, ChatsKept DEF Chats
  <2>4. CASE ~NeverArrives(s)
    <3>1. call[s].op \notin {"chat", "send"}
      BY <1>6, <2>4 DEF ListGoals, SetActiveGoal, DeleteGoal, LikeMessage, Arrived
    <3>2. call'[s].op \notin {"chat", "send"}
      BY <1>6, <2>4, <3>1, ServerDoes DEF Answered, Replied, Over, Thinks
    <3>3. OwnCall(s)'
      BY <3>2 DEF OwnCall, Wanted
    <3>4. QED
      BY <1>1, <1>2, <2>1, <2>2, <3>3, ChatsKept DEF Chats
  <2>5. QED
    BY <2>3, <2>4
<1>7. QED
  BY <1>3, <1>4, <1>5, <1>6 DEF Server

\* What the device's steps do to the calls.
LEMMA DeviceDoes ==
    ASSUME TypeOK, Lines, NEW s \in Line, Device(s)
    PROVE  \/ Ended(s)
           \/ RebuildsGoals(s) /\ (HeardSetActive(s) \/ HeardDelete(s))
           \/ GivesUp(s) /\ call[s].stage # "served" /\ Unheard(s) /\ call'[s].answer = call[s].answer /\ OthersSame(s)
BY ActionHeard, HeardTo, GivesUpTo DEF Device

LEMMA DeviceCalls ==
    ASSUME TypeOK, Lines, NEW s \in Line, Device(s)
    PROVE  \A t \in Line : AsBefore(t) \/ call'[t].op = "goals"
<1>1. CASE Ended(s)
  BY <1>1, SameAsBefore DEF Ended, OthersSame, AsBefore
<1>2. CASE RebuildsGoals(s)
  BY <1>2 DEF RebuildsGoals, Rebuilt, Begun, Kept, AsBefore, TypeOK, Call
<1>3. CASE Unheard(s) /\ call'[s].answer = call[s].answer /\ OthersSame(s)
  BY <1>3, SameAsBefore DEF Unheard, OthersSame, AsBefore
<1>4. QED
  BY <1>1, <1>2, <1>3, DeviceDoes

LEMMA DeviceKeeps ==
    ASSUME NEW s \in Line, Device(s)
    PROVE  live' = live /\ current' = current /\ kept' = kept /\ liked' = liked /\ astray' = astray
BY DEF Device, HeardSetActive, HeardDelete, HeardGoals, HeardLaunch, HeardChat, HeardSend, HeardLike,
       GivesUp, server, history

LEMMA DeviceChats ==
    ASSUME TypeOK, Lines, Chats, NEW s \in Line, Device(s)
    PROVE  Chats'
<1>1. kept' = kept /\ astray' = astray /\ KeptOn
  BY DeviceKeeps DEF KeptOn
<1>2. \A t \in Line : AsBefore(t) \/ OwnCall(t)'
  BY DeviceCalls DEF OwnCall, Wanted
<1>3. chat \in Chat /\ call[s].answer.ok \in BOOLEAN
  BY DEF TypeOK, Call
<1>4. ASSUME chat' \in Chat, chat'.goal = chat.goal, ~astray => Own(chat'.shown),
             ~stale' => chat.goal = active' \/ (~stale /\ active' = active)
      PROVE  Chats'
  BY <1>1, <1>2, <1>4, ChatsKept DEF Chats
<1>5. CASE HeardSetActive(s) \/ HeardDelete(s) \/ HeardGoals(s) \/ HeardLaunch(s)
  <2>1. chat' = chat
    BY <1>5 DEF HeardSetActive, HeardDelete, HeardGoals, HeardLaunch
  <2>2. ASSUME ~stale'
        PROVE  ~stale /\ active' = active
    <3>1. ASSUME NEW g, Set(g)
          PROVE  ~stale /\ active' = active
      BY <2>2, <3>1 DEF Set
    <3>2. CASE Keeps
      BY <2>2, <3>2 DEF Keeps
    <3>3. Keeps \/ \E g : Set(g)
      BY <1>5 DEF HeardSetActive, HeardDelete, HeardGoals, HeardLaunch, CatchesUp
    <3>4. QED
      BY <3>1, <3>2, <3>3
  <2>3. QED
    BY <1>3, <1>4, <2>1, <2>2 DEF Chats
<1>6. CASE HeardChat(s)
  <2>1. call[s].mounted /\ call[s].heard /\ call[s].op = "chat" /\ call[s].stage = "served"
    BY <1>6 DEF HeardChat, Hears, Lines
  <2>2. chat' \in Chat /\ chat'.goal = chat.goal /\ chat'.shown = call[s].answer.lists
    BY <1>6, <2>1, HeardChatTo
  <2>3. stale' = stale /\ active' = active
    BY <1>6 DEF HeardChat
  <2>4. ~astray => Own(chat'.shown)
    BY <2>1, <2>2 DEF Chats, OwnCall, Wanted
  <2>5. QED
    BY <1>4, <2>2, <2>3, <2>4
<1>7. ASSUME NEW ok \in BOOLEAN, Sent(s, ok), call[s].op = "send", call[s].heard, active' = active,
             ok => call[s].stage = "served" /\ call[s].answer.ok
      PROVE  Chats'
  <2>1. call[s].arg \in Exchange
    BY <1>7 DEF Lines
  <2>2. /\ chat' \in Chat /\ chat'.goal = chat.goal
        /\ StillCurrent(s) /\ ok => chat'.shown = chat.shown \cup {call[s].arg}
        /\ ~(StillCurrent(s) /\ ok) => chat'.shown = chat.shown
        /\ ~StillCurrent(s) => stale' = stale
    BY <1>7, <2>1, SentTo
  <2>3. ~stale' => chat.goal = active' \/ ~stale
    BY <1>7, <2>2 DEF StillCurrent
  <2>4. ASSUME ~astray
        PROVE  Own(chat'.shown)
    <3>1. CASE StillCurrent(s) /\ ok
      <4>1. Own({call[s].arg}) /\ Own(chat.shown)
        BY <1>7, <2>4, <3>1 DEF Chats, OwnCall, Wanted, StillCurrent
      <4>2. QED
        BY <2>2, <3>1, <4>1 DEF Own
    <3>2. CASE ~(StillCurrent(s) /\ ok)
      BY <2>2, <2>4, <3>2 DEF Chats
    <3>3. QED
      BY <3>1, <3>2
  <2>5. QED
    BY <1>4, <1>7, <2>2, <2>3, <2>4
<1>8. ASSUME NEW ok \in BOOLEAN, Liked(s, ok), call[s].op = "like", active' = active
      PROVE  Chats'
  <2>1. call[s].arg \in Exchange
    BY <1>8 DEF Lines
  <2>2. /\ chat' \in Chat /\ chat'.goal = chat.goal /\ chat'.shown = chat.shown
        /\ ~StillCurrent(s) => stale' = stale
    BY <1>8, <2>1, LikedTo
  <2>3. ~stale' => chat.goal = active' \/ ~stale
    BY <1>8, <2>2 DEF StillCurrent
  <2>4. QED
    BY <1>4, <1>8, <2>2, <2>3 DEF Chats
<1>9. CASE HeardSend(s)
  <2>1. /\ Sent(s, call[s].answer.ok) /\ call[s].op = "send" /\ call[s].stage = "served" /\ call[s].heard
        /\ active' = active
    BY <1>9 DEF HeardSend, Hears, Ok, Lines
  <2>2. QED
    BY <1>3, <1>7, <2>1
<1>10. CASE HeardLike(s)
  <2>1. Liked(s, call[s].answer.ok) /\ call[s].op = "like" /\ active' = active
    BY <1>10 DEF HeardLike, Hears, Ok
  <2>2. QED
    BY <1>3, <1>8, <2>1
<1>11. CASE GivesUp(s)
  <2>1. active' = active /\ call[s].heard
    BY <1>11 DEF GivesUp
  <2>2. CASE call[s].op = "send"
    BY <1>7, <1>11, <2>1, <2>2 DEF GivesUp
  <2>3. CASE call[s].op = "like"
    BY <1>8, <1>11, <2>1, <2>3 DEF GivesUp
  <2>4. CASE call[s].op \notin {"send", "like"}
    <3>1. stale' = stale /\ (chat' = [chat EXCEPT !.page = "failed"] \/ chat' = chat)
      BY <1>11, <2>4 DEF GivesUp
    <3>2. chat' \in Chat /\ chat'.goal = chat.goal /\ chat'.shown = chat.shown
      BY <1>3, <3>1, FailedTyped
    <3>3. QED
      BY <1>4, <2>1, <3>1, <3>2 DEF Chats
  <2>5. QED
    BY <2>2, <2>3, <2>4
<1>12. QED
  BY <1>5, <1>6, <1>9, <1>10, <1>11 DEF Device

LEMMA ChatsStep == IInv /\ [Next]_vars => Chats'
<1> SUFFICES ASSUME TypeOK, Lines, Chats, Once, [Next]_vars PROVE Chats'
  BY DEF IInv
<1>1. ASSUME NEW g \in Goal, OtherDevice(g)
      PROVE  Chats'
  <2>1. chat' = chat /\ stale' = stale /\ active' = active /\ astray' = astray /\ kept' = kept /\ chat \in Chat
    BY <1>1 DEF OtherDevice, device, TypeOK
  <2>2. \A t \in Line : AsBefore(t)
    BY <1>1, OtherDeviceTo DEF Kept, AsBefore
  <2>3. QED
    BY <2>1, <2>2, ChatsKept DEF Chats, KeptOn
<1>2. CASE LeavesGoal
  <2>1. chat' = chat /\ stale' = stale /\ active' = active /\ astray' = astray /\ kept' = kept /\ chat \in Chat
    BY <1>2 DEF LeavesGoal, server, device, TypeOK
  <2>2. \A t \in Line : AsBefore(t)
    BY <1>2, LeavesGoalTo DEF Kept, AsBefore
  <2>3. QED
    BY <2>1, <2>2, ChatsKept DEF Chats, KeptOn
<1>3. CASE UNCHANGED vars
  <2>1. /\ chat' = chat /\ stale' = stale /\ active' = active /\ astray' = astray /\ kept' = kept /\ chat \in Chat
        /\ call' = call
    BY <1>3 DEF vars, server, device, history, TypeOK
  <2>2. \A t \in Line : AsBefore(t)
    BY <2>1, SameAsBefore
  <2>3. QED
    BY <2>1, <2>2, ChatsKept DEF Chats, KeptOn
<1>4. QED
  BY <1>1, <1>2, <1>3, StudentChats, BuildChats, ServerChats, DeviceChats DEF Next

-----------------------------------------------------------------------------
(* Once.                                                                   *)

UnsentSame == \A e \in Exchange : kept'[e] = "unsent" <=> kept[e] = "unsent"

LEMMA OnceCallKept ==
    ASSUME TypeOK, Lines, NEW t \in Line, OnceCall(t), AsBefore(t), UnsentSame
    PROVE  OnceCall(t)'
<1>1. CASE Over(t)
  BY <1>1 DEF Over, OnceCall
<1>2. CASE ~Over(t)
  <2>1. /\ call'[t].op = call[t].op /\ call'[t].arg = call[t].arg
        /\ call'[t].stage = call[t].stage /\ call'[t].answer = call[t].answer
    BY <1>2 DEF AsBefore
  <2>2. call[t].answer.lists \subseteq Exchange /\ (call[t].op \in {"send", "like"} => call[t].arg \in Exchange)
    BY DEF TypeOK, Call, Lines
  <2>3. QED
    BY <2>1, <2>2 DEF OnceCall, UnsentSame
<1>3. QED
  BY <1>1, <1>2

\* A step that sends nothing new.
LEMMA OnceKept ==
    ASSUME TypeOK, Lines, Once, UnsentSame, chat' \in Chat, \A e \in chat'.shown : kept[e] # "unsent",
           \A t \in Line : \/ AsBefore(t)
                           \/ /\ OnceCall(t)'
                              /\ call'[t].op = "send" => call[t].op = "send" /\ call'[t].arg = call[t].arg
    PROVE  Once'
<1>1. \A e \in chat'.shown : kept'[e] # "unsent"
  BY DEF Chat, UnsentSame
<1>2. \A t \in Line : OnceCall(t)'
  BY OnceCallKept DEF Once
<1>3. \A t \in Line : call'[t].op = "send" => call[t].op = "send" /\ call'[t].arg = call[t].arg
  BY DEF AsBefore, Over
<1>4. QED
  BY <1>1, <1>2, <1>3 DEF Once

LEMMA LaunchAsBefore ==
    ASSUME TypeOK, NEW s \in Line, Launch(s)
    PROVE  \A t \in Line : t # s => AsBefore(t)
BY LaunchTo DEF Unheard, AsBefore

LEMMA RebuildsChatTo ==
    ASSUME TypeOK, Lines, RebuildsChat
    PROVE  /\ call'["page"].op = "chat" /\ call'["page"].stage = "sent" /\ call'["page"].answer.lists = {}
           /\ call'["page"].heard /\ call'["page"].mounted
           /\ \A t \in Line : t # "page" =>
                 /\ AsBefore(t) /\ call'[t].op # "chat"
                 /\ call'[t].op \in {"send", "like"} => ~(call'[t].heard /\ call'[t].mounted)
<1>1. Begun("page", "chat", None, FALSE)
  BY DEF RebuildsChat, Rebuilt
<1>2. ASSUME NEW t \in Line, t # "page"
      PROVE  /\ AsBefore(t) /\ call'[t].op # "chat"
             /\ call'[t].op \in {"send", "like"} => ~(call'[t].heard /\ call'[t].mounted)
  <2>1. call[t].op # "chat"
    BY <1>2 DEF Lines, Line
  <2>2. /\ Kept(t)
        /\ call[t].op \in {"send", "like"} /\ call[t].heard => ~call'[t].mounted
        /\ ~(call[t].op \in {"send", "like"} /\ call[t].heard) => call'[t].mounted = call[t].mounted
    BY <1>2 DEF RebuildsChat, Rebuilt
  <2>3. call[t].mounted \in BOOLEAN /\ call'[t].mounted => call[t].mounted
    BY <2>2 DEF TypeOK, Call
  <2>4. QED
    BY <2>1, <2>2, <2>3 DEF Kept, AsBefore
<1>3. QED
  BY <1>1, <1>2, NothingTyped DEF Begun

LEMMA StudentOnce ==
    ASSUME TypeOK, TypeOK', Lines, Once, NEW s \in Slot, Student(s)
    PROVE  Once'
<1>1. s \in Line /\ kept' = kept /\ UnsentSame /\ chat' \in Chat /\ call[s].op = "idle"
  BY StudentKeeps, StudentReady DEF Line, UnsentSame, TypeOK
<1>2. CASE RebuildsGoals(s) /\ ReloadGoals(s)
  <2>1. chat' = chat
    BY <1>2 DEF ReloadGoals, device
  <2>2. ASSUME NEW t \in Line
        PROVE  AsBefore(t) \/ call'[t].op = "goals"
    BY <1>2 DEF RebuildsGoals, Rebuilt, Begun, Kept, AsBefore, TypeOK, Call
  <2>3. QED
    BY <1>1, <2>1, <2>2, OnceKept DEF Once, OnceCall
<1>3. CASE Launch(s)
  <2>1. chat'.shown = {}
    BY <1>3, BlankTyped DEF Launch, TypeOK
  <2>2. call'[s].op = "launch" /\ \A t \in Line : t # s => AsBefore(t)
    BY <1>1, <1>3, LaunchTo, LaunchAsBefore DEF Begun
  <2>3. QED
    BY <1>1, <2>1, <2>2, OnceKept DEF OnceCall
<1>4. ASSUME NEW g \in Goal, SetActive(s, g) \/ Delete(s, g)
      PROVE  Once'
  <2>1. chat' = chat
    BY <1>4 DEF SetActive, Delete, device
  <2>2. call'[s].op \in Mutating /\ \A t \in Line : t # s => AsBefore(t)
    BY <1>1, <1>4, SetActiveTo, DeleteTo, SameAsBefore DEF Began, Begun, OthersSame, Mutating
  <2>3. QED
    BY <1>1, <2>1, <2>2, OnceKept DEF Once, OnceCall, Mutating
<1>5. ASSUME NEW e \in Exchange, Like(s, e)
      PROVE  Once'
  <2>1. chat'.shown = chat.shown /\ e \in chat.shown
    BY <1>1, <1>5, LikeTaps
  <2>2. call'[s].op = "like" /\ call'[s].arg = e /\ \A t \in Line : t # s => AsBefore(t)
    BY <1>1, <1>5, LikeTo, SameAsBefore DEF Began, Begun, OthersSame
  <2>3. OnceCall(s)'
    BY <1>1, <2>1, <2>2 DEF OnceCall, Once
  <2>4. QED
    BY <1>1, <2>1, <2>2, <2>3, OnceKept DEF Once
<1>6. ASSUME NEW e \in Exchange, Send(s, e)
      PROVE  Once'
  <2>1. chat'.shown = chat.shown
    BY <1>1, <1>6, SendTaps
  <2>2. /\ call'[s].op = "send" /\ call'[s].arg = e /\ call'[s].stage = "sent"
        /\ \A t \in Line : t # s => call'[t] = call[t]
    BY <1>1, <1>6, SendTo DEF Began, Begun, OthersSame
  <2>3. kept[e] = "unsent" /\ \A t \in Line : call[t].op = "send" => call[t].arg # e
    BY <1>6 DEF Send, Under
  <2>4. OnceCall(s)'
    BY <1>1, <2>2, <2>3 DEF OnceCall
  <2>5. \A t \in Line : t # s => OnceCall(t)'
    BY <1>1, <2>2 DEF OnceCall, Once
  <2>6. QED
    BY <1>1, <2>1, <2>2, <2>3, <2>4, <2>5 DEF Once
<1>7. QED
  BY <1>1, <1>2, <1>3, <1>4, <1>5, <1>6, ReloadGoalsTo DEF Student, RebuildsGoals

LEMMA ServerOnce ==
    ASSUME TypeOK, Lines, Once, NEW s \in Line, Server(s)
    PROVE  Once'
<1>1. chat' = chat /\ chat' \in Chat /\ \A e \in chat.shown : kept[e] # "unsent"
  BY DEF Server, ListGoals, SetActiveGoal, DeleteGoal, ListMessages, LikeMessage, SendMessage, StoreReply,
         NeverArrives, server, device, TypeOK, Once
<1>2. ASSUME NEW t \in Line, t # s
      PROVE  AsBefore(t)
  BY <1>2, ServerDoes, OthersAsBefore DEF Answered, Thinks, Ended
<1>3. call'[s].op \in {"idle", call[s].op} /\ (call'[s].op # "idle" => call'[s].arg = call[s].arg)
  BY ServerDoes DEF Answered, Replied, Over, Thinks, Ended
<1>4. ASSUME OnceCall(s)', UnsentSame
      PROVE  Once'
  BY <1>1, <1>2, <1>3, <1>4, OnceKept
<1>5. CASE StoreReply(s)
  <2>1. /\ call[s].op = "send" /\ call[s].stage = "thinking" /\ call[s].arg \in Exchange
        /\ kept[call[s].arg] = "unsent" /\ kept \in [Exchange -> live \cup {None, "unsent"}]
    BY <1>5 DEF StoreReply, Lines, Once, OnceCall, TypeOK
  <2>2. CASE kept' = kept /\ Answered(s, FALSE)
    <3>1. OnceCall(s)'
      BY <2>1, <2>2 DEF Answered, Replied, Over, OnceCall
    <3>2. QED
      BY <1>4, <2>2, <3>1 DEF UnsentSame
  <2>3. CASE /\ kept' = [kept EXCEPT ![call[s].arg] = call[s].goal] /\ call[s].goal \in live
             /\ Answered(s, TRUE)
    <3>1. kept'[call[s].arg] # "unsent" /\ \A e \in Exchange : e # call[s].arg => kept'[e] = kept[e]
      BY <2>1, <2>3, UnsentAssumption DEF TypeOK
    <3>2. OnceCall(s)'
      BY <2>1, <2>3, <3>1 DEF Answered, Replied, Over, OnceCall
    <3>3. ASSUME NEW t \in Line, t # s
          PROVE  OnceCall(t)'
      <4>1. CASE Over(t)
        BY <4>1 DEF Over, OnceCall
      <4>2. CASE ~Over(t)
        <5>1. /\ call'[t].op = call[t].op /\ call'[t].arg = call[t].arg
              /\ call'[t].stage = call[t].stage /\ call'[t].answer = call[t].answer
          BY <1>2, <3>3, <4>2 DEF AsBefore
        <5>2. call[t].answer.lists \subseteq Exchange /\ (call[t].op \in {"send", "like"} => call[t].arg \in Exchange)
          BY DEF TypeOK, Call, Lines
        <5>3. call[t].op = "send" => call[t].arg # call[s].arg
          BY <2>1, <3>3 DEF Once
        <5>4. OnceCall(t)
          BY DEF Once
        <5>5. QED
          BY <2>1, <3>1, <5>1, <5>2, <5>3, <5>4 DEF OnceCall
      <4>3. QED
        BY <4>1, <4>2
    <3>4. \A e \in chat'.shown : kept'[e] # "unsent"
      <4>1. \A e \in chat'.shown : e \in Exchange /\ kept[e] # "unsent"
        BY <1>1 DEF Chat
      <4>2. QED
        BY <3>1, <4>1
    <3>5. \A t \in Line : call'[t].op = "send" => call[t].op = "send" /\ call'[t].arg = call[t].arg
      BY <1>2, <1>3 DEF AsBefore, Over
    <3>6. QED
      BY <3>2, <3>3, <3>4, <3>5 DEF Once
  <2>4. QED
    BY <1>5, <2>2, <2>3, StoreReplyTo
<1>6. CASE ~StoreReply(s)
  <2>1. UnsentSame
    <3>1. CASE DeleteGoal(s)
      <4>1. "unsent" \notin live /\ None # "unsent"
        BY UnsentAssumption DEF TypeOK
      <4>2. \/ kept' = kept
            \/ /\ call[s].arg \in live
               /\ kept' = [e \in Exchange |-> IF kept[e] = call[s].arg THEN None ELSE kept[e]]
        BY <3>1 DEF DeleteGoal, Owned, server
      <4>3. QED
        BY <4>1, <4>2 DEF UnsentSame
    <3>2. CASE ~DeleteGoal(s)
      BY <1>6, <3>2 DEF Server, ListGoals, SetActiveGoal, ListMessages, LikeMessage, SendMessage,
         NeverArrives, server, UnsentSame
    <3>3. QED
      BY <3>1, <3>2
  <2>2. OnceCall(s)'
    <3>1. CASE ListMessages(s)
      <4>1. kept' = kept /\ "unsent" \notin live /\ current \in live \cup {None} /\ call[s].op = "chat"
        BY <3>1, UnsentAssumption DEF ListMessages, Arrived, server, TypeOK
      <4>2. Over(s) \/ (call'[s].op = "chat" /\ call'[s].answer.lists = Page(current))
        BY <3>1, ListMessagesTo DEF ListMessages, Arrived, Answered, Replied
      <4>3. QED
        BY <4>1, <4>2 DEF Over, OnceCall, Page
    <3>2. CASE SendMessage(s)
      <4>1. kept' = kept /\ call[s].op = "send" /\ call[s].stage = "sent"
        BY <3>2 DEF SendMessage, Arrived, server
      <4>2. Thinks(s) \/ Answered(s, FALSE)
        BY <3>2, SendMessageTo
      <4>3. CASE Thinks(s)
        BY <4>1, <4>3 DEF Thinks, OnceCall, Once
      <4>4. CASE Answered(s, FALSE)
        BY <4>1, <4>4 DEF Answered, Replied, Over, OnceCall
      <4>5. QED
        BY <4>2, <4>3, <4>4
    <3>3. CASE LikeMessage(s)
      <4>1. kept' = kept /\ call[s].op = "like" /\ kept[call[s].arg] # "unsent"
        BY <3>3 DEF LikeMessage, Arrived, Once, OnceCall
      <4>2. QED
        BY <1>3, <4>1 DEF OnceCall
    <3>4. CASE ListGoals(s) \/ SetActiveGoal(s) \/ DeleteGoal(s)
      <4>1. call'[s].op \notin {"chat", "like", "send"}
        BY <1>3, <3>4 DEF ListGoals, SetActiveGoal, DeleteGoal, Arrived
      <4>2. QED
        BY <4>1 DEF OnceCall
    <3>5. CASE NeverArrives(s)
      BY <3>5, NeverArrivesTo DEF Ended, Over, OnceCall
    <3>6. QED
      BY <1>6, <3>1, <3>2, <3>3, <3>4, <3>5 DEF Server
  <2>3. QED
    BY <1>4, <2>1, <2>2
<1>7. QED
  BY <1>5, <1>6

LEMMA DeviceOnce ==
    ASSUME TypeOK, TypeOK', Lines, Once, NEW s \in Line, Device(s)
    PROVE  Once'
<1>1. kept' = kept /\ UnsentSame /\ chat' \in Chat
  BY DeviceKeeps DEF UnsentSame, TypeOK
<1>2. \A t \in Line : AsBefore(t) \/ call'[t].op = "goals"
  BY DeviceCalls
<1>3. ASSUME \A e \in chat'.shown : kept[e] # "unsent"
      PROVE  Once'
  BY <1>1, <1>2, <1>3, OnceKept DEF OnceCall
<1>4. call[s].answer.ok \in BOOLEAN /\ (call[s].op \in {"send", "like"} => call[s].arg \in Exchange) /\ chat \in Chat
  BY DEF TypeOK, Call, Lines
<1>5. CASE HeardSetActive(s) \/ HeardDelete(s) \/ HeardGoals(s) \/ HeardLaunch(s)
  BY <1>3, <1>5 DEF HeardSetActive, HeardDelete, HeardGoals, HeardLaunch, Once
<1>6. CASE HeardChat(s)
  <2>1. call[s].mounted /\ call[s].op = "chat"
    BY <1>6 DEF HeardChat, Hears, Lines
  <2>2. QED
    BY <1>3, <1>6, <2>1, HeardChatTo DEF Once, OnceCall
<1>7. CASE HeardSend(s)
  <2>1. call[s].op = "send" /\ call[s].stage = "served" /\ Sent(s, call[s].answer.ok)
    BY <1>7 DEF HeardSend, Hears, Ok
  <2>2. call[s].answer.ok => kept[call[s].arg] # "unsent"
    BY <2>1 DEF Once, OnceCall
  <2>3. QED
    BY <1>3, <1>4, <2>1, <2>2, SentTo DEF Once
<1>8. CASE HeardLike(s)
  <2>1. call[s].op = "like" /\ Liked(s, call[s].answer.ok)
    BY <1>8 DEF HeardLike, Hears, Ok
  <2>2. QED
    BY <1>3, <1>4, <2>1, LikedTo DEF Once
<1>9. CASE GivesUp(s)
  <2>1. CASE call[s].op = "send"
    BY <1>3, <1>4, <1>9, <2>1, SentTo DEF GivesUp, Once
  <2>2. CASE call[s].op = "like"
    BY <1>3, <1>4, <1>9, <2>2, LikedTo DEF GivesUp, Once
  <2>3. CASE call[s].op \notin {"send", "like"}
    <3>1. chat' = [chat EXCEPT !.page = "failed"] \/ chat' = chat
      BY <1>9, <2>3 DEF GivesUp
    <3>2. QED
      BY <1>3, <1>4, <3>1, FailedTyped DEF Once
  <2>4. QED
    BY <2>1, <2>2, <2>3
<1>10. QED
  BY <1>5, <1>6, <1>7, <1>8, <1>9 DEF Device

LEMMA OnceStep == IInv /\ [Next]_vars => Once'
<1> SUFFICES ASSUME TypeOK, TypeOK', Lines, Once, [Next]_vars PROVE Once'
  BY TypeStep DEF IInv
<1>1. CASE Build
  <2>1. kept' = kept /\ chat'.shown = {} /\ chat' \in Chat
    BY <1>1, BlankTyped DEF Build, server, TypeOK
  <2>2. RebuildsChat
    BY <1>1, BuildTo DEF RebuildsChat
  <2>3. call'["page"].op = "chat" /\ OnceCall("page")'
    BY <2>2, RebuildsChatTo DEF OnceCall
  <2>4. \A t \in Line : t # "page" => AsBefore(t)
    BY <2>2, RebuildsChatTo
  <2>5. QED
    BY <2>1, <2>3, <2>4, OnceKept DEF UnsentSame
<1>2. ASSUME NEW g \in Goal, OtherDevice(g)
      PROVE  Once'
  <2>1. chat' = chat /\ kept' = kept /\ chat \in Chat
    BY <1>2 DEF OtherDevice, device, TypeOK
  <2>2. \A t \in Line : AsBefore(t)
    BY <1>2, OtherDeviceTo DEF Kept, AsBefore
  <2>3. QED
    BY <2>1, <2>2, OnceKept DEF Once, UnsentSame
<1>3. CASE LeavesGoal
  <2>1. chat' = chat /\ kept' = kept /\ chat \in Chat
    BY <1>3 DEF LeavesGoal, server, device, TypeOK
  <2>2. \A t \in Line : AsBefore(t)
    BY <1>3, LeavesGoalTo DEF Kept, AsBefore
  <2>3. QED
    BY <2>1, <2>2, OnceKept DEF Once, UnsentSame
<1>4. CASE UNCHANGED vars
  <2>1. chat' = chat /\ kept' = kept /\ call' = call /\ chat \in Chat
    BY <1>4 DEF vars, server, device, TypeOK
  <2>2. \A t \in Line : AsBefore(t)
    BY <2>1, SameAsBefore
  <2>3. QED
    BY <2>1, <2>2, OnceKept DEF Once, UnsentSame
<1>5. QED
  BY <1>1, <1>2, <1>3, <1>4, StudentOnce, ServerOnce, DeviceOnce DEF Next

-----------------------------------------------------------------------------
(* Paged.                                                                  *)

\* A call that brings the page nothing new to send, like or load.
NoMore(t) ==
    \/ call'[t].op \notin {"send", "like", "chat"}
    \/ /\ call'[t].op = call[t].op /\ call'[t].arg = call[t].arg
       /\ call'[t].heard => call[t].heard
       /\ call'[t].mounted => call[t].mounted

LEMMA BeforeNoMore ==
    ASSUME NEW t \in Line, AsBefore(t)
    PROVE  NoMore(t)
BY DEF AsBefore, NoMore, Over

LEMMA PagedKept ==
    ASSUME Paged, chat'.page = chat.page, chat'.shown = chat.shown, torn \subseteq torn', \A t \in Line : NoMore(t),
           \A t \in Line : Wanted(t, "send") /\ call[t].arg \in liked' => call[t].arg \in liked
    PROVE  Paged'
<1>1. ASSUME NEW t \in Line
      PROVE  /\ Wanted(t, "send")' => Wanted(t, "send") /\ call'[t].arg = call[t].arg
             /\ Wanted(t, "like")' => Wanted(t, "like") /\ call'[t].arg = call[t].arg
             /\ Wanted(t, "chat")' => Wanted(t, "chat")
             /\ call'[t].op = "like" => call[t].op = "like" /\ call'[t].arg = call[t].arg
  BY DEF NoMore, Wanted
<1>2. ASSUME NEW t \in Line
      PROVE  PagedCall(t)'
  <2>1. PagedCall(t)
    BY DEF Paged
  <2>2. Wanted(t, "send")' \/ Wanted(t, "like")' => chat'.page = "shown"
    BY <1>1, <2>1 DEF PagedCall
  <2>3. Wanted(t, "like")' => call'[t].arg \in chat'.shown
    BY <1>1, <2>1 DEF PagedCall
  <2>4. Wanted(t, "chat")' =>
          chat'.page = "loading" /\ \A s \in Line : call'[s].op = "like" => call'[s].arg \in torn'
    BY <1>1, <2>1 DEF PagedCall
  <2>5. Wanted(t, "send")' =>
          call'[t].arg \notin chat'.shown \cup liked' /\ \A s \in Line : call'[s].op = "like" => call'[s].arg # call'[t].arg
    BY <1>1, <2>1 DEF PagedCall
  <2>6. QED
    BY <2>2, <2>3, <2>4, <2>5 DEF PagedCall
<1>3. QED
  BY <1>2 DEF Paged

\* A page on which nothing is waited for.
LEMMA NobodyPaged ==
    ASSUME \A t \in Line : ~Wanted(t, "send")' /\ ~Wanted(t, "like")' /\ ~Wanted(t, "chat")'
    PROVE  Paged'
BY DEF Paged, PagedCall

LEMMA StudentPaged ==
    ASSUME TypeOK, Lines, Once, Paged, NEW s \in Slot, Student(s)
    PROVE  Paged'
<1>1. s \in Line /\ kept' = kept /\ liked' = liked /\ call[s].op = "idle"
  BY StudentKeeps, StudentReady DEF Line
<1>2. CASE RebuildsGoals(s) /\ ReloadGoals(s)
  <2>1. chat' = chat /\ torn' = torn
    BY <1>2 DEF ReloadGoals, device
  <2>2. ASSUME NEW t \in Line
        PROVE  NoMore(t)
    BY <1>2 DEF RebuildsGoals, Rebuilt, Begun, Kept, NoMore, TypeOK, Call
  <2>3. QED
    BY <1>1, <2>1, <2>2, PagedKept
<1>3. CASE Launch(s)
  <2>1. \A t \in Line : ~Wanted(t, "send")' /\ ~Wanted(t, "like")' /\ ~Wanted(t, "chat")'
    BY <1>1, <1>3, LaunchTo DEF Begun, Over, Unheard, Wanted
  <2>2. QED
    BY <2>1, NobodyPaged
<1>4. ASSUME NEW g \in Goal, SetActive(s, g) \/ Delete(s, g)
      PROVE  Paged'
  <2>1. chat' = chat /\ torn' = torn
    BY <1>4 DEF SetActive, Delete, device
  <2>2. call'[s].op \in Mutating /\ \A t \in Line : t # s => AsBefore(t)
    BY <1>1, <1>4, SetActiveTo, DeleteTo, SameAsBefore DEF Began, Begun, OthersSame, Mutating
  <2>3. \A t \in Line : NoMore(t)
    BY <2>2, BeforeNoMore DEF NoMore, Mutating
  <2>4. QED
    BY <1>1, <2>1, <2>3, PagedKept
<1>5. ASSUME NEW e \in Exchange, Like(s, e)
      PROVE  Paged'
  <2>1. chat'.shown = chat.shown /\ chat'.page = chat.page /\ e \in chat.shown /\ chat.page = "shown"
    BY <1>1, <1>5, LikeTaps
  <2>2. /\ call'[s].op = "like" /\ call'[s].arg = e
        /\ \A t \in Line : t # s => call'[t] = call[t]
    BY <1>1, <1>5, LikeTo DEF Began, Begun, OthersSame
  <2>3. ASSUME NEW t \in Line
        PROVE  PagedCall(t)'
    <3>1. CASE t = s
      BY <2>1, <2>2, <3>1 DEF PagedCall, Wanted
    <3>2. CASE t # s
      <4>1. call'[t] = call[t] /\ PagedCall(t)
        BY <2>2, <3>2 DEF Paged
      <4>2. Wanted(t, "send")' => Wanted(t, "send") /\ call[t].arg # e
        BY <2>1, <4>1 DEF PagedCall, Wanted
      <4>3. ~Wanted(t, "chat")'
        BY <2>1, <4>1 DEF PagedCall, Wanted
      <4>4. \A r \in Line : call'[r].op = "like" => call'[r].arg = e \/ (call[r].op = "like" /\ call'[r].arg = call[r].arg)
        BY <2>2
      <4>5. QED
        BY <1>1, <2>1, <4>1, <4>2, <4>3, <4>4 DEF PagedCall, Wanted
    <3>3. QED
      BY <3>1, <3>2
  <2>4. QED
    BY <2>3 DEF Paged
<1>6. ASSUME NEW e \in Exchange, Send(s, e)
      PROVE  Paged'
  <2>1. chat'.shown = chat.shown /\ chat'.page = chat.page /\ chat.page = "shown" /\ torn' = torn
    BY <1>1, <1>6, SendTaps DEF Send
  <2>2. /\ call'[s].op = "send" /\ call'[s].arg = e
        /\ \A t \in Line : t # s => call'[t] = call[t]
    BY <1>1, <1>6, SendTo DEF Began, Begun, OthersSame
  <2>3. e \notin chat.shown /\ e \notin liked /\ \A t \in Line : call[t].op = "like" => call[t].arg # e
    <3>1. kept[e] = "unsent" /\ "unsent" \notin live
      BY <1>6, UnsentAssumption DEF Send, TypeOK
    <3>2. QED
      BY <3>1 DEF Once, OnceCall, TypeOK
  <2>4. \A r \in Line : call'[r].op = "like" => call[r].op = "like" /\ call'[r].arg = call[r].arg
    BY <2>2
  <2>5. ASSUME NEW t \in Line
        PROVE  PagedCall(t)'
    <3>1. CASE t = s
      BY <1>1, <2>1, <2>2, <2>3, <2>4, <3>1 DEF PagedCall, Wanted
    <3>2. CASE t # s
      <4>1. call'[t] = call[t] /\ PagedCall(t)
        BY <2>2, <3>2 DEF Paged
      <4>2. QED
        BY <1>1, <2>1, <2>4, <4>1 DEF PagedCall, Wanted
    <3>3. QED
      BY <3>1, <3>2
  <2>6. QED
    BY <2>5 DEF Paged
<1>7. QED
  BY <1>1, <1>2, <1>3, <1>4, <1>5, <1>6, ReloadGoalsTo DEF Student, RebuildsGoals

LEMMA BuildPaged ==
    ASSUME TypeOK, Lines, Build
    PROVE  Paged'
<1>1. RebuildsChat
  BY BuildTo DEF RebuildsChat
<1>2. chat'.page = "loading" /\ torn' = {e \in Exchange : Liking(e) # {}}
  BY BlankTyped DEF Build, TypeOK
<1>3. ASSUME NEW t \in Line
      PROVE  ~Wanted(t, "send")' /\ ~Wanted(t, "like")'
  BY <1>1, RebuildsChatTo DEF Wanted
<1>4. ASSUME NEW t \in Line, call'[t].op = "like"
      PROVE  call'[t].arg \in torn'
  <2>1. call[t].op = "like" /\ call'[t].arg = call[t].arg
    BY <1>1, <1>4, RebuildsChatTo DEF AsBefore, Over
  <2>2. call[t].arg \in Exchange /\ t \in Liking(call[t].arg)
    BY <2>1 DEF Lines, Liking, Under
  <2>3. QED
    BY <1>2, <2>1, <2>2
<1>5. QED
  BY <1>2, <1>3, <1>4 DEF Paged, PagedCall

LEMMA ServerPaged ==
    ASSUME TypeOK, Lines, Paged, NEW s \in Line, Server(s)
    PROVE  Paged'
<1>1. chat' = chat /\ torn' = torn
  BY DEF Server, ListGoals, SetActiveGoal, DeleteGoal, ListMessages, LikeMessage, SendMessage, StoreReply,
         NeverArrives, server, device, history
<1>2. ASSUME NEW t \in Line
      PROVE  NoMore(t)
  <2>1. CASE t # s
    BY <2>1, ServerDoes, OthersAsBefore, BeforeNoMore DEF Answered, Thinks, Ended
  <2>2. CASE t = s
    BY <2>2, ServerDoes DEF Answered, Replied, Over, Thinks, Ended, NoMore
  <2>3. QED
    BY <2>1, <2>2
<1>3. ASSUME NEW t \in Line, Wanted(t, "send"), call[t].arg \in liked'
      PROVE  call[t].arg \in liked
  <2>1. CASE LikeMessage(s)
    <3>1. call[s].op = "like" /\ liked' \subseteq liked \cup {call[s].arg}
      BY <2>1 DEF LikeMessage, Arrived
    <3>2. call[s].arg # call[t].arg
      BY <1>3, <3>1 DEF Paged, PagedCall
    <3>3. QED
      BY <1>3, <3>1, <3>2
  <2>2. CASE ~LikeMessage(s)
    <3>1. liked' \subseteq liked
      BY <2>2 DEF Server, ListGoals, SetActiveGoal, DeleteGoal, ListMessages, SendMessage, StoreReply,
         NeverArrives, server
    <3>2. QED
      BY <1>3, <3>1
  <2>3. QED
    BY <2>1, <2>2
<1>4. QED
  BY <1>1, <1>2, <1>3, PagedKept

LEMMA DevicePaged ==
    ASSUME TypeOK, Lines, Once, Paged, NEW s \in Line, Device(s)
    PROVE  Paged'
<1>1. liked' = liked
  BY DeviceKeeps
<1>2. ASSUME NEW t \in Line
      PROVE  NoMore(t)
  BY DeviceCalls, BeforeNoMore DEF NoMore
<1>3. ASSUME chat'.page = chat.page, chat'.shown = chat.shown, torn \subseteq torn'
      PROVE  Paged'
  BY <1>1, <1>2, <1>3, PagedKept
<1>4. call[s].answer.ok \in BOOLEAN /\ (call[s].op \in {"send", "like"} => call[s].arg \in Exchange) /\ chat \in Chat
  BY DEF TypeOK, Call, Lines
<1>5. CASE HeardSetActive(s) \/ HeardDelete(s) \/ HeardGoals(s) \/ HeardLaunch(s)
  BY <1>3, <1>5 DEF HeardSetActive, HeardDelete, HeardGoals, HeardLaunch, history
\* Nothing else was waited for while the page was loading.
<1>6. ASSUME Wanted(s, "chat"), ~Wanted(s, "chat")'
      PROVE  Paged'
  <2>1. chat.page = "loading"
    BY <1>6 DEF Paged, PagedCall
  <2>2. \A t \in Line : ~Wanted(t, "send") /\ ~Wanted(t, "like")
    BY <2>1 DEF Paged, PagedCall
  <2>3. \A t \in Line : t # s => call[t].op # "chat"
    BY <1>6 DEF Lines, Line, Wanted
  <2>4. \A t \in Line : ~Wanted(t, "send")' /\ ~Wanted(t, "like")' /\ ~Wanted(t, "chat")'
    BY <1>2, <1>6, <2>2, <2>3 DEF NoMore, Wanted
  <2>5. QED
    BY <2>4, NobodyPaged
<1>7. CASE HeardChat(s)
  <2>1. Wanted(s, "chat")
    BY <1>7 DEF HeardChat, Hears, Lines, Wanted
  <2>2. ~Wanted(s, "chat")'
    BY <1>7, HeardTo DEF Ended, Over, Wanted
  <2>3. QED
    BY <1>6, <2>1, <2>2
<1>8. CASE HeardSend(s)
  <2>1. call[s].op = "send" /\ Sent(s, call[s].answer.ok) /\ torn' = torn
    BY <1>8 DEF HeardSend, Hears, Ok, history
  <2>2. chat'.page = chat.page /\ chat'.shown \subseteq chat.shown \cup {call[s].arg} /\ chat.shown \subseteq chat'.shown
    BY <1>4, <2>1, SentTo
  <2>3. ASSUME NEW t \in Line
        PROVE  PagedCall(t)'
    <3>1. /\ Wanted(t, "send")' => Wanted(t, "send") /\ call'[t].arg = call[t].arg
          /\ Wanted(t, "like")' => Wanted(t, "like") /\ call'[t].arg = call[t].arg
          /\ Wanted(t, "chat")' => Wanted(t, "chat")
      BY <1>2 DEF NoMore, Wanted
    <3>2. \A r \in Line : call'[r].op = "like" => call[r].op = "like" /\ call'[r].arg = call[r].arg
      BY <1>2 DEF NoMore
    <3>3. Wanted(t, "send")' => call[t].arg # call[s].arg
      <4>1. t = s => ~Wanted(t, "send")'
        BY <1>8, HeardTo DEF Ended, Over, Wanted
      <4>2. QED
        BY <2>1, <3>1, <4>1 DEF Once, Wanted
    <3>4. PagedCall(t)
      BY DEF Paged
    <3>5. Wanted(t, "send")' =>
            call'[t].arg \notin chat'.shown \cup liked' /\ \A r \in Line : call'[r].op = "like" => call'[r].arg # call'[t].arg
      BY <1>1, <2>2, <3>1, <3>2, <3>3, <3>4 DEF PagedCall
    <3>6. Wanted(t, "chat")' =>
            chat'.page = "loading" /\ \A r \in Line : call'[r].op = "like" => call'[r].arg \in torn'
      BY <2>1, <2>2, <3>1, <3>2, <3>4 DEF PagedCall
    <3>7. QED
      BY <2>2, <3>1, <3>4, <3>5, <3>6 DEF PagedCall
  <2>4. QED
    BY <2>3 DEF Paged
<1>9. CASE HeardLike(s)
  <2>1. call[s].op = "like" /\ Liked(s, call[s].answer.ok) /\ torn \subseteq torn'
    BY <1>9 DEF HeardLike, Hears, Ok
  <2>2. QED
    BY <1>3, <1>4, <2>1, LikedTo
<1>10. CASE GivesUp(s)
  <2>1. torn \subseteq torn'
    BY <1>10 DEF GivesUp
  <2>2. CASE call[s].op = "send"
    BY <1>3, <1>4, <1>10, <2>1, <2>2, SentTo DEF GivesUp
  <2>3. CASE call[s].op = "like"
    BY <1>3, <1>4, <1>10, <2>1, <2>3, LikedTo DEF GivesUp
  <2>4. CASE call[s].op = "chat" /\ call[s].mounted
    <3>1. Wanted(s, "chat")
      BY <1>10, <2>4 DEF GivesUp, Wanted
    <3>2. ~Wanted(s, "chat")'
      BY <1>10, GivesUpTo DEF Ended, Over, Unheard, Wanted
    <3>3. QED
      BY <1>6, <3>1, <3>2
  <2>5. CASE call[s].op \notin {"send", "like"} /\ ~(call[s].op = "chat" /\ call[s].mounted)
    <3>1. chat' = chat
      BY <1>10, <2>5 DEF GivesUp
    <3>2. QED
      BY <1>3, <2>1, <3>1
  <2>6. QED
    BY <2>2, <2>3, <2>4, <2>5
<1>11. QED
  BY <1>5, <1>7, <1>8, <1>9, <1>10 DEF Device

LEMMA PagedStep == IInv /\ [Next]_vars => Paged'
<1> SUFFICES ASSUME TypeOK, Lines, Once, Paged, [Next]_vars PROVE Paged'
  BY DEF IInv
<1>1. ASSUME NEW g \in Goal, OtherDevice(g)
      PROVE  Paged'
  <2>1. chat' = chat /\ torn' = torn /\ liked' = liked
    BY <1>1 DEF OtherDevice, device
  <2>2. \A t \in Line : NoMore(t)
    BY <1>1, OtherDeviceTo DEF Kept, NoMore
  <2>3. QED
    BY <2>1, <2>2, PagedKept
<1>2. CASE LeavesGoal
  <2>1. chat' = chat /\ torn' = torn /\ liked' = liked
    BY <1>2 DEF LeavesGoal, server, device
  <2>2. \A t \in Line : NoMore(t)
    BY <1>2, LeavesGoalTo DEF Kept, NoMore
  <2>3. QED
    BY <2>1, <2>2, PagedKept
<1>3. CASE UNCHANGED vars
  <2>1. chat' = chat /\ torn' = torn /\ liked' = liked /\ call' = call
    BY <1>3 DEF vars, server, device, history
  <2>2. \A t \in Line : NoMore(t)
    BY <2>1 DEF NoMore
  <2>3. QED
    BY <2>1, <2>2, PagedKept
<1>4. QED
  BY <1>1, <1>2, <1>3, StudentPaged, BuildPaged, ServerPaged, DevicePaged DEF Next

-----------------------------------------------------------------------------
(* Hearts.                                                                 *)

\* A step that does nothing to a call as a like of the exchange.
LikeSame(t, e) ==
    /\ call'[t].op = "like" /\ call'[t].arg = e <=> call[t].op = "like" /\ call[t].arg = e
    /\ call[t].op = "like" /\ call[t].arg = e =>
          /\ call'[t].to = call[t].to /\ call'[t].stage = call[t].stage /\ call'[t].heard = call[t].heard
          /\ call'[t].mounted = call[t].mounted /\ call'[t].answer = call[t].answer

LEMMA HeartKept ==
    ASSUME NEW e \in Exchange, HeartOf(e), \A t \in Line : LikeSame(t, e),
           e \in chat'.hearts <=> e \in chat.hearts, e \in liked' <=> e \in liked
    PROVE  HeartOf(e)'
<1>1. Settled(e)' => (e \in chat'.hearts <=> e \in liked')
  BY DEF Settled, LikeSame, HeartOf
<1>2. \A t, s \in Line : call'[t].op = "like" /\ call'[s].op = "like" /\ call'[t].arg = e /\ call'[s].arg = e => s = t
  BY DEF LikeSame, HeartOf
<1>3. ASSUME NEW t \in Line, call'[t].op = "like" /\ call'[t].arg = e
      PROVE  /\ call'[t].heard /\ call'[t].mounted
             /\ call'[t].stage = "sent" => (e \in liked' <=> ~call'[t].to)
             /\ call'[t].stage = "served" => (e \in liked' <=> (call'[t].to <=> call'[t].answer.ok))
  BY <1>3 DEF LikeSame, HeartOf
<1>4. QED
  BY <1>1, <1>2, <1>3 DEF HeartOf

\* With no like of it under way, the heart is what is stored.
LEMMA HeartSettled ==
    ASSUME NEW e \in Exchange, \A t \in Line : call'[t].op = "like" => call'[t].arg # e,
           e \in chat'.hearts <=> e \in liked'
    PROVE  HeartOf(e)'
BY DEF HeartOf

\* What may change of the likes is of torn exchanges, or of deleted ones.
LEMMA ListKept ==
    ASSUME TypeOK, NEW t \in Line, ListOf(t), AsBefore(t),
           \A e \in Exchange : e \notin torn' /\ kept'[e] # None =>
              e \notin torn /\ kept[e] # None /\ (e \in liked' <=> e \in liked)
    PROVE  ListOf(t)'
<1>1. CASE Over(t)
  BY <1>1 DEF Over, ListOf, Wanted
<1>2. CASE ~Over(t)
  <2>1. /\ call'[t].op = call[t].op /\ call'[t].stage = call[t].stage /\ call'[t].answer = call[t].answer
        /\ call'[t].heard => call[t].heard
        /\ call'[t].mounted => call[t].mounted
    BY <1>2 DEF AsBefore
  <2>2. call[t].answer.lists \subseteq Exchange
    BY DEF TypeOK, Call
  <2>3. QED
    BY <2>1, <2>2 DEF ListOf, Wanted
<1>3. QED
  BY <1>1, <1>2

LEMMA NotListed ==
    ASSUME NEW t \in Line, ~(Wanted(t, "chat")' /\ call'[t].stage = "served")
    PROVE  ListOf(t)'
BY DEF ListOf

LEMMA OthersLikeSame ==
    ASSUME NEW s \in Line, OthersKept(s) \/ OthersSame(s), NEW t \in Line, t # s, NEW e
    PROVE  LikeSame(t, e)
BY DEF OthersKept, OthersSame, Kept, LikeSame

\* A provider of goals built again touches no like.
LEMMA GoalsLikeSame ==
    ASSUME NEW s \in Line, RebuildsGoals(s), call[s].op # "like", NEW t \in Line, NEW e
    PROVE  LikeSame(t, e)
<1>1. CASE t = s
  BY <1>1 DEF RebuildsGoals, Rebuilt, Begun, LikeSame
<1>2. CASE t # s
  BY <1>2 DEF RebuildsGoals, Rebuilt, Kept, LikeSame
<1>3. QED
  BY <1>1, <1>2

LEMMA StudentHearts ==
    ASSUME TypeOK, Lines, Paged, Hearts, NEW s \in Slot, Student(s)
    PROVE  Hearts'
<1>1. s \in Line /\ kept' = kept /\ liked' = liked /\ call[s].op = "idle" /\ chat \in Chat /\ chat.shown \subseteq Exchange
  BY StudentKeeps, StudentReady DEF Line, TypeOK, Chat
<1>2. CASE RebuildsGoals(s) /\ ReloadGoals(s)
  <2>1. chat' = chat /\ torn' = torn
    BY <1>2 DEF ReloadGoals, device
  <2>2. \A t \in Line, e \in Exchange : LikeSame(t, e)
    BY <1>1, <1>2, GoalsLikeSame
  <2>3. ASSUME NEW t \in Line
        PROVE  ListOf(t)'
    <3>1. AsBefore(t) \/ call'[t].op = "goals"
      BY <1>2 DEF RebuildsGoals, Rebuilt, Begun, Kept, AsBefore, TypeOK, Call
    <3>2. QED
      BY <1>1, <2>1, <3>1, ListKept, NotListed DEF Hearts, Wanted
  <2>4. QED
    BY <1>1, <2>1, <2>2, <2>3, HeartKept DEF Hearts
<1>3. CASE Launch(s)
  <2>1. chat'.shown = {}
    BY <1>3, BlankTyped DEF Launch, TypeOK
  <2>2. \A t \in Line : ~Wanted(t, "chat")'
    BY <1>1, <1>3, LaunchTo DEF Begun, Over, Unheard, Wanted
  <2>3. QED
    BY <2>1, <2>2, NotListed DEF Hearts
<1>4. ASSUME NEW op \in {"setActive", "delete", "send"}, NEW arg \in Goal \cup Exchange, Began(s, op, arg, TRUE) \/ Began(s, op, arg, FALSE),
             chat'.shown = chat.shown, chat'.hearts = chat.hearts, torn' = torn
      PROVE  Hearts'
  <2>1. call'[s].op = op /\ OthersSame(s)
    BY <1>4 DEF Began, Begun
  <2>2. ASSUME NEW t \in Line
        PROVE  ListOf(t)' /\ \A e \in Exchange : LikeSame(t, e)
    <3>1. CASE t = s
      BY <1>1, <2>1, <3>1, NotListed DEF LikeSame, Wanted
    <3>2. CASE t # s
      <4>1. AsBefore(t)
        BY <1>1, <2>1, <3>2, OthersAsBefore
      <4>2. QED
        BY <1>1, <1>4, <2>1, <3>2, <4>1, ListKept, OthersLikeSame DEF Hearts
    <3>3. QED
      BY <3>1, <3>2
  <2>3. QED
    BY <1>1, <1>4, <2>2, HeartKept DEF Hearts
<1>5. ASSUME NEW g \in Goal, SetActive(s, g) \/ Delete(s, g)
      PROVE  Hearts'
  <2>1. chat' = chat /\ torn' = torn
    BY <1>5 DEF SetActive, Delete, device
  <2>2. \E op \in {"setActive", "delete"} : Began(s, op, g, TRUE) \/ Began(s, op, g, FALSE)
    BY <1>1, <1>5, SetActiveTo, DeleteTo
  <2>3. QED
    BY <1>4, <2>1, <2>2
<1>6. ASSUME NEW e \in Exchange, Send(s, e)
      PROVE  Hearts'
  <2>1. chat'.shown = chat.shown /\ chat'.hearts = chat.hearts /\ torn' = torn
    BY <1>1, <1>6, SendTaps DEF Send
  <2>2. QED
    BY <1>1, <1>4, <1>6, <2>1, SendTo
<1>7. ASSUME NEW e \in Exchange, Like(s, e)
      PROVE  Hearts'
  <2>1. /\ chat'.shown = chat.shown /\ e \in chat.shown /\ chat.page = "shown"
        /\ e \in chat.hearts => chat'.hearts = chat.hearts \ {e}
        /\ e \notin chat.hearts => chat'.hearts = chat.hearts \cup {e}
    BY <1>1, <1>7, LikeTaps
  <2>2. Began(s, "like", e, e \notin chat.hearts)
    BY <1>1, <1>7, LikeTo
  <2>3. /\ call'[s].op = "like" /\ call'[s].arg = e /\ (call'[s].to <=> e \notin chat.hearts)
        /\ call'[s].stage = "sent" /\ call'[s].heard /\ call'[s].mounted
        /\ \A t \in Line : t # s => call'[t] = call[t]
    BY <2>2 DEF Began, Begun, OthersSame
  <2>4. torn \subseteq torn' /\ (e \notin torn' => e \notin torn /\ \A t \in Line : call[t].op = "like" => call[t].arg # e)
    BY <1>7 DEF Like, Liking, Under
  <2>5. ASSUME NEW t \in Line
        PROVE  ListOf(t)'
    <3>1. ~Wanted(t, "chat")'
      <4>1. CASE t = s
        BY <2>3, <4>1 DEF Wanted
      <4>2. CASE t # s
        BY <2>1, <2>3, <4>2 DEF Paged, PagedCall, Wanted
      <4>3. QED
        BY <4>1, <4>2
    <3>2. QED
      BY <3>1, NotListed
  <2>6. ASSUME e \notin torn', kept[e] # None
        PROVE  HeartOf(e)'
    <3>1. e \in chat.hearts <=> e \in liked
      BY <2>1, <2>4, <2>6 DEF Hearts, HeartOf, Settled
    <3>2. \A t \in Line : call'[t].op = "like" /\ call'[t].arg = e => t = s
      BY <2>3, <2>4, <2>6
    <3>3. ~Settled(e)'
      BY <1>1, <2>3 DEF Settled
    <3>4. QED
      BY <1>1, <2>3, <3>1, <3>2, <3>3 DEF HeartOf
  <2>7. ASSUME NEW d \in chat.shown, d # e, d \notin torn', kept[d] # None
        PROVE  HeartOf(d)'
    <3>1. HeartOf(d) /\ d \in Exchange
      BY <1>1, <2>4, <2>7 DEF Hearts
    <3>2. d \in chat'.hearts <=> d \in chat.hearts
      BY <2>1, <2>7
    <3>3. \A t \in Line : LikeSame(t, d)
      BY <1>1, <2>3, <2>7 DEF LikeSame
    <3>4. QED
      BY <1>1, <3>1, <3>2, <3>3, HeartKept
  <2>8. QED
    BY <1>1, <2>1, <2>5, <2>6, <2>7 DEF Hearts
<1>8. QED
  BY <1>1, <1>2, <1>3, <1>5, <1>6, <1>7, ReloadGoalsTo DEF Student, RebuildsGoals

LEMMA ServerHearts ==
    ASSUME TypeOK, Lines, Once, Paged, Hearts, NEW s \in Line, Server(s)
    PROVE  Hearts'
<1>1. chat' = chat /\ torn' = torn /\ chat.shown \subseteq Exchange
  BY DEF Server, ListGoals, SetActiveGoal, DeleteGoal, ListMessages, LikeMessage, SendMessage, StoreReply,
         NeverArrives, server, device, history, TypeOK, Chat
<1>2. ASSUME NEW t \in Line, t # s
      PROVE  AsBefore(t) /\ \A e \in Exchange : LikeSame(t, e)
  BY <1>2, ServerDoes, OthersAsBefore, OthersLikeSame DEF Answered, Thinks, Ended
<1>3. call'[s].op \in {"idle", call[s].op}
  BY ServerDoes DEF Answered, Replied, Over, Thinks, Ended
<1>4. CASE LikeMessage(s)
  <2>1. PICK ok \in BOOLEAN : (ok <=> call[s].arg \in Page(current)) /\ Answered(s, ok)
    BY <1>4, LikeMessageTo
  <2>2. call[s].op = "like" /\ call[s].stage = "sent" /\ call[s].arg \in Exchange /\ kept' = kept
    BY <1>4 DEF LikeMessage, Arrived, Lines
  <2>3. /\ ok => (call[s].arg \in liked' <=> call[s].to)
        /\ ~ok => (call[s].arg \in liked' <=> call[s].arg \in liked)
        /\ \A e \in Exchange : e # call[s].arg => (e \in liked' <=> e \in liked)
    BY <1>4, <2>1, <2>2 DEF LikeMessage
  <2>4. ASSUME NEW t \in Line
        PROVE  ListOf(t)'
    <3>1. CASE t = s \/ ~Wanted(t, "chat")
      <4>1. ~Wanted(t, "chat")'
        BY <1>2, <1>3, <2>2, <3>1 DEF AsBefore, Over, Wanted
      <4>2. QED
        BY <4>1, NotListed
    <3>2. CASE t # s /\ Wanted(t, "chat")
      <4>1. call[s].arg \in torn
        BY <2>2, <3>2 DEF Paged, PagedCall
      <4>2. AsBefore(t) /\ ListOf(t)
        BY <1>2, <3>2 DEF Hearts
      <4>3. QED
        BY <1>1, <2>2, <2>3, <4>1, <4>2, ListKept
    <3>3. QED
      BY <3>1, <3>2
  <2>5. ASSUME NEW e \in chat.shown, e \notin torn, kept[e] # None
        PROVE  HeartOf(e)'
    <3>1. HeartOf(e) /\ e \in Exchange
      BY <1>1, <2>5 DEF Hearts
    <3>2. CASE e # call[s].arg
      <4>1. LikeSame(s, e)
        <5>1. call'[s].op = "like" => call'[s].arg = call[s].arg
          BY <2>1 DEF Answered, Replied, Over
        <5>2. QED
          BY <3>2, <5>1 DEF LikeSame
      <4>2. QED
        BY <1>1, <1>2, <2>3, <3>1, <3>2, <4>1, HeartKept
    <3>3. CASE e = call[s].arg
      <4>1. call[s].heard /\ call[s].mounted /\ (e \in liked <=> ~call[s].to)
        BY <2>2, <3>1, <3>3 DEF HeartOf
      <4>2. /\ call'[s].op = "like" /\ call'[s].arg = e /\ call'[s].to = call[s].to
            /\ call'[s].stage = "served" /\ call'[s].heard /\ call'[s].mounted /\ call'[s].answer.ok = ok
        BY <2>1, <2>2, <3>3, <4>1 DEF Answered, Replied
      <4>3. e \in liked' <=> (call[s].to <=> ok)
        BY <2>3, <3>3, <4>1
      <4>4. \A t \in Line : call'[t].op = "like" /\ call'[t].arg = e => t = s
        BY <1>2, <2>2, <3>1, <3>3 DEF LikeSame, HeartOf
      <4>5. ~Settled(e)'
        BY <4>2 DEF Settled
      <4>6. QED
        BY <4>2, <4>3, <4>4, <4>5 DEF HeartOf
    <3>4. QED
      BY <3>2, <3>3
  <2>6. QED
    BY <1>1, <2>2, <2>4, <2>5 DEF Hearts
\* Otherwise an exchange keeps its like while it is not deleted.
<1>5. CASE ~LikeMessage(s)
  <2>1. ASSUME NEW e \in Exchange, kept'[e] # None
        PROVE  kept[e] # None /\ (e \in liked' <=> e \in liked)
    <3>1. CASE DeleteGoal(s)
      <4>1. \/ kept' = kept /\ liked' = liked
            \/ /\ kept' = [d \in Exchange |-> IF kept[d] = call[s].arg THEN None ELSE kept[d]]
               /\ liked' = {d \in liked : kept[d] # call[s].arg}
        BY <3>1 DEF DeleteGoal, server
      <4>2. QED
        BY <2>1, <4>1
    <3>2. CASE StoreReply(s)
      <4>1. call[s].op = "send" /\ call[s].stage = "thinking" /\ liked' = liked
        BY <3>2 DEF StoreReply, Lines
      <4>2. kept' = kept \/ kept' = [kept EXCEPT ![call[s].arg] = call[s].goal]
        BY <3>2 DEF StoreReply
      <4>3. kept[call[s].arg] # None
        BY <4>1, UnsentAssumption DEF Once, OnceCall
      <4>4. QED
        BY <2>1, <4>1, <4>2, <4>3 DEF TypeOK
    <3>3. CASE ~DeleteGoal(s) /\ ~StoreReply(s)
      BY <1>5, <2>1, <3>3 DEF Server, ListGoals, SetActiveGoal, ListMessages, SendMessage, NeverArrives, server
    <3>4. QED
      BY <3>1, <3>2, <3>3
  <2>2. ASSUME NEW e \in Exchange
        PROVE  LikeSame(s, e) \/ ~(e \in chat.shown /\ e \notin torn /\ kept[e] # None)
    <3>1. CASE call[s].op # "like"
      BY <1>3, <3>1 DEF LikeSame
    <3>2. CASE call[s].op = "like"
      <4>1. NeverArrives(s)
        BY <1>5, <3>2 DEF Server, ListGoals, SetActiveGoal, DeleteGoal, ListMessages, SendMessage, StoreReply, Arrived, Lines
      <4>2. ~call[s].heard /\ call'[s].op = "idle"
        BY <4>1, NeverArrivesTo DEF NeverArrives, Ended, Over
      <4>3. CASE call[s].arg = e
        BY <3>2, <4>2, <4>3 DEF Hearts, HeartOf
      <4>4. CASE call[s].arg # e
        BY <4>2, <4>4 DEF LikeSame
      <4>5. QED
        BY <4>3, <4>4
    <3>3. QED
      BY <3>1, <3>2
  <2>3. ASSUME NEW e \in chat.shown, e \notin torn, kept'[e] # None
        PROVE  HeartOf(e)'
    <3>1. e \in Exchange /\ kept[e] # None /\ (e \in liked' <=> e \in liked)
      BY <1>1, <2>1, <2>3
    <3>2. HeartOf(e) /\ LikeSame(s, e)
      BY <2>2, <2>3, <3>1 DEF Hearts
    <3>3. QED
      BY <1>1, <1>2, <3>1, <3>2, HeartKept
  <2>4. ListOf(s)'
    <3>1. CASE ListMessages(s)
      <4>1. liked' = liked
        BY <3>1 DEF ListMessages, server
      <4>2. \/ Over(s)
            \/ call'[s].answer.lists = Page(current) /\ call'[s].answer.hearts = liked \cap Page(current)
        BY <3>1, ListMessagesTo DEF Answered
      <4>3. QED
        BY <4>1, <4>2 DEF ListOf, Over, Wanted
    <3>2. CASE NeverArrives(s)
      BY <3>2, NeverArrivesTo DEF Ended, Over, ListOf, Wanted
    <3>3. CASE ~ListMessages(s) /\ ~NeverArrives(s)
      <4>1. call[s].op # "chat"
        BY <1>5, <3>3 DEF Server, ListGoals, SetActiveGoal, DeleteGoal, SendMessage, StoreReply, Arrived, Lines
      <4>2. QED
        BY <1>3, <4>1 DEF ListOf, Wanted
    <3>4. QED
      BY <3>1, <3>2, <3>3
  <2>5. ASSUME NEW t \in Line, t # s
        PROVE  ListOf(t)'
    BY <1>1, <1>2, <2>1, <2>5, ListKept DEF Hearts
  <2>6. QED
    BY <1>1, <2>3, <2>4, <2>5 DEF Hearts
<1>6. QED
  BY <1>4, <1>5

LEMMA DeviceHearts ==
    ASSUME TypeOK, Lines, Once, Paged, Hearts, NEW s \in Line, Device(s)
    PROVE  Hearts'
<1>1. /\ kept' = kept /\ liked' = liked /\ chat \in Chat /\ chat.shown \subseteq Exchange /\ chat.hearts \subseteq chat.shown
      /\ call[s].answer.ok \in BOOLEAN /\ (call[s].op \in {"send", "like"} => call[s].arg \in Exchange)
  BY DeviceKeeps DEF TypeOK, Call, Chat, Lines
<1>2. ASSUME torn \subseteq torn', NEW t \in Line
      PROVE  ListOf(t)'
  <2>1. AsBefore(t) \/ call'[t].op = "goals"
    BY DeviceCalls
  <2>2. QED
    BY <1>1, <1>2, <2>1, ListKept, NotListed DEF Hearts, Wanted
<1>3. ASSUME NEW t \in Line, t # s
      PROVE  /\ \A e : LikeSame(t, e)
             /\ call'[t].op = "like" => call[t].op = "like" /\ call'[t].arg = call[t].arg
  BY <1>3, DeviceDoes, OthersLikeSame
     DEF Ended, Unheard, OthersSame, RebuildsGoals, Rebuilt, Begun, Kept, LikeSame
<1>4. ASSUME call[s].op # "like"
      PROVE  call'[s].op # "like"
  BY <1>4, DeviceDoes DEF Ended, Over, Unheard, RebuildsGoals, Rebuilt, Begun
\* A step that is about no like.
<1>5. ASSUME call[s].op # "like", torn' = torn, chat'.shown = chat.shown, chat'.hearts = chat.hearts
      PROVE  Hearts'
  <2>1. \A t \in Line, e \in Exchange : LikeSame(t, e)
    BY <1>3, <1>4, <1>5 DEF LikeSame
  <2>2. QED
    BY <1>1, <1>2, <1>5, <2>1, HeartKept DEF Hearts
<1>6. CASE HeardSetActive(s) \/ HeardDelete(s) \/ HeardGoals(s) \/ HeardLaunch(s)
  <2>1. chat' = chat /\ torn' = torn /\ call[s].op # "like"
    BY <1>6 DEF HeardSetActive, HeardDelete, HeardGoals, HeardLaunch, Hears, history
  <2>2. QED
    BY <1>5, <2>1
<1>7. CASE HeardChat(s)
  <2>1. Wanted(s, "chat") /\ call[s].stage = "served" /\ torn' = torn
    BY <1>7 DEF HeardChat, Hears, Lines, Wanted, history
  <2>2. chat'.shown = call[s].answer.lists /\ chat'.hearts = call[s].answer.hearts /\ chat'.shown \subseteq Exchange
    BY <1>7, <2>1, HeardChatTo DEF Wanted, Chat
  <2>3. ASSUME NEW e \in chat'.shown, e \notin torn, kept[e] # None
        PROVE  HeartOf(e)'
    <3>1. e \in chat'.hearts <=> e \in liked'
      BY <1>1, <2>1, <2>2, <2>3 DEF Hearts, ListOf
    <3>2. \A t \in Line : call[t].op = "like" => call[t].arg # e
      BY <2>1, <2>3 DEF Paged, PagedCall
    <3>3. \A t \in Line : call'[t].op = "like" => call'[t].arg # e
      BY <1>3, <1>4, <2>1, <3>2 DEF Wanted
    <3>4. QED
      BY <2>2, <3>1, <3>3, HeartSettled
  <2>4. QED
    BY <1>1, <1>2, <2>1, <2>3 DEF Hearts
<1>8. CASE HeardSend(s)
  <2>1. Wanted(s, "send") \/ ~call[s].mounted
    BY <1>8 DEF HeardSend, Hears, Lines, Wanted
  <2>2. call[s].op = "send" /\ Sent(s, call[s].answer.ok) /\ torn' = torn
    BY <1>8 DEF HeardSend, Hears, Ok, history
  <2>3. /\ chat'.hearts = chat.hearts
        /\ StillCurrent(s) /\ call[s].answer.ok => chat'.shown = chat.shown \cup {call[s].arg}
        /\ ~(StillCurrent(s) /\ call[s].answer.ok) => chat'.shown = chat.shown
    BY <1>1, <2>2, SentTo
  <2>4. CASE ~(StillCurrent(s) /\ call[s].answer.ok)
    BY <1>5, <2>2, <2>3, <2>4
  <2>5. CASE StillCurrent(s) /\ call[s].answer.ok
    <3>1. /\ call[s].arg \notin chat.shown \cup liked
          /\ \A t \in Line : call[t].op = "like" => call[t].arg # call[s].arg
      BY <2>1, <2>5 DEF Paged, PagedCall, StillCurrent
    <3>2. ASSUME NEW e, e = call[s].arg
          PROVE  HeartOf(e)'
      BY <1>1, <1>3, <1>4, <2>2, <2>3, <3>1, <3>2, HeartSettled
    <3>3. ASSUME NEW e \in chat.shown, e \notin torn, kept[e] # None
          PROVE  HeartOf(e)'
      <4>1. HeartOf(e) /\ e \in Exchange
        BY <1>1, <3>3 DEF Hearts
      <4>2. \A t \in Line : LikeSame(t, e)
        BY <1>3, <1>4, <2>2 DEF LikeSame
      <4>3. QED
        BY <1>1, <2>3, <4>1, <4>2, HeartKept
    <3>4. QED
      BY <1>1, <1>2, <2>2, <2>3, <2>5, <3>2, <3>3 DEF Hearts
  <2>6. QED
    BY <2>4, <2>5
\* A like that is over is of no other exchange.
<1>9. ASSUME NEW ok \in BOOLEAN, call[s].op = "like", Liked(s, ok), torn \subseteq torn',
             call'[s].op = "like" => call'[s].arg = call[s].arg,
             \A e \in chat.shown : e = call[s].arg /\ e \notin torn' /\ kept[e] # None => HeartOf(e)'
      PROVE  Hearts'
  <2>1. /\ chat'.shown = chat.shown
        /\ \A e \in Exchange : e # call[s].arg => (e \in chat'.hearts <=> e \in chat.hearts)
    BY <1>1, <1>9, LikedTo
  <2>2. ASSUME NEW e \in chat.shown, e # call[s].arg, e \notin torn, kept[e] # None
        PROVE  HeartOf(e)'
    <3>1. HeartOf(e) /\ e \in Exchange
      BY <1>1, <2>2 DEF Hearts
    <3>2. \A t \in Line : LikeSame(t, e)
      BY <1>3, <1>9, <2>2 DEF LikeSame
    <3>3. QED
      BY <1>1, <2>1, <2>2, <3>1, <3>2, HeartKept
  <2>3. QED
    BY <1>1, <1>2, <1>9, <2>1, <2>2 DEF Hearts
<1>10. CASE HeardLike(s)
  <2>1. /\ call[s].op = "like" /\ call[s].stage = "served" /\ Liked(s, call[s].answer.ok)
        /\ torn' = IF call[s].mounted /\ active # chat.goal THEN torn \cup {call[s].arg} ELSE torn
    BY <1>10 DEF HeardLike, Hears, Ok
  <2>2. call'[s].op = "idle"
    BY <1>10, HeardTo DEF Ended, Over
  <2>3. ASSUME NEW e \in chat.shown, e = call[s].arg, e \notin torn', kept[e] # None
        PROVE  HeartOf(e)'
    <3>1. HeartOf(e)
      BY <2>1, <2>3 DEF Hearts
    <3>2. call[s].mounted /\ (e \in liked <=> (call[s].to <=> call[s].answer.ok))
      BY <2>1, <2>3, <3>1 DEF HeartOf
    <3>3. StillCurrent(s)
      BY <2>1, <2>3, <3>2 DEF StillCurrent
    <3>4. e \in chat'.hearts <=> e \in liked'
      <4>1. /\ (call[s].to <=> call[s].answer.ok) => chat'.hearts = chat.hearts \cup {e}
            /\ ~(call[s].to <=> call[s].answer.ok) => chat'.hearts = chat.hearts \ {e}
        BY <1>1, <2>1, <2>3, <3>3, LikedTo
      <4>2. QED
        BY <1>1, <3>2, <4>1
    <3>5. \A t \in Line : call'[t].op = "like" => call'[t].arg # e
      BY <1>3, <2>1, <2>2, <2>3, <3>1 DEF HeartOf
    <3>6. QED
      BY <1>1, <3>4, <3>5, HeartSettled
  <2>4. QED
    BY <1>1, <1>9, <2>1, <2>2, <2>3
<1>11. CASE GivesUp(s)
  <2>1. torn' = IF call[s].op = "like" THEN torn \cup {call[s].arg} ELSE torn
    BY <1>11 DEF GivesUp
  <2>2. CASE call[s].op = "send"
    <3>1. Sent(s, FALSE)
      BY <1>11, <2>2 DEF GivesUp
    <3>2. chat'.shown = chat.shown /\ chat'.hearts = chat.hearts
      BY <1>1, <2>2, <3>1, SentTo
    <3>3. QED
      BY <1>5, <2>1, <2>2, <3>2
  <2>3. CASE call[s].op = "like"
    <3>1. Liked(s, FALSE) /\ call[s].arg \in torn' /\ torn \subseteq torn'
      BY <1>11, <2>1, <2>3 DEF GivesUp
    <3>2. call'[s].op = "like" => call'[s].arg = call[s].arg
      BY <1>11, GivesUpTo DEF Ended, Over, Unheard
    <3>3. QED
      BY <1>9, <2>3, <3>1, <3>2
  <2>4. CASE call[s].op \notin {"send", "like"}
    <3>1. chat' = [chat EXCEPT !.page = "failed"] \/ chat' = chat
      BY <1>11, <2>4 DEF GivesUp
    <3>2. chat'.shown = chat.shown /\ chat'.hearts = chat.hearts
      BY <1>1, <3>1, FailedTyped
    <3>3. QED
      BY <1>5, <2>1, <2>4, <3>2
  <2>5. QED
    BY <2>2, <2>3, <2>4
<1>12. QED
  BY <1>6, <1>7, <1>8, <1>10, <1>11 DEF Device

LEMMA HeartsStep == IInv /\ [Next]_vars => Hearts'
<1> SUFFICES ASSUME TypeOK, Lines, Once, Paged, Hearts, [Next]_vars PROVE Hearts'
  BY DEF IInv
<1>1. CASE Build
  <2>1. chat'.shown = {}
    BY <1>1, BlankTyped DEF Build, TypeOK
  <2>2. RebuildsChat
    BY <1>1, BuildTo DEF RebuildsChat
  <2>3. \A t \in Line : ~(Wanted(t, "chat")' /\ call'[t].stage = "served")
    BY <2>2, RebuildsChatTo DEF Wanted
  <2>4. QED
    BY <2>1, <2>3, NotListed DEF Hearts
<1>2. ASSUME chat' = chat, torn' = torn, liked' = liked, kept' = kept,
             \A t \in Line : /\ Kept(t) /\ (call'[t].mounted => call[t].mounted)
                             /\ call[t].op = "like" => call'[t].mounted = call[t].mounted
      PROVE  Hearts'
  <2>1. chat.shown \subseteq Exchange
    BY DEF TypeOK, Chat
  <2>2. ASSUME NEW t \in Line, NEW e \in Exchange
        PROVE  LikeSame(t, e)
    <3>1. Kept(t) /\ (call[t].op = "like" => call'[t].mounted = call[t].mounted)
      BY <1>2
    <3>2. QED
      BY <3>1 DEF Kept, LikeSame
  <2>3. ASSUME NEW t \in Line
        PROVE  AsBefore(t)
    <3>1. Kept(t) /\ (call'[t].mounted => call[t].mounted)
      BY <1>2
    <3>2. QED
      BY <3>1 DEF Kept, AsBefore
  <2>4. \A t \in Line : ListOf(t)'
    BY <1>2, <2>3, ListKept DEF Hearts
  <2>5. QED
    BY <1>2, <2>1, <2>2, <2>4, HeartKept DEF Hearts
<1>3. ASSUME NEW g \in Goal, OtherDevice(g)
      PROVE  Hearts'
  BY <1>2, <1>3, OtherDeviceTo DEF OtherDevice, device
<1>4. CASE LeavesGoal
  BY <1>2, <1>4, LeavesGoalTo DEF LeavesGoal, server, device, Mutating
<1>5. CASE UNCHANGED vars
  BY <1>2, <1>5 DEF vars, server, device, history, Kept
<1>6. QED
  BY <1>1, <1>3, <1>4, <1>5, StudentHearts, ServerHearts, DeviceHearts DEF Next

-----------------------------------------------------------------------------
(* What holds at first, and the theorems.                                  *)

LEMMA InitIInv == Init => IInv
<1> SUFFICES ASSUME Init PROVE IInv
  OBVIOUS
<1>1. TypeOK
  BY TypeInit
<1>2. \A t \in Line : /\ call[t].op = "idle" /\ call[t].stage = "sent" /\ call[t].heard /\ call[t].mounted
  BY IdleTyped DEF Init
<1>3. chat.goal = First /\ chat.shown = {} /\ active = First /\ current = First
  <2>1. chat = [Blank(First) EXCEPT !.page = "shown"] /\ Blank(First) \in Chat
        /\ Blank(First).goal = First /\ Blank(First).shown = {}
    BY BlankTyped, FirstAssumption DEF Init
  <2>2. QED
    BY <2>1 DEF Init, Chat
<1>4. Lines
  BY <1>2, LineAssumption DEF Lines, Line, Mutating
<1>5. Alone /\ Say
  BY <1>2 DEF Alone, Listing, Say, Told
<1>6. Agree
  BY <1>2, <1>3 DEF Agree, Even, Mutating, Told
<1>7. Chats
  BY <1>2, <1>3 DEF Chats, Own, OwnCall, Wanted
<1>8. Once
  BY <1>2, <1>3 DEF Once, OnceCall
<1>9. Paged
  BY <1>2 DEF Paged, PagedCall, Wanted
<1>10. Hearts
  BY <1>2, <1>3 DEF Hearts, ListOf, Wanted
<1>11. QED
  BY <1>1, <1>4, <1>5, <1>6, <1>7, <1>8, <1>9, <1>10 DEF IInv

\* Every state the app and the server reach together is one of the argument's:
\* what is under way says what may still be stale (active_goal.dart:11-15,
\* tutor_controller.dart:56-144, goals.py, tutor.py).
THEOREM Inductive == Spec => []IInv
<1>1. Init => IInv
  BY InitIInv
<1>2. IInv /\ [Next]_vars => IInv'
  BY TypeStep, LinesStep, AloneStep, SayStep, AgreeStep, ChatsStep, OnceStep, PagedStep, HeartsStep DEF IInv
<1>3. QED
  BY <1>1, <1>2, PTL DEF Spec

\* Types, and that nothing is stored under a goal that was deleted.
THEOREM TypeCorrect == Spec => []TypeOK
<1>1. IInv => TypeOK
  BY DEF IInv
<1>2. QED
  BY <1>1, Inductive, PTL

\* With nothing under way there is no change to hear of, so a device that is not
\* behind agrees with the server on the active goal (active_goal.dart:38-47).
THEOREM QuietAgrees == Spec => []DeviceAgrees
<1>1. IInv => DeviceAgrees
  BY DEF IInv, Agree, Even, DeviceAgrees, Quiet, Changed, Mutating
<1>2. QED
  BY <1>1, Inductive, PTL

\* The chat on screen is the active goal's, and shows that goal's exchanges.
THEOREM ChatOfTheActive == Spec => []RepliesOnTheirGoal
<1>1. IInv => RepliesOnTheirGoal
  BY DEF IInv, Chats, Own, RepliesOnTheirGoal
<1>2. QED
  BY <1>1, Inductive, PTL

\* A heart with no like of it under way is what the server stores.
THEOREM HeartsSettle == Spec => []LikeSettles
<1>1. IInv => LikeSettles
  <2> SUFFICES ASSUME IInv, NEW e \in chat.shown, Liking(e) = {}, e \notin torn, kept[e] # None
               PROVE  e \in chat.hearts <=> e \in liked
    BY DEF LikeSettles
  <2>1. Settled(e)
    BY DEF Settled, Liking, Under
  <2>2. QED
    BY <2>1 DEF IInv, Hearts, HeartOf
<1>2. QED
  BY <1>1, Inductive, PTL

=============================================================================
