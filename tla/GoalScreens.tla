---------------------------- MODULE GoalScreens -----------------------------
(***************************************************************************)
(* The app's copy of the active goal, the goals list and the chat with the *)
(* tutor, against the server they are a view of.                           *)
(*                                                                         *)
(* students.current_goal_id is the server's; ActiveGoal is the one copy of *)
(* it on the device, written from whatever answer was heard last.  The     *)
(* chat follows it: when it changes, TutorController is built again on the *)
(* next frame, and until then an answer may land on the chat of the goal   *)
(* that was left.  Calls overlap, are answered in any order, and are given *)
(* up by the app while the server still carries them out; another device   *)
(* may choose another goal, and the app may be started anew at any moment. *)
(*                                                                         *)
(* The chat has one page, and the session is taken as alive: SessionClient *)
(* has the sign-outs.                                                      *)
(***************************************************************************)
EXTENDS Naturals, FiniteSets

CONSTANTS
    Goal,
    Exchange,   \* BOUND: the messages he may send, with their replies
    None,
    First,      \* the goal that is active at first
    Slot,       \* BOUND: calls under way at once
    MaxFaults   \* BOUND: calls the app gives up, restarts of it, goals that another
                \* device makes active, and screens left before their answer

ASSUME FirstAssumption == First \in Goal /\ None \notin Goal
ASSUME UnsentAssumption == "unsent" \notin Goal \cup {None}
ASSUME LineAssumption == "page" \notin Slot
ASSUME FaultsAssumption == MaxFaults \in Nat

\* The calls under way: one per slot, and the chat's page, whose load before it
\* is as good as forgotten.
Line == Slot \cup {"page"}

VARIABLES
    live,     \* his goals
    current,  \* students.current_goal_id
    kept,     \* the goal an exchange is stored under, None once deleted, or "unsent"
    liked,    \* the exchanges stored with a like
    active,   \* ActiveGoal, and the stored copy a launch reads
    listed,   \* the goal marked active in the last list he was shown
    chat,     \* TutorController: its goal, what it shows, the hearts, a pending bubble
    stale,    \* is the controller to be built again on the next frame?
    call,
    behind,   \* may the device's word be older than the server's?
    torn,     \* exchanges whose likes overlapped, or whose answer the chat never took
    astray,   \* since the chat was built, was it served as another goal's, or tapped
              \* before its frame?
    faults

server == <<live, current, kept, liked>>
device == <<active, listed, chat, stale>>
history == <<behind, torn, astray>>
vars == <<server, device, call, history, faults>>

Nothing == [ok |-> FALSE, active |-> None, lists |-> {}, hearts |-> {}]
Idle == [op |-> "idle", arg |-> None, to |-> FALSE, goal |-> None, stage |-> "sent",
         heard |-> TRUE, mounted |-> TRUE, late |-> FALSE, answer |-> Nothing]
Under(op) == {s \in Line : call[s].op = op}
Liking(e) == {s \in Under("like") : call[s].arg = e}
Blank(g) == [goal |-> g, page |-> "loading", shown |-> {}, hearts |-> {}, sending |-> FALSE]
Quiet == \A s \in Line : call[s].op = "idle"

Init ==
    /\ live = Goal
    /\ current = First
    /\ kept = [e \in Exchange |-> "unsent"] /\ liked = {}
    /\ active = First /\ listed = First
    /\ chat = [Blank(First) EXCEPT !.page = "shown"]
    /\ stale = FALSE
    /\ call = [s \in Line |-> Idle]
    /\ behind = FALSE /\ torn = {} /\ astray = FALSE
    /\ faults = 0

-----------------------------------------------------------------------------
(* What the student does.  While the app starts he sees the splash. *)

Ready(s) == call[s].op = "idle" /\ \A t \in Slot : call[t].op # "launch"
Calls(s, op, arg, to) ==
    call' = [call EXCEPT ![s] = [Idle EXCEPT !.op = op, !.arg = arg, !.to = to]]

\* Builds a provider again: whatever its earlier builds still wait for is
\* unmounted.
Rebuilds(s, ops, op) ==
    call' = [t \in Line |-> IF t = s THEN [Idle EXCEPT !.op = op]
                            ELSE IF call[t].op \in ops /\ call[t].heard THEN [call[t] EXCEPT !.mounted = FALSE]
                            ELSE call[t]]

Mutating == {"setActive", "delete"}

\* Is an action waited for on its goal's screen, or was that screen left?
Busy == \E t \in Line : call[t].op \in Mutating /\ call[t].heard /\ call[t].mounted
Abandoned == \E t \in Line : call[t].op \in Mutating /\ call[t].heard /\ ~call[t].mounted

\* The goals list is opened, or pulled down.
ReloadGoals(s) ==
    /\ Ready(s)
    /\ Rebuilds(s, {"goals"}, "goals")
    /\ behind' = (behind \/ Abandoned)
    /\ UNCHANGED <<server, device, torn, astray, faults>>

\* GoalActions.setActive, offered for a goal the list does not mark active, on
\* a screen whose buttons wait for the action before.
SetActive(s, g) ==
    /\ Ready(s) /\ listed \notin {"unread", g} /\ ~Busy
    /\ Calls(s, "setActive", g, FALSE)
    /\ behind' = (behind \/ Abandoned)
    /\ UNCHANGED <<server, device, torn, astray, faults>>

\* GoalActions.delete: whether the goal is the active one is the list's word.
\* BOUND: a goal is deleted once, and one at a time.
Delete(s, g) ==
    /\ Ready(s) /\ listed # "unread" /\ g \in live /\ Under("delete") = {} /\ ~Busy
    /\ Calls(s, "delete", g, listed = g)
    /\ behind' = (behind \/ Abandoned \/ (listed = g /\ active # g))
    /\ UNCHANGED <<server, device, torn, astray, faults>>

\* He goes back to the list before the goal's screen heard of its action:
\* nothing watches goalActions then, and the ref it would reload by is gone.
LeavesGoal ==
    /\ Busy /\ faults < MaxFaults
    /\ faults' = faults + 1
    /\ call' = [t \in Line |-> IF call[t].op \in Mutating THEN [call[t] EXCEPT !.mounted = FALSE] ELSE call[t]]
    /\ behind' = (behind \/ \E t \in Under("goals") : call[t].mounted)
    /\ UNCHANGED <<server, device, torn, astray>>

\* A write to the chat, which cancels a rebuild that waits for its frame.
Writes(c) == chat' = c /\ stale' = FALSE
Taps(c) == Writes(c) /\ astray' = (astray \/ stale)

\* TutorController.send: one message at a time.
Send(s, e) ==
    /\ Ready(s) /\ chat.page = "shown" /\ ~chat.sending
    /\ kept[e] = "unsent" /\ \A t \in Under("send") : call[t].arg # e
    /\ Taps([chat EXCEPT !.sending = TRUE])
    /\ Calls(s, "send", e, FALSE)
    /\ UNCHANGED <<server, active, listed, behind, torn, faults>>

\* With the heart of an exchange full, or empty.
Hearted(c, e, full) == [c EXCEPT !.hearts = IF full THEN @ \cup {e} ELSE @ \ {e}]

\* TutorController.setLike, the heart turned over at once.
Like(s, e) ==
    LET full == e \notin chat.hearts IN
    /\ Ready(s) /\ chat.page = "shown" /\ e \in chat.shown
    /\ Taps(Hearted(chat, e, full))
    /\ Calls(s, "like", e, full)
    /\ torn' = IF Liking(e) = {} THEN torn ELSE torn \cup {e}
    /\ UNCHANGED <<server, active, listed, behind, faults>>

\* TutorController.build, on the frame after the active goal changed, or when
\* he asks again for a page that failed.
Build ==
    /\ stale \/ chat.page = "failed"
    /\ Under("launch") = {}
    /\ chat' = Blank(active) /\ stale' = FALSE
    /\ Rebuilds("page", {"send", "like"}, "chat")
    /\ torn' = {e \in Exchange : Liking(e) # {}}
    /\ astray' = FALSE
    /\ UNCHANGED <<server, active, listed, behind, faults>>

\* The app is started anew: nothing of what it waited for is heard, and the
\* launch asks for the goals.  The screens are built when he comes to them.
Launch(s) ==
    /\ Ready(s) /\ faults < MaxFaults
    /\ faults' = faults + 1
    /\ call' = [t \in Line |-> IF t = s THEN [Idle EXCEPT !.op = "launch"]
                               ELSE IF call[t].stage = "served" \/ call[t].op \in {"idle", "chat", "goals"} THEN Idle
                               ELSE [call[t] EXCEPT !.heard = FALSE]]
    /\ chat' = Blank(active) /\ stale' = TRUE /\ astray' = FALSE
    /\ listed' = "unread"
    /\ behind' = (behind \/ \E t \in Line : call[t].op \in Mutating)
    /\ torn' = {}
    /\ UNCHANGED <<server, active>>

-----------------------------------------------------------------------------
(* The server *)

\* An answer on which goal is active, on its way.
Told(t) == call[t].op \in {"goals", "launch"} /\ call[t].stage = "served" /\ call[t].mounted

\* The handler of a call is over; an app that gave it up hears nothing.  What
\* was answered before a change of the active goal is late from then on.
Answers(s, answer) ==
    call' = [t \in Line |->
               IF t = s THEN IF call[s].heard THEN [call[s] EXCEPT !.stage = "served", !.answer = answer, !.goal = None]
                             ELSE Idle
               ELSE [call[t] EXCEPT !.late = @ \/ (Told(t) /\ current' # current)]]
Arrived(s, ops) == call[s].op \in ops /\ call[s].stage = "sent"
Done == [Nothing EXCEPT !.ok = TRUE]

\* get_owned_goal: his own goal, or 404.
Owned(g) == g \in live

\* get_active_goal: what students.current_goal_id names, or 404.
HasActive == current # None

\* list_by_goal.
Page(g) == {e \in Exchange : g # None /\ kept[e] = g}

\* list_goals: whether he has any, and which is active.
ListGoals(s) ==
    /\ Arrived(s, {"goals", "launch"})
    /\ UNCHANGED <<server, device, history, faults>>
    /\ Answers(s, [Nothing EXCEPT !.ok = live # {}, !.active = current])

\* set_active_goal.
SetActiveGoal(s) ==
    /\ Arrived(s, {"setActive"})
    /\ current' = IF Owned(call[s].arg) THEN call[s].arg ELSE current
    /\ Answers(s, [Nothing EXCEPT !.ok = Owned(call[s].arg)])
    /\ UNCHANGED <<live, kept, liked, device, history, faults>>

\* delete_goal, with its exchanges, and current_goal_id when it was this one.
DeleteGoal(s) ==
    LET g == call[s].arg IN
    /\ Arrived(s, {"delete"})
    /\ IF Owned(g)
       THEN /\ live' = live \ {g}
            /\ current' = IF current = g THEN None ELSE current
            /\ kept' = [e \in Exchange |-> IF kept[e] = g THEN None ELSE kept[e]]
            /\ liked' = {e \in liked : kept[e] # g}
       ELSE UNCHANGED server
    /\ Answers(s, [Nothing EXCEPT !.ok = Owned(g)])
    /\ UNCHANGED <<device, history, faults>>

\* The server serves the chat by the goal it holds active, which the call does
\* not name.
Serves(s) == astray' = (astray \/ (call[s].heard /\ call[s].mounted /\ current # chat.goal))

\* list_messages of the goal that is active now, or 404.
ListMessages(s) ==
    /\ Arrived(s, {"chat"})
    /\ Serves(s)
    /\ UNCHANGED <<server, device, behind, torn, faults>>
    /\ Answers(s, [ok |-> HasActive, active |-> None, lists |-> Page(current),
                   hearts |-> liked \cap Page(current)])

\* like_message: an exchange outside the goal that is active now is 404.
LikeMessage(s) ==
    LET e == call[s].arg
        found == e \in Page(current)
    IN  /\ Arrived(s, {"like"})
        /\ liked' = IF ~found THEN liked ELSE IF call[s].to THEN liked \cup {e} ELSE liked \ {e}
        /\ UNCHANGED <<live, current, kept, device, history, faults>>
        /\ Answers(s, [Nothing EXCEPT !.ok = found])

\* send_message takes the goal that is active now, and calls Gemini.
SendMessage(s) ==
    /\ Arrived(s, {"send"})
    /\ Serves(s)
    /\ UNCHANGED <<server, device, behind, torn, faults>>
    /\ IF ~HasActive THEN Answers(s, Nothing)
       ELSE call' = [call EXCEPT ![s].stage = "thinking", ![s].goal = current]

\* The reply is stored under that goal, wherever the student went since; a
\* goal deleted meanwhile, or a Gemini that fails, is an error.
StoreReply(s) ==
    LET g == call[s].goal IN
    /\ call[s].stage = "thinking"
    /\ UNCHANGED <<live, current, liked, device, history, faults>>
    /\ \/ g \in live /\ kept' = [kept EXCEPT ![call[s].arg] = g] /\ Answers(s, Done)
       \/ UNCHANGED kept /\ Answers(s, Nothing)

\* A call the app gave up never reached the server.
NeverArrives(s) ==
    /\ call[s].op # "idle" /\ ~call[s].heard /\ call[s].stage = "sent"
    /\ call' = [call EXCEPT ![s] = Idle]
    /\ UNCHANGED <<server, device, history, faults>>

\* Another device of his makes a goal active.
OtherDevice(g) ==
    /\ faults < MaxFaults /\ g \in live /\ g # current
    /\ faults' = faults + 1
    /\ current' = g
    /\ behind' = TRUE
    /\ call' = [t \in Line |-> [call[t] EXCEPT !.late = @ \/ Told(t)]]
    /\ UNCHANGED <<live, kept, liked, device, torn, astray>>

-----------------------------------------------------------------------------
(* What the device makes of an answer *)

Hears(s, op) == call[s].op = op /\ call[s].stage = "served"
Ok(s) == call[s].answer.ok
Ends(s) == call' = [call EXCEPT ![s] = Idle]

\* ActiveGoal.set: what watches it is built again on the next frame.
Set(g) == active' = g /\ stale' = (stale \/ g # active)
Keeps == UNCHANGED <<active, stale>>

\* _refreshQuietly: the goals are asked for again after an action that went
\* through, and the list's earlier builds are unmounted; once the screen was
\* left that throws, which is swallowed.
Then(s) ==
    IF Ok(s) /\ call[s].mounted THEN Rebuilds(s, {"goals"}, "goals") ELSE Ends(s)

HeardSetActive(s) ==
    /\ Hears(s, "setActive")
    /\ IF Ok(s) THEN Set(call[s].arg) ELSE Keeps
    /\ Then(s)
    /\ UNCHANGED <<server, listed, chat, history, faults>>

HeardDelete(s) ==
    /\ Hears(s, "delete")
    /\ IF Ok(s) /\ (call[s].to \/ active = call[s].arg) THEN Set(None) ELSE Keeps
    /\ Then(s)
    /\ UNCHANGED <<server, listed, chat, history, faults>>

\* The word on the active goal that no change has overtaken, nor will.
Fresh(s) == ~call[s].late /\ \A t \in Line : call[t].op \notin Mutating

CatchesUp(s) ==
    /\ Set(call[s].answer.active)
    /\ behind' = (behind /\ ~Fresh(s))

\* FAULT: the answer of an earlier build is taken too.
HeardGoalsOfAnyBuild(s) ==
    /\ Hears(s, "goals")
    /\ CatchesUp(s) /\ listed' = call[s].answer.active
    /\ Ends(s)
    /\ UNCHANGED <<server, chat, torn, astray, faults>>

\* goalsListController, unless it was built again since.
HeardGoals(s) ==
    /\ Hears(s, "goals")
    /\ IF call[s].mounted
       THEN CatchesUp(s) /\ listed' = call[s].answer.active
       ELSE Keeps /\ UNCHANGED <<listed, behind>>
    /\ Ends(s)
    /\ UNCHANGED <<server, chat, torn, astray, faults>>

\* AppStartController: a student without goals is sent to create one, and the
\* goal the device remembers stays as it is.
HeardLaunch(s) ==
    /\ Hears(s, "launch")
    /\ IF Ok(s) THEN CatchesUp(s)
       ELSE behind' = (behind \/ active # None) /\ Keeps
    /\ Ends(s)
    /\ UNCHANGED <<server, listed, chat, torn, astray, faults>>

HeardChat(s) ==
    /\ Hears(s, "chat")
    /\ chat' = IF ~call[s].mounted THEN chat
               ELSE [chat EXCEPT !.page = IF Ok(s) THEN "shown" ELSE "noGoal",
                                 !.shown = call[s].answer.lists, !.hearts = call[s].answer.hearts]
    /\ Ends(s)
    /\ UNCHANGED <<server, active, listed, stale, history, faults>>

\* FAULT: an answer is taken as long as the controller is mounted.
StillMounted(s) == call[s].mounted

\* _stillCurrent: not once the controller was built again, nor once the goal
\* it was built for is not the active one.
StillCurrent(s) == call[s].mounted /\ active = chat.goal

\* The bubble becomes the exchange, or is marked failed.
Sent(s, ok) ==
    IF StillCurrent(s)
    THEN Writes([chat EXCEPT !.sending = FALSE, !.shown = IF ok THEN @ \cup {call[s].arg} ELSE @])
    ELSE UNCHANGED <<chat, stale>>

HeardSend(s) ==
    /\ Hears(s, "send")
    /\ Sent(s, Ok(s))
    /\ Ends(s)
    /\ UNCHANGED <<server, active, listed, history, faults>>

\* FAULT: a like that failed leaves the heart as it was tapped.
LikedKept(s, ok) ==
    IF StillCurrent(s) THEN Writes(Hearted(chat, call[s].arg, call[s].to)) ELSE UNCHANGED <<chat, stale>>

\* The heart as it was stored, or put back.
Liked(s, ok) ==
    IF StillCurrent(s) THEN Writes(Hearted(chat, call[s].arg, call[s].to = ok)) ELSE UNCHANGED <<chat, stale>>

HeardLike(s) ==
    /\ Hears(s, "like")
    /\ Liked(s, Ok(s))
    /\ Ends(s)
    /\ torn' = IF call[s].mounted /\ active # chat.goal THEN torn \cup {call[s].arg} ELSE torn
    /\ UNCHANGED <<server, active, listed, behind, astray, faults>>

\* The app hears no answer in time, or none at all: the server may still carry
\* the call out, or have done so.
GivesUp(s) ==
    /\ call[s].op # "idle" /\ call[s].heard /\ faults < MaxFaults
    /\ faults' = faults + 1
    /\ call' = [call EXCEPT ![s] = IF @.stage = "served" THEN Idle ELSE [@ EXCEPT !.heard = FALSE]]
    /\ CASE call[s].op = "send" -> Sent(s, FALSE)
         [] call[s].op = "like" -> Liked(s, FALSE)
         [] call[s].op = "chat" /\ call[s].mounted ->
              chat' = [chat EXCEPT !.page = "failed"] /\ UNCHANGED stale
         [] OTHER -> UNCHANGED <<chat, stale>>
    /\ behind' = (behind \/ call[s].op \in Mutating \cup {"goals", "launch"})
    /\ torn' = IF call[s].op = "like" THEN torn \cup {call[s].arg} ELSE torn
    /\ UNCHANGED <<server, active, listed, astray>>

-----------------------------------------------------------------------------
Student(s) ==
    \/ ReloadGoals(s) \/ Launch(s)
    \/ \E g \in Goal : SetActive(s, g) \/ Delete(s, g)
    \/ \E e \in Exchange : Send(s, e) \/ Like(s, e)

Server(s) ==
    \/ ListGoals(s) \/ SetActiveGoal(s) \/ DeleteGoal(s)
    \/ ListMessages(s) \/ LikeMessage(s) \/ SendMessage(s) \/ StoreReply(s)
    \/ NeverArrives(s)

Device(s) ==
    \/ HeardSetActive(s) \/ HeardDelete(s) \/ HeardGoals(s) \/ HeardLaunch(s)
    \/ HeardChat(s) \/ HeardSend(s) \/ HeardLike(s)
    \/ GivesUp(s)

Next ==
    \/ Build \/ LeavesGoal
    \/ \E s \in Slot : Student(s)
    \/ \E s \in Line : Server(s) \/ Device(s)
    \/ \E g \in Goal : OtherDevice(g)

Spec == Init /\ [][Next]_vars

-----------------------------------------------------------------------------
(* Properties *)

Call ==
    [op : {"idle", "goals", "setActive", "delete", "send", "like", "chat", "launch"},
     arg : Goal \cup Exchange \cup {None}, to : BOOLEAN, goal : Goal \cup {None},
     stage : {"sent", "thinking", "served"}, heard : BOOLEAN, mounted : BOOLEAN, late : BOOLEAN,
     answer : [ok : BOOLEAN, active : Goal \cup {None}, lists : SUBSET Exchange, hearts : SUBSET Exchange]]
Chat ==
    [goal : Goal \cup {None}, page : {"loading", "shown", "noGoal", "failed"},
     shown : SUBSET Exchange, hearts : SUBSET Exchange, sending : BOOLEAN]

\* Types, and that nothing is stored under a goal that was deleted.
TypeOK ==
    /\ live \subseteq Goal
    /\ current \in live \cup {None} /\ active \in Goal \cup {None}
    /\ listed \in Goal \cup {None, "unread"}
    /\ kept \in [Exchange -> live \cup {None, "unsent"}]
    /\ liked \subseteq {e \in Exchange : kept[e] \in live}
    /\ call \in [Line -> Call]
    /\ chat \in Chat /\ chat.hearts \subseteq chat.shown
    /\ stale \in BOOLEAN /\ behind \in BOOLEAN /\ astray \in BOOLEAN /\ torn \subseteq Exchange
    /\ faults \in 0 .. MaxFaults

\* With nothing under way, the goal the device holds active is the server's -
\* unless another device chose since, an action or a list was not heard of, or
\* the launch found no goals and kept the one it remembered; he deleted a goal
\* by a list older than the device's word; or he left the screen of an action
\* and began another, or had the list loaded, before its answer
\* (active_goal.dart:11-15, goal_actions.dart:32-59).
DeviceAgrees == ~behind /\ Quiet => active = current

\* The chat on screen is the active goal's from the frame that follows the
\* change on, and so is every exchange in it - unless the server served it by
\* another goal, or a tap fell before the frame (tutor_controller.dart:56-62).
RepliesOnTheirGoal ==
    ~stale /\ ~astray =>
        /\ chat.goal = active
        /\ \A e \in chat.shown : kept[e] \in {active, None}

\* With no like of it under way, an exchange's heart is what is stored - unless
\* two of its likes overlapped, the chat did not take the answer of one, or was
\* loaded while one was under way (tutor_controller.dart:124-144).
LikeSettles ==
    \A e \in chat.shown : Liking(e) = {} /\ e \notin torn /\ kept[e] # None =>
        (e \in chat.hearts <=> e \in liked)
=============================================================================
