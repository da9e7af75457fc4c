--------------------------- MODULE SessionFamily ----------------------------
(***************************************************************************)
(* What token rotation promises, with no transactions in it: a sign-in has *)
(* at most one current token; using it replaces it; a token once spent     *)
(* never comes back; and a session that has ended has no current token     *)
(* ever again.                                                             *)
(***************************************************************************)
EXTENDS Integers

CONSTANTS Family, Depth

VARIABLES
    current,    \* current[f]: the tokens of f that still refresh it
    spent,      \* spent[f]: those that were replaced or revoked
    gone        \* sign-ins of accounts that were deleted

session == <<current, spent, gone>>

Init == /\ current = [f \in Family |-> {}]
        /\ spent = [f \in Family |-> {}]
        /\ gone = {}

Open(f) == /\ current[f] = {} /\ spent[f] = {} /\ f \notin gone
           /\ current' = [current EXCEPT ![f] = {0}]
           /\ UNCHANGED <<spent, gone>>

Rotate(f, d) == /\ current[f] = {d}
                /\ current' = [current EXCEPT ![f] = {d + 1}]
                /\ spent' = [spent EXCEPT ![f] = @ \cup {d}]
                /\ UNCHANGED gone

\* A replay or a logout: whatever was current is spent, and nothing replaces it.
Close(f) == /\ current' = [current EXCEPT ![f] = {}]
            /\ spent' = [spent EXCEPT ![f] = @ \cup current[f]]
            /\ UNCHANGED gone

\* Deleting an account forgets all its sessions at once.
Forget(F) == /\ current' = [f \in Family |-> IF f \in F THEN {} ELSE current[f]]
             /\ spent' = [f \in Family |-> IF f \in F THEN {} ELSE spent[f]]
             /\ gone' = gone \cup F

Next == \/ \E f \in Family : Open(f) \/ Close(f)
        \/ \E f \in Family, d \in Depth : Rotate(f, d)
        \/ \E F \in SUBSET Family : Forget(F)

Spec == Init /\ [][Next]_session
=============================================================================
