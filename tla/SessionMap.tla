----------------------------- MODULE SessionMap -----------------------------
(***************************************************************************)
(* What the session store promises: each call takes effect at once, at some*)
(* instant between the call and its answer; an error of the caller changes *)
(* nothing, and after a failure of the file system it is open whether the  *)
(* change was made.  A change that has been confirmed survives the death of*)
(* the process and the loss of power.                                      *)
(***************************************************************************)
EXTENDS SessionRecords

CONSTANT Tasks

VARIABLES
    sessions,  \* the map
    past,      \* the maps that a loss of power may leave behind
    call,      \* the operation each task waits for
    answer,    \* its answer, from when it has taken effect
    settled    \* its effect has become permanent

vars == <<sessions, past, call, answer, settled>>

Init ==
    /\ sessions \in Maps
    /\ past = {sessions}
    /\ call = [t \in Tasks |-> None]
    /\ answer = [t \in Tasks |-> None]
    /\ settled = [t \in Tasks |-> FALSE]

Call(t) ==
    /\ call[t] = None
    /\ call'[t] \in Operation
    /\ call' = [call EXCEPT ![t] = call'[t]]
    /\ UNCHANGED <<sessions, past, answer, settled>>

Perform(t) ==
    /\ call[t] # None /\ answer[t] = None
    /\ sessions' = After(call[t], sessions)
    /\ past' = past \cup {sessions'}
    /\ answer' = [answer EXCEPT ![t] = Reply(call[t], sessions)]
    /\ UNCHANGED <<call, settled>>

Confirmed(t) == answer[t].status = "ok" /\ call[t].kind \in Mutations

Settle(t) ==
    /\ answer[t] # None
    /\ past' = {sessions}
    /\ settled' = [settled EXCEPT ![t] = Confirmed(t)]
    /\ UNCHANGED <<sessions, call, answer>>

Fail(t) ==
    /\ call[t] # None
    /\ answer' = [answer EXCEPT ![t] = Failure]
    /\ UNCHANGED <<sessions, past, call, settled>>

\* The calls of the tasks T are over.
Ends(T) ==
    /\ call' = [t \in Tasks |-> IF t \in T THEN None ELSE call[t]]
    /\ answer' = [t \in Tasks |-> IF t \in T THEN None ELSE answer[t]]
    /\ settled' = [t \in Tasks |-> IF t \in T THEN FALSE ELSE settled[t]]

Return(t) ==
    /\ answer[t] # None
    /\ Confirmed(t) => settled[t]
    /\ Ends({t})
    /\ UNCHANGED <<sessions, past>>

\* The client has hung up, or the process has died.
Vanish(T) ==
    /\ Ends(T)
    /\ UNCHANGED <<sessions, past>>

LosePower ==
    /\ sessions' \in past
    /\ past' = {sessions'}
    /\ Ends(Tasks)

Next ==
    \/ \E t \in Tasks :
          \/ Call(t) \/ Perform(t) \/ Settle(t) \/ Fail(t) \/ Return(t)
    \/ \E T \in SUBSET Tasks : Vanish(T)
    \/ LosePower

Spec == Init /\ [][Next]_vars
=============================================================================
