-------------------------- MODULE ResponsesProtocol -------------------------
(***************************************************************************)
(* What a client of a streaming /v1/responses call is promised             *)
(* (src/src/server.rs), said without upstreams, lines or buffers: output   *)
(* items announced in the order of their positions, each filled piece by   *)
(* piece, then closed and done, and at the end one outcome for all of them.*)
(***************************************************************************)
EXTENDS Naturals, Sequences

CONSTANTS
    Ids,    \* the items' ids
    Pieces  \* the pieces their contents are made of

VARIABLES
    items,   \* the items announced so far, by position
    outcome  \* how the response stands

Fresh(id) == [id |-> id, content |-> <<>>, status |-> "growing"]

Init == items = <<>> /\ outcome = "open"

Announce(id) ==
    /\ \A i \in DOMAIN items : items[i].id # id
    /\ items' = Append(items, Fresh(id))

Grow(i, piece) ==
    /\ items[i].status = "growing"
    /\ items' = [items EXCEPT ![i].content = Append(@, piece)]

\* The content is repeated in full, and is what its pieces amount to.
Seal(i) ==
    /\ items[i].status = "growing"
    /\ items' = [items EXCEPT ![i].status = "closed"]

Settle(i) ==
    /\ items[i].status = "closed"
    /\ items' = [items EXCEPT ![i].status = "done"]

\* The response is repeated in full: every item of it, all of them done.
Complete ==
    /\ items # <<>> /\ \A i \in DOMAIN items : items[i].status = "done"
    /\ outcome' = "completed"
    /\ UNCHANGED items

Fail == outcome' = "failed" /\ UNCHANGED items

Next ==
    /\ outcome = "open"
    /\ \/ /\ \/ \E id \in Ids : Announce(id)
             \/ \E i \in DOMAIN items :
                   (\E piece \in Pieces : Grow(i, piece)) \/ Seal(i) \/ Settle(i)
          /\ UNCHANGED outcome
       \/ Complete \/ Fail

Spec == Init /\ [][Next]_<<items, outcome>>
=============================================================================
