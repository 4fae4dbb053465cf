-------------------------------- MODULE Lease --------------------------------
(***************************************************************************)
(* What a Redis lock with a TTL promises, without keys, tokens and timers: *)
(* it is given to one client while it is free, its holder may give it      *)
(* back, and it may run out under its holder.  A client that leaves after  *)
(* its lease ran out does not take the lease of the next holder with it.   *)
(***************************************************************************)
CONSTANTS
    Clients,
    Free     \* no client

VARIABLES
    holder,  \* the client the lease belongs to
    inside   \* clients that took the lease and have not left

Init == holder = Free /\ inside = {}

Take(c) ==
    /\ holder = Free /\ c \notin inside
    /\ holder' = c
    /\ inside' = inside \cup {c}

Leave(c) ==
    /\ c \in inside
    /\ inside' = inside \ {c}
    /\ holder' = IF holder = c THEN Free ELSE holder

\* A client that dies leaves the lease behind.
Abandon(c) ==
    /\ c \in inside
    /\ inside' = inside \ {c}
    /\ UNCHANGED holder

RunOut ==
    /\ holder # Free
    /\ holder' = Free
    /\ UNCHANGED inside

Next ==
    \/ \E c \in Clients : Take(c) \/ Leave(c) \/ Abandon(c)
    \/ RunOut

Spec == Init /\ [][Next]_<<holder, inside>>
=============================================================================
