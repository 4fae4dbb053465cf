---------------------------- MODULE SendContract ----------------------------
(***************************************************************************)
(* What send_wazzup_text_with_audit promises to its callers about one      *)
(* crm_message_id, without rows, retries and HTTP answers:                 *)
(* a caller goes to the provider only while nobody else is there; the      *)
(* message is delivered at most once; a caller is told that it is out only *)
(* when it is, in this call or an earlier one; a later call is suppressed  *)
(* only by a delivered message, and only the caller at the provider        *)
(* changes that.  A caller that is told of a failure knows nothing.        *)
(***************************************************************************)
CONSTANTS
    Callers,
    Nobody      \* no caller

VARIABLES
    delivered,  \* the provider has taken the message
    suppressed, \* a further call is answered without asking the provider
    holder,     \* the caller at the provider
    told        \* what each caller was told last: waiting, success or failure

vars == <<delivered, suppressed, holder, told>>

Init ==
    /\ delivered = FALSE /\ suppressed = FALSE /\ holder = Nobody
    /\ told = [c \in Callers |-> "waiting"]

Tell(c, answer) == told' = [told EXCEPT ![c] = answer]

Ask(c) ==
    /\ told[c] # "waiting" /\ Tell(c, "waiting")
    /\ UNCHANGED <<delivered, suppressed, holder>>

Skip(c) ==
    /\ told[c] = "waiting" /\ holder # c /\ suppressed
    /\ Tell(c, "success")
    /\ UNCHANGED <<delivered, suppressed, holder>>

Enter(c) ==
    /\ told[c] = "waiting" /\ holder = Nobody
    /\ holder' = c
    /\ UNCHANGED <<delivered, suppressed, told>>

Deliver(c) ==
    /\ holder = c /\ ~delivered
    /\ delivered' = TRUE
    /\ UNCHANGED <<suppressed, holder, told>>

Leave(c, answer) ==
    /\ holder = c /\ holder' = Nobody
    /\ suppressed' \in BOOLEAN /\ (suppressed' => delivered)
    /\ answer = "success" => suppressed'
    /\ Tell(c, answer)
    /\ UNCHANGED delivered

\* A caller that dies takes back what it wrote, not what the provider took.
GiveUp(c) ==
    /\ told[c] = "waiting" /\ Tell(c, "failure")
    /\ holder' = IF holder = c THEN Nobody ELSE holder
    /\ \/ UNCHANGED delivered
       \/ holder = c /\ ~delivered /\ delivered' = TRUE
    /\ UNCHANGED suppressed

Next ==
    \E c \in Callers :
       \/ Ask(c) \/ Skip(c) \/ Enter(c) \/ Deliver(c) \/ GiveUp(c)
       \/ \E answer \in {"success", "failure"} : Leave(c, answer)

Spec == Init /\ [][Next]_vars

\* What a caller may build on: whoever is told of success is told the truth.
Truthful == (suppressed \/ \E c \in Callers : told[c] = "success") => delivered
=============================================================================
