----------------------------- MODULE Admission -----------------------------
(***************************************************************************)
(* What the run gate promises to the rest of the program, without locks,   *)
(* channels or a loop: a permit with at most one holder, which can be      *)
(* closed.  Once closing has begun nobody is admitted and no work begins;  *)
(* the permit is closed for good only when nobody holds it.                *)
(***************************************************************************)
CONSTANTS
    Holders,   \* whoever may hold the permit
    Internal,  \* the holder that stands for runs the instance starts itself
    Nobody

VARIABLES
    phase,     \* "Active", "Closing" or "Closed"
    holder,
    working    \* the holder has begun its work; FALSE while it only reserves

vars == <<phase, holder, working>>

Init ==
    /\ phase = "Active"
    /\ holder = Nobody
    /\ working = FALSE

Admit(h) ==
    /\ phase = "Active" /\ holder = Nobody
    /\ holder' = h
    /\ working' \in BOOLEAN
    /\ UNCHANGED phase

Begin ==
    /\ phase = "Active" /\ holder # Nobody /\ ~working
    /\ working' = TRUE
    /\ UNCHANGED <<phase, holder>>

(* A run may be followed by runs of its own without giving the permit up.  *)
FollowUp ==
    /\ working
    /\ holder' = Internal
    /\ UNCHANGED <<phase, working>>

Leave ==
    /\ holder # Nobody
    /\ holder' = Nobody
    /\ working' = FALSE
    /\ UNCHANGED phase

Close ==
    /\ phase = "Active"
    /\ phase' = "Closing"
    /\ UNCHANGED <<holder, working>>

Finish ==
    /\ phase = "Closing" /\ holder = Nobody
    /\ phase' = "Closed"
    /\ UNCHANGED <<holder, working>>

Next ==
    \/ \E h \in Holders : Admit(h)
    \/ Begin \/ FollowUp \/ Leave \/ Close \/ Finish

Spec == Init /\ [][Next]_vars
=============================================================================
