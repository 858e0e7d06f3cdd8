----------------------------- MODULE SessionLife -----------------------------
(***************************************************************************)
(* What the owner of trusted conversations relies on in a session          *)
(* (core/agents/trusted-local-session.ts): the statuses it may publish and *)
(* the order in which its cleanup settles.                                 *)
(***************************************************************************)
VARIABLES
    status,    \* "starting", "ready", "running", "stopping", "closed", "failed"
    cleanup    \* "open" until close() settles as "confirmed" or "unknown"

vars == <<status, cleanup>>
Active == {"starting", "ready", "running"}

Init == status = "starting" /\ cleanup = "open"

\* A turn begins, and ends.
Begins == status \in {"starting", "ready"} /\ status' = "running" /\ UNCHANGED cleanup
Ends   == status = "running" /\ status' = "ready" /\ UNCHANGED cleanup

Stops == status \in Active /\ status' = "stopping" /\ UNCHANGED cleanup
Fails == status \in Active \cup {"stopping"} /\ cleanup = "open" /\ status' = "failed"
            /\ UNCHANGED cleanup

\* Only a stopped session whose cleanup is confirmed is closed.
Closes ==
    /\ status \in {"stopping", "failed"} /\ cleanup = "open"
    /\ cleanup' \in {"confirmed", "unknown"}
    /\ status' = IF status = "stopping" /\ cleanup' = "confirmed" THEN "closed" ELSE "failed"

Next == Begins \/ Ends \/ Stops \/ Fails \/ Closes

Spec == Init /\ [][Next]_vars
=============================================================================
