---------------------------- MODULE ProviderLease ----------------------------
(***************************************************************************)
(* What an owner of a provider process promises (the CodexTransport that   *)
(* core/agents/owner.ts returns): the provider family runs at most once,   *)
(* and the one verdict on its cleanup says "confirmed" only when nothing   *)
(* of the family is left and nothing of it can start again.                *)
(***************************************************************************)
VARIABLES
    held,      \* the family: "idle" before it runs, "running", "released"
    verdict    \* what close() answers: "pending", "confirmed" or "unknown"

vars == <<held, verdict>>

Init == held = "idle" /\ verdict = "pending"

Run == held = "idle" /\ held' = "running" /\ UNCHANGED verdict

Release == held' = "released" /\ UNCHANGED verdict

Judge ==
    /\ verdict = "pending"
    /\ \/ verdict' = "unknown"
       \/ verdict' = "confirmed" /\ held = "released"
    /\ UNCHANGED held

Next == Run \/ Release \/ Judge

Spec == Init /\ [][Next]_vars
=============================================================================
