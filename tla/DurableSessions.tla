-------------------------- MODULE DurableSessions --------------------------
(***************************************************************************)
(* What the file backend promises the server: one set of sessions that     *)
(* only the SessionStore operations change and that outlives restarts.     *)
(*                                                                         *)
(* The promise is conditional.  While disturbed is TRUE something the      *)
(* store cannot absorb has happened since the file and the map last        *)
(* agreed (a failed write, a crash in the middle of one, another process   *)
(* writing the file, an unreadable file), and anything may happen to the   *)
(* contents; in an undisturbed stretch every change is an operation.       *)
(***************************************************************************)
CONSTANTS Records,   \* all session records
          Filters,   \* all filters of a purge
          Selects(_, _)

VARIABLES content, disturbed

Init == content = {} /\ disturbed = FALSE

Upsert == \E r \in Records :
    content' = {s \in content : s.key # r.key} \cup {r}

Remove == \E r \in Records : content' = {s \in content : s.key # r.key}

Purge == \E f \in Filters : content' = {s \in content : ~Selects(f, s)}

Operation == ~disturbed /\ ~disturbed' /\ (Upsert \/ Remove \/ Purge)

Disturbance == (disturbed \/ disturbed') /\ content' \in SUBSET Records

Next == Operation \/ Disturbance

Spec == Init /\ [][Next]_<<content, disturbed>>
=============================================================================
