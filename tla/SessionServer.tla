---------------------------- MODULE SessionServer ----------------------------
(***************************************************************************)
(* The HTTP server's session endpoints and its runner event log, with the  *)
(* three session store backends behind them.                               *)
(*                                                                         *)
(* Every store call is one atomic step where the code makes it one (a      *)
(* mutex held for the call, one Redis command), and every handler is split *)
(* where the code lets another request in: POST /sessions/resume finds,    *)
(* removes and records in three steps, and the Redis store's purge reads   *)
(* the whole hash and then deletes key by key.  Handlers that only read    *)
(* (GET /sessions, GET /runner/events, /healthz) change nothing and are    *)
(* not actions; a request that is refused, or whose store call fails       *)
(* before it changes anything, is a stuttering step.                       *)
(***************************************************************************)
EXTENDS SessionFilters, Naturals, Sequences

CONSTANTS
    Requests,        \* slots for handlers that run at the same time
    Backends,        \* the StoreBackend values the server may be started with
    Uuid,            \* Uuid[n]: what Uuid::new_v4 returns for the n-th upsert
    UpsertPayloads,  \* bodies of POST /sessions
    PurgeInputs,     \* <<query, body>> of DELETE /sessions
    ResumeInputs,    \* bodies of POST /sessions/resume
    EmitInputs,      \* bodies of POST /runner/emit
    EventCap,        \* 100 in the code
    MaxUpserts,      \* bound: upserts in a behaviour
    MaxEvents        \* bound: recorded events in a behaviour

ASSUME ServerAssumption ==
    /\ Backends \subseteq {"memory", "file", "redis"}
    /\ \A i \in 1..MaxUpserts : Uuid[i] \notin Text \cup {None}
    /\ UpsertPayloads \subseteq SessionUpsertRequest
    /\ PurgeInputs \subseteq SessionFilterInput \X Option(SessionFilterInput)
    /\ ResumeInputs \subseteq SessionFilterInput
    /\ EmitInputs \subseteq [flow: Text, tenant: Option(Text),
                             team: Option(Text), user: Option(Text)]
    /\ EventCap \in Nat \ {0}
    /\ MaxUpserts \in Nat
    /\ MaxEvents \in Nat

VARIABLES
    backend,   \* the configured StoreBackend; never changes
    sessions,  \* the records the store's operations see
    durable,   \* the records a restart of the server would find
    events,    \* AppState.runner_events
    task,      \* what each running handler still has to do
    clock      \* stamps handed out so far (updated_at_epoch_ms)

\* History variables: read by properties; no guard but a bound reads one.
VARIABLES
    issued,    \* every record an upsert ever stored
    echoed,    \* stamps of records some resume recorded an event for
    twice,     \* those recorded for more than once
    overlap,   \* stamps two resumes held at the same time
    lost,      \* stamps removed by a handler that had read another record
    exposed,   \* stamps stored while a handler was about to remove their key
    recorded,  \* number of events recorded
    clearedAt  \* and how many of them before the log was last emptied

store   == <<sessions, durable>>
history == <<issued, echoed, twice, overlap, lost, exposed, recorded, clearedAt>>
vars    == <<backend, sessions, durable, events, task, clock, history>>

Key == Text \cup {Uuid[i] : i \in 1..MaxUpserts}
SessionRecord ==
    [key: Key, tenant: Text, team: Option(Text), user: Text,
     flow_id: Option(Text), stamp: Nat]
RunnerEvent ==
    [flow: Text, tenant: Option(Text), team: Option(Text), user: Option(Text),
     source: Nat,   \* stamp of the resumed session, 0 for an emitted event
     nr: Nat]       \* position among all events recorded
Task ==
    [op: {"idle", "found", "cleared", "purge"},
     held: SUBSET SessionRecord,  \* the session found, or those left to purge
     tenant: Option(Text),        \* the resume request's tenant and user
     user: Option(Text)]

Idle == [op |-> "idle", held |-> {}, tenant |-> None, user |-> None]
Stamps(S) == {s.stamp : s \in S}
Holders(key) == {r \in Requests : /\ task[r].op \in {"found", "purge"}
                                  /\ \E s \in task[r].held : s.key = key}

Init ==
    /\ backend \in Backends
    /\ sessions = {} /\ durable = {}
    /\ events = <<>>
    /\ task = [r \in Requests |-> Idle]
    /\ clock = 0
    /\ issued = {} /\ echoed = {} /\ twice = {} /\ overlap = {}
    /\ lost = {} /\ exposed = {} /\ recorded = 0 /\ clearedAt = 0

-----------------------------------------------------------------------------
(* The stores.  Maps are sets of records with at most one per key.         *)

\* Mutant: retain with the condition the wrong way round.
MutantRemoved(S, key) == {s \in S : s.key = key}

Inserted(S, record) == {s \in S : s.key # record.key} \cup {record}
Removed(S, key)     == {s \in S : s.key # key}

\* Mutant: the file is rewritten only when the map gained a record.
MutantWrite(new, ok) ==
    /\ sessions' = new
    /\ \/ backend = "memory" /\ ok /\ UNCHANGED durable
       \/ backend = "file" /\ durable' = IF ok /\ new \ sessions # {} THEN new ELSE durable
       \/ backend = "redis" /\ durable' = new

\* A write the store carried out.  The file store changes its map first and
\* rewrites the file second, so an error (ok = FALSE) leaves the old file; a
\* Redis command may take effect although its reply is lost.
Write(new, ok) ==
    /\ sessions' = new
    /\ \/ backend = "memory" /\ ok /\ UNCHANGED durable
       \/ backend = "file" /\ durable' = IF ok THEN new ELSE durable
       \/ backend = "redis" /\ durable' = new

-----------------------------------------------------------------------------
(* POST /sessions                                                          *)

upsert_session(p) ==
    /\ UpsertAccepted(p)
    /\ clock < MaxUpserts
    /\ clock' = clock + 1
    /\ LET record == normalize_upsert_payload(p, Uuid[clock'], clock')
       IN  /\ \E ok \in BOOLEAN : Write(Inserted(sessions, record), ok)
           /\ issued' = issued \cup {record}
           /\ exposed' = IF Holders(record.key) = {} THEN exposed
                         ELSE exposed \cup {record.stamp}
    /\ UNCHANGED <<backend, events, task, echoed, twice, overlap, lost, recorded, clearedAt>>

-----------------------------------------------------------------------------
(* POST /sessions/resume                                                   *)

\* find: some record the filter matches, in no particular order (the maps are
\* hash maps).  No match answers 404 and a match without a flow 400; neither
\* changes anything.
resume_find(r, req) ==
    /\ task[r].op = "idle"
    /\ req.user # None
    /\ \E s \in sessions :
         /\ matches(resume_filter(req), s)
         /\ s.flow_id # None
         /\ task' = [task EXCEPT ![r] = [op |-> "found", held |-> {s},
                                         tenant |-> resume_filter(req).tenant,
                                         user |-> req.user]]
         /\ overlap' = IF \E q \in Requests : task[q].op = "found" /\ s \in task[q].held
                       THEN overlap \cup {s.stamp} ELSE overlap
    /\ UNCHANGED <<backend, sessions, durable, events, clock,
                   issued, echoed, twice, lost, exposed, recorded, clearedAt>>

\* What a step took out of the store beside the record its handler had read.
Collateral(held) == Stamps((sessions \ sessions') \ held)

\* remove: by key, whatever record is under the key by now.
resume_remove(r) ==
    /\ task[r].op = "found"
    /\ \E s \in task[r].held, ok \in BOOLEAN :
         /\ Write(Removed(sessions, s.key), ok)
         /\ task' = IF ok THEN [task EXCEPT ![r].op = "cleared"]
                    ELSE [task EXCEPT ![r] = Idle]
         /\ lost' = lost \cup Collateral({s})
    /\ UNCHANGED <<backend, events, clock,
                   issued, echoed, twice, overlap, exposed, recorded, clearedAt>>

\* remove fails before the command takes effect: 500, and the session stays.
resume_remove_unreachable(r) ==
    /\ task[r].op = "found"
    /\ backend = "redis"
    /\ task' = [task EXCEPT ![r] = Idle]
    /\ UNCHANGED <<backend, store, events, clock, history>>

\* Mutant: a full log drops the new event instead of the oldest.
MutantRecord(e) ==
    events' = IF Len(events) < EventCap THEN Append(events, e) ELSE events

record_runner_event(e) ==
    LET pushed == Append(events, e)
        excess == Len(pushed) - EventCap
    IN  events' = IF excess > 0 THEN SubSeq(pushed, excess + 1, Len(pushed)) ELSE pushed

synthesize_runner_event(flow, tenant, team, user, source) ==
    [flow |-> flow, tenant |-> tenant, team |-> team, user |-> user,
     source |-> source, nr |-> recorded + 1]

resume_record(r) ==
    /\ task[r].op = "cleared"
    /\ recorded < MaxEvents
    /\ \E s \in task[r].held :
         /\ record_runner_event(synthesize_runner_event(
                s.flow_id, task[r].tenant, s.team, task[r].user, s.stamp))
         /\ echoed' = echoed \cup {s.stamp}
         /\ twice' = IF s.stamp \in echoed THEN twice \cup {s.stamp} ELSE twice
    /\ task' = [task EXCEPT ![r] = Idle]
    /\ recorded' = recorded + 1
    /\ UNCHANGED <<backend, store, clock, issued, overlap, lost, exposed, clearedAt>>

-----------------------------------------------------------------------------
(* DELETE /sessions                                                        *)

Selected(input) ==
    LET filter == build_session_filter(merge_with(input[1], input[2]))
    IN  {s \in sessions : matches(filter, s)}

\* The in-memory and the file store purge under their mutex.
delete_sessions(input) ==
    /\ backend # "redis"
    /\ Selected(input) # {}
    /\ \E ok \in BOOLEAN : Write(sessions \ Selected(input), ok)
    /\ UNCHANGED <<backend, events, task, clock, history>>

\* The Redis store reads the whole hash, ...
purge_load_all(r, input) ==
    /\ backend = "redis"
    /\ task[r].op = "idle"
    /\ Selected(input) # {}
    /\ task' = [task EXCEPT ![r] = [op |-> "purge", held |-> Selected(input),
                                    tenant |-> None, user |-> None]]
    /\ UNCHANGED <<backend, store, events, clock, history>>

\* ... then deletes the keys it selected, one command each.
purge_delete(r) ==
    /\ task[r].op = "purge"
    /\ \E s \in task[r].held :
         /\ Write(Removed(sessions, s.key), TRUE)
         /\ lost' = lost \cup Collateral({s})
         /\ task' = IF task[r].held = {s} THEN [task EXCEPT ![r] = Idle]
                    ELSE [task EXCEPT ![r].held = @ \ {s}]
    /\ UNCHANGED <<backend, events, clock,
                   issued, echoed, twice, overlap, exposed, recorded, clearedAt>>

\* The first error ends the purge; the keys not reached stay.
purge_abort(r) ==
    /\ task[r].op = "purge"
    /\ task' = [task EXCEPT ![r] = Idle]
    /\ UNCHANGED <<backend, store, events, clock, history>>

-----------------------------------------------------------------------------
(* POST /runner/emit, DELETE /runner/events, and the end of the process    *)

runner_emit(req) ==
    /\ recorded < MaxEvents
    /\ record_runner_event(synthesize_runner_event(
           req.flow, OrElse(req.tenant, DefaultTenant), OrElse(req.team, DefaultTeam),
           req.user, 0))
    /\ recorded' = recorded + 1
    /\ UNCHANGED <<backend, store, task, clock,
                   issued, echoed, twice, overlap, lost, exposed, clearedAt>>

clear_runner_events ==
    /\ events # <<>>
    /\ events' = <<>>
    /\ clearedAt' = recorded
    /\ UNCHANGED <<backend, store, task, clock,
                   issued, echoed, twice, overlap, lost, exposed, recorded>>

\* The server process dies and is started again on the same store: handlers
\* and events are gone, the records are those the backend kept.
restart ==
    /\ sessions' = durable
    /\ events' = <<>>
    /\ clearedAt' = recorded
    /\ task' = [r \in Requests |-> Idle]
    /\ UNCHANGED <<backend, durable, clock,
                   issued, echoed, twice, overlap, lost, exposed, recorded>>

Next ==
    \/ \E p \in UpsertPayloads : upsert_session(p)
    \/ \E r \in Requests, req \in ResumeInputs : resume_find(r, req)
    \/ \E r \in Requests : resume_remove(r)
    \/ \E r \in Requests : resume_remove_unreachable(r)
    \/ \E r \in Requests : resume_record(r)
    \/ \E input \in PurgeInputs : delete_sessions(input)
    \/ \E r \in Requests, input \in PurgeInputs : purge_load_all(r, input)
    \/ \E r \in Requests : purge_delete(r)
    \/ \E r \in Requests : purge_abort(r)
    \/ \E req \in EmitInputs : runner_emit(req)
    \/ clear_runner_events
    \/ restart

Spec == Init /\ [][Next]_vars
-----------------------------------------------------------------------------
(* Properties                                                              *)

Min2(a, b) == IF a < b THEN a ELSE b

TypeOK ==
    /\ backend \in Backends
    /\ sessions \in SUBSET SessionRecord
    /\ durable \in SUBSET SessionRecord
    /\ events \in Seq(RunnerEvent)
    /\ task \in [Requests -> Task]
    /\ clock \in 0..MaxUpserts
    /\ issued \in SUBSET SessionRecord
    /\ echoed \subseteq Nat /\ twice \subseteq Nat /\ overlap \subseteq Nat
    /\ lost \subseteq Nat /\ exposed \subseteq Nat
    /\ recorded \in Nat /\ clearedAt \in Nat

\* An event recorded for a resume (main.rs:1344-1358) repeats the flow, team
\* and user of one session that was really stored, and the tenant it reports
\* is that session's own: with handlers interleaving, no request ever echoes
\* a mixture of two sessions or a session of another tenant.
EchoIsAuthentic ==
    \A i \in DOMAIN events : events[i].source # 0 =>
        \E s \in issued :
            /\ s.stamp = events[i].source
            /\ s.flow_id = events[i].flow
            /\ s.team = events[i].team
            /\ s.user = events[i].user
            /\ events[i].tenant \in {None, s.tenant}

\* A session is echoed twice only if two resumes held it at the same time,
\* both between their find and their remove.  Failed removals, restarts,
\* purges and overwritten keys never bring a consumed session back.
DoubleEchoNeedsOverlap == twice \subseteq overlap

\* A handler removes a record it never read (a fresh session under a key it
\* remembers) only if that record was stored while a handler stood between
\* its read and its removal of the key.
LossNeedsRace == lost \subseteq exposed

\* The log holds the newest events since it was last emptied, all of them up
\* to the cap, in the order they were recorded.
EventLogKeepsNewest ==
    /\ Len(events) = Min2(EventCap, recorded - clearedAt)
    /\ \A i \in DOMAIN events : events[i].nr = recorded - Len(events) + i

\* "clears the session entry so the next message starts fresh"
\* (docs/APP_DESIGN.md:139): one stored session answers one resume.
EachSessionEchoedOnce == twice = {}
=============================================================================
