------------------------- MODULE SessionServerProofs -------------------------
(***************************************************************************)
(* Theorems about SessionServer, for every set of texts, requests and      *)
(* inputs, every backend and every bound.                                  *)
(***************************************************************************)
EXTENDS SessionServer, SequenceTheorems, TLAPS

USE DEF Option

-----------------------------------------------------------------------------
(* The helpers                                                             *)

\* Sanitizing an optional text yields an optional text.
LEMMA SanitizeType ==
    ASSUME NEW v \in Option(Text)
    PROVE  sanitize_optional(v) \in Option(Text)
BY TextAssumption DEF sanitize_optional

\* The payload of an accepted upsert becomes a well-formed record.
LEMMA NormalizedRecord ==
    ASSUME NEW p \in SessionUpsertRequest, UpsertAccepted(p),
           NEW n \in 1..MaxUpserts
    PROVE  /\ normalize_upsert_payload(p, Uuid[n], n) \in SessionRecord
           /\ normalize_upsert_payload(p, Uuid[n], n).stamp = n
<1>1. /\ sanitize_optional(p.key) \in Option(Text)
      /\ sanitize_optional(p.tenant) \in Option(Text)
      /\ sanitize_optional(p.team) \in Option(Text)
      /\ sanitize_optional(p.user) \in Option(Text)
      /\ sanitize_optional(p.flow_id) \in Option(Text)
      /\ sanitize_optional(DefaultTenant) \in Option(Text)
      /\ sanitize_optional(DefaultTeam) \in Option(Text)
  BY SanitizeType, TextAssumption DEF SessionUpsertRequest
<1>2. n \in Nat
  BY ServerAssumption
<1> QED
  BY <1>1, <1>2 DEF normalize_upsert_payload, UpsertAccepted, UpsertTenant,
                    OrElse, SessionRecord, Key

\* What a push and the drain after it leave is a log of events again.
LEMMA PushType ==
    ASSUME events \in Seq(RunnerEvent), NEW e \in RunnerEvent, record_runner_event(e)
    PROVE  events' \in Seq(RunnerEvent)
<1> DEFINE pushed == Append(events, e)
           excess == Len(pushed) - EventCap
<1>1. pushed \in Seq(RunnerEvent) /\ Len(pushed) \in Nat
  OBVIOUS
<1>2. CASE excess > 0
  <2>1. events' = SubSeq(pushed, excess + 1, Len(pushed))
    BY <1>2 DEF record_runner_event
  <2>2. excess + 1 \in 1..Len(pushed) + 1
    BY <1>1, <1>2, ServerAssumption
  <2> QED
    BY <1>1, <2>1, <2>2, ServerAssumption, SubSeqProperties
<1>3. CASE ~(excess > 0)
  BY <1>1, <1>3 DEF record_runner_event
<1> QED
  BY <1>2, <1>3

\* Every write leaves sets of records; the stores themselves check nothing.
LEMMA WriteType ==
    ASSUME TypeOK, NEW new \in SUBSET SessionRecord, NEW ok, Write(new, ok)
    PROVE  sessions' \in SUBSET SessionRecord /\ durable' \in SUBSET SessionRecord
BY DEF Write, TypeOK

-----------------------------------------------------------------------------
(* Type correctness                                                        *)

\* The server starts with every variable of its type.
LEMMA TypeInit == Init => TypeOK
BY ServerAssumption DEF Init, TypeOK, Task, Idle

\* POST /sessions stores a well-typed record or refuses the payload.
LEMMA TypeUpsert ==
    ASSUME TypeOK, NEW p \in UpsertPayloads, upsert_session(p)
    PROVE  TypeOK'
<1> DEFINE record == normalize_upsert_payload(p, Uuid[clock'], clock')
<1>1. clock' \in 1..MaxUpserts /\ p \in SessionUpsertRequest
  BY ServerAssumption DEF upsert_session, TypeOK
<1>2. record \in SessionRecord /\ record.stamp = clock'
  BY <1>1, NormalizedRecord DEF upsert_session
<1>3. Inserted(sessions, record) \in SUBSET SessionRecord
  BY <1>2 DEF Inserted, TypeOK
<1>4. sessions' \in SUBSET SessionRecord /\ durable' \in SUBSET SessionRecord
  BY <1>3, WriteType DEF upsert_session
<1>5. issued' = issued \cup {record} /\ exposed' \in {exposed, exposed \cup {record.stamp}}
  BY DEF upsert_session
<1>6. issued' \in SUBSET SessionRecord /\ exposed' \subseteq Nat
  BY <1>1, <1>2, <1>5, ServerAssumption DEF TypeOK
<1> QED
  BY <1>1, <1>4, <1>6 DEF upsert_session, TypeOK

\* The first step of a resume leaves a well-typed task.
LEMMA TypeResumeFind ==
    ASSUME TypeOK, NEW r \in Requests, NEW req \in ResumeInputs, resume_find(r, req)
    PROVE  TypeOK'
<1>1. /\ resume_filter(req).tenant \in Option(Text)
      /\ req.user \in Option(Text)
  BY TextAssumption, ServerAssumption DEF resume_filter, OrElse, SessionFilterInput
<1>2. PICK s \in sessions :
        /\ task' = [task EXCEPT ![r] = [op |-> "found", held |-> {s},
                                        tenant |-> resume_filter(req).tenant,
                                        user |-> req.user]]
        /\ overlap' \in {overlap, overlap \cup {s.stamp}}
  BY DEF resume_find
<1>3. s \in SessionRecord /\ s.stamp \in Nat
  BY DEF TypeOK, SessionRecord
<1>4. task' \in [Requests -> Task]
  BY <1>1, <1>2, <1>3 DEF TypeOK, Task
<1>5. overlap' \subseteq Nat
  BY <1>2, <1>3 DEF TypeOK
<1> QED
  BY <1>4, <1>5 DEF resume_find, TypeOK

\* What a removal takes besides its own record is a set of stamps.
LEMMA CollateralType == TypeOK => \A held : Collateral(held) \subseteq Nat
BY DEF TypeOK, Collateral, Stamps, SessionRecord

\* The second step of a resume leaves well-typed stores and task.
LEMMA TypeResumeRemove ==
    ASSUME TypeOK, NEW r \in Requests, resume_remove(r)
    PROVE  TypeOK'
<1>1. PICK s \in task[r].held, ok \in BOOLEAN :
        /\ Write(Removed(sessions, s.key), ok)
        /\ task' = IF ok THEN [task EXCEPT ![r].op = "cleared"]
                   ELSE [task EXCEPT ![r] = Idle]
        /\ lost' = lost \cup Collateral({s})
  BY DEF resume_remove
<1>2. sessions' \in SUBSET SessionRecord /\ durable' \in SUBSET SessionRecord
  BY <1>1, WriteType DEF Removed, TypeOK
<1>3. task' \in [Requests -> Task]
  BY <1>1 DEF TypeOK, Task, Idle
<1>4. lost' \subseteq Nat
  BY <1>1, CollateralType DEF TypeOK
<1> QED
  BY <1>2, <1>3, <1>4 DEF resume_remove, TypeOK

\* The third step logs a well-typed event, given that the session has a flow.
LEMMA TypeResumeRecord ==
    ASSUME TypeOK, NEW r \in Requests, resume_record(r),
           \A s \in task[r].held : s.flow_id \in Text
    PROVE  TypeOK'
<1> DEFINE e(s) == synthesize_runner_event(s.flow_id, task[r].tenant, s.team,
                                           task[r].user, s.stamp)
<1>1. PICK s \in task[r].held :
        /\ record_runner_event(e(s))
        /\ echoed' = echoed \cup {s.stamp}
        /\ twice' \in {twice, twice \cup {s.stamp}}
  BY DEF resume_record
<1>2. s \in SessionRecord /\ s.stamp \in Nat
  BY DEF TypeOK, Task, SessionRecord
<1>3. e(s) \in RunnerEvent
  BY <1>2 DEF synthesize_runner_event, RunnerEvent, TypeOK, Task, SessionRecord
<1>4. events' \in Seq(RunnerEvent)
  BY <1>1, <1>3, PushType DEF TypeOK
<1>5. task' \in [Requests -> Task]
  BY DEF resume_record, TypeOK, Task, Idle
<1>6. echoed' \subseteq Nat /\ twice' \subseteq Nat
  BY <1>1, <1>2 DEF TypeOK
<1> QED
  BY <1>4, <1>5, <1>6 DEF resume_record, TypeOK, store

-----------------------------------------------------------------------------
(* The inductive invariant                                                 *)

Resuming(r) == task[r].op \in {"found", "cleared"}

\* Only records some upsert stored are in the stores or in a handler's hands,
\* and a stamp names one of them.
Provenance ==
    /\ sessions \subseteq issued /\ durable \subseteq issued
    /\ \A r \in Requests : task[r].held \subseteq issued
    /\ \A s \in issued : s.stamp \in 1..clock
    /\ \A s, t \in issued : s.stamp = t.stamp => s = t

\* A resume holds one record that has a flow and that its request matched.
Holding ==
    \A r \in Requests : Resuming(r) =>
        \E s \in task[r].held :
            /\ task[r].held = {s}
            /\ s.flow_id # None
            /\ task[r].tenant \in {None, s.tenant}
            /\ task[r].user = s.user

MemoryHasNoFile == backend = "memory" => durable = {}

\* A session whose event is recorded, or about to be, is in no store.
Consumed ==
    \A s \in sessions \cup durable :
        /\ s.stamp \notin echoed
        /\ \A r \in Requests : task[r].op = "cleared" => s \notin task[r].held

\* A stamp outside overlap has at most one resume that holds or echoed it.
Exclusive ==
    /\ \A n \in echoed : n \in 1..clock
    /\ \A q, r \in Requests : q # r /\ Resuming(q) /\ Resuming(r) =>
         \A s \in task[q].held \cap task[r].held : s.stamp \in overlap
    /\ \A r \in Requests : Resuming(r) =>
         \A s \in task[r].held : s.stamp \in echoed => s.stamp \in overlap

\* Under the key of a record some handler is about to remove there is that
\* record, or one stored since the handler read it.
Guarded ==
    \A r \in Requests : task[r].op \in {"found", "purge"} =>
        \A h \in task[r].held, s \in sessions :
            s.key = h.key => s = h \/ s.stamp \in exposed

\* A key names at most one record: the sets stand for maps.
UniqueKeys ==
    \A S \in {sessions, durable} : \A s, t \in S : s.key = t.key => s = t

IInv ==
    /\ TypeOK
    /\ UniqueKeys
    /\ Provenance
    /\ Holding
    /\ MemoryHasNoFile
    /\ Consumed
    /\ Exclusive
    /\ Guarded
    /\ EchoIsAuthentic
    /\ DoubleEchoNeedsOverlap
    /\ LossNeedsRace

-----------------------------------------------------------------------------
(* The steps                                                               *)

\* What a write leaves: the new map, and behind it the new or the old one.
LEMMA WriteFacts ==
    ASSUME MemoryHasNoFile, NEW new, NEW ok \in BOOLEAN, Write(new, ok), backend' = backend
    PROVE  /\ sessions' = new
           /\ durable' \in {new, durable}
           /\ MemoryHasNoFile'
           /\ ok => durable' \in {new, {}}
BY DEF Write, MemoryHasNoFile

\* POST /sessions preserves IInv: the new stamp is above all others.
LEMMA StepUpsert ==
    ASSUME IInv, NEW p \in UpsertPayloads, upsert_session(p)
    PROVE  IInv'
<1> USE DEF IInv
<1> DEFINE record == normalize_upsert_payload(p, Uuid[clock'], clock')
           new == Inserted(sessions, record)
<1>1. TypeOK'
  BY TypeUpsert
<1>2. clock' = clock + 1 /\ clock' \in 1..MaxUpserts /\ clock \in Nat
      /\ p \in SessionUpsertRequest
  BY ServerAssumption DEF upsert_session, TypeOK
<1>3. record \in SessionRecord /\ record.stamp = clock'
  BY <1>2, NormalizedRecord DEF upsert_session
<1>4. PICK ok \in BOOLEAN : Write(new, ok)
  BY DEF upsert_session
<1>5. /\ issued' = issued \cup {record}
      /\ UNCHANGED <<backend, events, task, echoed, twice, overlap, lost>>
      /\ exposed \subseteq exposed'
      /\ Holders(record.key) # {} => record.stamp \in exposed'
  BY DEF upsert_session
<1>6. /\ sessions' = new /\ durable' \in {new, durable} /\ MemoryHasNoFile'
  BY <1>4, <1>5, WriteFacts
<1>7. new \subseteq sessions \cup {record}
  BY DEF Inserted
<1> HIDE DEF record
<1>8. UniqueKeys'
  BY <1>6 DEF UniqueKeys, Inserted
<1>9. Provenance'
  BY <1>2, <1>3, <1>5, <1>6, <1>7 DEF Provenance
<1>10. \A s \in sessions \cup durable : s.stamp \in 1..clock
  BY DEF Provenance
<1>11. Consumed'
  <2>1. record.stamp \notin echoed /\ \A r \in Requests : record \notin task[r].held
    BY <1>2, <1>3 DEF Exclusive, Provenance
  <2> QED
    BY <1>5, <1>6, <1>7, <2>1 DEF Consumed
<1>12. Exclusive'
  BY <1>2, <1>5 DEF Exclusive, Resuming
<1>13. Guarded'
  BY <1>5, <1>6 DEF Guarded, Holders, new, Inserted
<1>14. Holding' /\ DoubleEchoNeedsOverlap' /\ LossNeedsRace'
  BY <1>5 DEF Holding, Resuming, DoubleEchoNeedsOverlap, LossNeedsRace
<1>15. EchoIsAuthentic'
  BY <1>5 DEF EchoIsAuthentic
<1> QED
  BY <1>1, <1>6, <1>8, <1>9, <1>11, <1>12, <1>13, <1>14, <1>15

\* The find of a resume preserves IInv: what it holds was in the store.
LEMMA StepResumeFind ==
    ASSUME IInv, NEW r \in Requests, NEW req \in ResumeInputs, resume_find(r, req)
    PROVE  IInv'
<1> USE DEF IInv
<1>1. TypeOK'
  BY TypeResumeFind
<1>2. PICK s \in sessions :
        /\ matches(resume_filter(req), s)
        /\ s.flow_id # None
        /\ task' = [task EXCEPT ![r] = [op |-> "found", held |-> {s},
                                        tenant |-> resume_filter(req).tenant,
                                        user |-> req.user]]
        /\ overlap \subseteq overlap'
        /\ (\E q \in Requests : task[q].op = "found" /\ s \in task[q].held)
              => s.stamp \in overlap'
  BY DEF resume_find
<1>3. /\ task[r].op = "idle" /\ req.user # None
      /\ UNCHANGED <<backend, sessions, durable, events, clock,
                     issued, echoed, twice, lost, exposed>>
  BY DEF resume_find
<1>4. /\ task'[r].op = "found" /\ task'[r].held = {s}
      /\ task'[r].tenant \in {None, s.tenant} /\ task'[r].user = s.user
      /\ \A q \in Requests : q # r => task'[q] = task[q]
  BY <1>2, <1>3 DEF TypeOK, matches, resume_filter
<1>5. Provenance'
  BY <1>3, <1>4 DEF Provenance
<1>6. Holding'
  BY <1>2, <1>4 DEF Holding, Resuming
<1>7. Consumed'
  BY <1>3, <1>4 DEF Consumed
<1>8. Exclusive'
  BY <1>2, <1>3, <1>4 DEF Exclusive, Resuming, Consumed
<1>9. Guarded'
  BY <1>3, <1>4 DEF Guarded, UniqueKeys
<1>10. UniqueKeys' /\ MemoryHasNoFile' /\ EchoIsAuthentic' /\ LossNeedsRace'
  BY <1>3 DEF UniqueKeys, MemoryHasNoFile, EchoIsAuthentic, LossNeedsRace
<1>11. DoubleEchoNeedsOverlap'
  BY <1>2, <1>3 DEF DoubleEchoNeedsOverlap
<1> QED
  BY <1>1, <1>5, <1>6, <1>7, <1>8, <1>9, <1>10, <1>11

\* The remove of a resume preserves IInv: the record held leaves both stores.
LEMMA StepResumeRemove ==
    ASSUME IInv, NEW r \in Requests, resume_remove(r)
    PROVE  IInv'
<1> USE DEF IInv
<1>1. TypeOK'
  BY TypeResumeRemove
<1>2. PICK s \in task[r].held, ok \in BOOLEAN :
        /\ Write(Removed(sessions, s.key), ok)
        /\ task' = IF ok THEN [task EXCEPT ![r].op = "cleared"]
                   ELSE [task EXCEPT ![r] = Idle]
        /\ lost' = lost \cup Collateral({s})
  BY DEF resume_remove
<1>3. /\ task[r].op = "found"
      /\ UNCHANGED <<backend, events, clock, issued, echoed, twice, overlap, exposed>>
  BY DEF resume_remove
<1>4. /\ sessions' = Removed(sessions, s.key)
      /\ durable' \in {sessions', durable} /\ MemoryHasNoFile'
      /\ ok => durable' \in {sessions', {}}
  BY <1>2, <1>3, WriteFacts
<1>5. task[r].held = {s}
  BY <1>3 DEF Holding, Resuming
<1>6. /\ \A q \in Requests : q # r => task'[q] = task[q]
      /\ task'[r] = IF ok THEN [task[r] EXCEPT !.op = "cleared"] ELSE Idle
      /\ task'[r].op \in {"cleared", "idle"}
      /\ task'[r].op = "cleared" => ok /\ task'[r].held = {s}
      /\ task'[r].held \subseteq {s}
  BY <1>2, <1>5 DEF TypeOK, Task, Idle
<1>7. sessions' \subseteq sessions /\ s \notin sessions'
  BY <1>4 DEF Removed
<1>8. UniqueKeys'
  BY <1>4, <1>7 DEF UniqueKeys
<1>9. Provenance'
  BY <1>3, <1>4, <1>5, <1>6, <1>7 DEF Provenance
<1>10. Holding'
  BY <1>3, <1>6 DEF Holding, Resuming, TypeOK, Task
<1>11. Consumed'
  BY <1>3, <1>4, <1>6, <1>7 DEF Consumed
<1>12. Exclusive'
  BY <1>3, <1>5, <1>6 DEF Exclusive, Resuming
<1>13. Guarded'
  BY <1>3, <1>6, <1>7 DEF Guarded
<1>14. LossNeedsRace'
  BY <1>2, <1>3, <1>4 DEF LossNeedsRace, Guarded, Collateral, Stamps, Removed
<1>15. EchoIsAuthentic' /\ DoubleEchoNeedsOverlap'
  BY <1>3 DEF EchoIsAuthentic, DoubleEchoNeedsOverlap
<1> QED
  BY <1>1, <1>4, <1>8, <1>9, <1>10, <1>11, <1>12, <1>13, <1>14, <1>15

\* Every event of the log after a push was there before or is the new one.
LEMMA PushElements ==
    ASSUME events \in Seq(RunnerEvent), NEW e \in RunnerEvent, record_runner_event(e),
           NEW i \in DOMAIN events'
    PROVE  events'[i] = e \/ \E j \in DOMAIN events : events'[i] = events[j]
<1> DEFINE pushed == Append(events, e)
           excess == Len(pushed) - EventCap
<1>1. /\ pushed \in Seq(RunnerEvent) /\ Len(pushed) = Len(events) + 1 /\ Len(events) \in Nat
      /\ \A j \in 1..Len(events) : pushed[j] = events[j]
      /\ pushed[Len(events) + 1] = e
      /\ DOMAIN events = 1..Len(events)
  OBVIOUS
<1>2. \E j \in 1..Len(pushed) : events'[i] = pushed[j]
  <2>1. CASE excess > 0
    <3>1. events' = SubSeq(pushed, excess + 1, Len(pushed))
      BY <2>1 DEF record_runner_event
    <3>2. /\ excess + 1 \in 1..Len(pushed) + 1
          /\ Len(pushed) \in excess..Len(pushed)
      BY <1>1, <2>1, ServerAssumption
    <3>3. /\ DOMAIN events' = 1..Len(pushed) - excess
          /\ \A k \in 1..Len(pushed) - excess : events'[k] = pushed[excess + k]
      <4>1. excess + 1 \in Int /\ Len(pushed) \in Int /\ excess + 1 <= Len(pushed)
        BY <1>1, <2>1, ServerAssumption
      <4>2. \A k \in (excess + 1)..Len(pushed) : pushed[k] \in RunnerEvent
        BY <1>1, <2>1, <4>1, ElementOfSeq, ServerAssumption
      <4>3. /\ events' \in Seq(RunnerEvent)
            /\ Len(events') = Len(pushed) - (excess + 1) + 1
            /\ \A k \in 1..Len(pushed) - (excess + 1) + 1 :
                  events'[k] = pushed[(excess + 1) + k - 1]
        <5> DEFINE m == excess + 1
                   n == Len(pushed)
        <5>1. events' = SubSeq(pushed, m, n) /\ m \in Int /\ n \in Int /\ m <= n
              /\ \A k \in m..n : pushed[k] \in RunnerEvent
          BY <3>1, <4>1, <4>2
        <5> HIDE DEF pushed, m, n
        <5>2. /\ SubSeq(pushed, m, n) \in Seq(RunnerEvent)
              /\ Len(SubSeq(pushed, m, n)) = IF m <= n THEN n - m + 1 ELSE 0
              /\ \A k \in 1..n - m + 1 : SubSeq(pushed, m, n)[k] = pushed[m + k - 1]
          BY <5>1, SubSeqProperties
        <5>3. /\ events' \in Seq(RunnerEvent)
              /\ Len(events') = n - m + 1
              /\ \A k \in 1..n - m + 1 : events'[k] = pushed[m + k - 1]
          BY <5>1, <5>2
        <5> QED
          BY <5>3 DEF m, n
      <4>4. excess \in Int /\ Len(pushed) \in Int
        BY <1>1, ServerAssumption
      <4> HIDE DEF pushed, excess
      <4> QED
        BY <4>1, <4>3, <4>4
    <3>4. excess + i \in 1..Len(pushed)
      BY <1>1, <2>1, <3>3, ServerAssumption
    <3> QED
      BY <3>3, <3>4
  <2>2. CASE ~(excess > 0)
    BY <1>1, <2>2 DEF record_runner_event
  <2> QED
    BY <2>1, <2>2
<1> QED
  BY <1>1, <1>2

\* A recorded event keeps the log authentic when it is authentic itself.
LEMMA PushAuthentic ==
    ASSUME EchoIsAuthentic, events \in Seq(RunnerEvent), issued' = issued,
           NEW e \in RunnerEvent, record_runner_event(e),
           e.source # 0 =>
             \E s \in issued : /\ s.stamp = e.source /\ s.flow_id = e.flow
                               /\ s.team = e.team /\ s.user = e.user
                               /\ e.tenant \in {None, s.tenant}
    PROVE  EchoIsAuthentic'
BY PushElements DEF EchoIsAuthentic

\* Recording the event preserves IInv: the session echoed is in no store.
LEMMA StepResumeRecord ==
    ASSUME IInv, NEW r \in Requests, resume_record(r)
    PROVE  IInv'
<1> USE DEF IInv
<1>1. task[r].op = "cleared" /\ \A x \in task[r].held : x.flow_id \in Text
  BY DEF resume_record, Holding, Resuming, TypeOK, Task, SessionRecord
<1>2. TypeOK'
  BY <1>1, TypeResumeRecord
<1> DEFINE e(x) == synthesize_runner_event(x.flow_id, task[r].tenant, x.team,
                                           task[r].user, x.stamp)
<1>3. PICK s \in task[r].held :
        /\ record_runner_event(e(s))
        /\ echoed' = echoed \cup {s.stamp}
        /\ twice' = IF s.stamp \in echoed THEN twice \cup {s.stamp} ELSE twice
  BY DEF resume_record
<1>4. /\ task' = [task EXCEPT ![r] = Idle]
      /\ UNCHANGED <<backend, sessions, durable, clock, issued, overlap, lost, exposed>>
  BY DEF resume_record, store
<1>5. /\ \A q \in Requests : q # r => task'[q] = task[q]
      /\ task'[r].op = "idle" /\ task'[r].held = {}
  BY <1>4 DEF TypeOK, Idle
<1>6. /\ task[r].held = {s} /\ s \in SessionRecord /\ s \in issued
      /\ task[r].tenant \in {None, s.tenant} /\ task[r].user = s.user
  BY <1>1 DEF Holding, Resuming, Provenance, TypeOK
<1>7. e(s) \in RunnerEvent
  BY <1>1, <1>6 DEF synthesize_runner_event, RunnerEvent, SessionRecord,
                                  TypeOK, Task
<1>8. EchoIsAuthentic'
  BY <1>3, <1>4, <1>6, <1>7, PushAuthentic DEF synthesize_runner_event, TypeOK
<1>9. Provenance'
  BY <1>4, <1>5 DEF Provenance
<1>10. Holding'
  BY <1>5 DEF Holding, Resuming
<1>11. Consumed'
  BY <1>1, <1>3, <1>4, <1>5, <1>6 DEF Consumed, Provenance
<1>12. Exclusive'
  <2>1. \A n \in echoed' : n \in 1..clock'
    BY <1>3, <1>4, <1>6 DEF Exclusive, Provenance
  <2>2. \A q \in Requests : q # r /\ Resuming(q) =>
          \A x \in task[q].held : x.stamp = s.stamp => x.stamp \in overlap
    BY <1>1, <1>6 DEF Exclusive, Resuming, Provenance
  <2> QED
    BY <1>3, <1>4, <1>5, <2>1, <2>2 DEF Exclusive, Resuming
<1>13. DoubleEchoNeedsOverlap'
  BY <1>1, <1>3, <1>4 DEF DoubleEchoNeedsOverlap, Exclusive, Resuming
<1>14. UniqueKeys' /\ MemoryHasNoFile' /\ Guarded' /\ LossNeedsRace'
  BY <1>4, <1>5 DEF UniqueKeys, MemoryHasNoFile, Guarded, LossNeedsRace
<1> QED
  BY <1>2, <1>8, <1>9, <1>10, <1>11, <1>12, <1>13, <1>14

\* A task that ends without touching the stores disturbs nothing.
LEMMA TaskEnds ==
    ASSUME IInv, NEW r \in Requests, task' = [task EXCEPT ![r] = Idle],
           UNCHANGED <<backend, store, events, clock, history>>
    PROVE  IInv'
<1> USE DEF IInv, store, history
<1>1. /\ \A q \in Requests : q # r => task'[q] = task[q]
      /\ task'[r].op = "idle" /\ task'[r].held = {}
      /\ task' \in [Requests -> Task]
  BY DEF TypeOK, Idle, Task
<1>2. TypeOK'
  BY <1>1 DEF TypeOK
<1>3. Provenance' /\ Consumed' /\ Guarded'
  BY <1>1 DEF Provenance, Consumed, Guarded
<1>4. Holding' /\ Exclusive'
  BY <1>1 DEF Holding, Exclusive, Resuming
<1>5. /\ UniqueKeys' /\ MemoryHasNoFile' /\ EchoIsAuthentic'
      /\ DoubleEchoNeedsOverlap' /\ LossNeedsRace'
  BY DEF UniqueKeys, MemoryHasNoFile, EchoIsAuthentic, DoubleEchoNeedsOverlap, LossNeedsRace
<1> QED
  BY <1>2, <1>3, <1>4, <1>5

\* A purge under the mutex preserves IInv.
LEMMA StepDelete ==
    ASSUME IInv, NEW input \in PurgeInputs, delete_sessions(input)
    PROVE  IInv'
<1> USE DEF IInv
<1> DEFINE new == sessions \ Selected(input)
<1>1. PICK ok \in BOOLEAN : Write(new, ok)
  BY DEF delete_sessions
<1>2. UNCHANGED <<backend, events, task, clock, issued, echoed, twice, overlap,
                  lost, exposed, recorded, clearedAt>>
  BY DEF delete_sessions, history
<1>3. /\ sessions' = new /\ durable' \in {new, durable} /\ MemoryHasNoFile'
  BY <1>1, <1>2, WriteFacts
<1>4. sessions' \subseteq sessions /\ durable' \subseteq sessions \cup durable
  BY <1>3
<1>5. TypeOK'
  BY <1>2, <1>4 DEF TypeOK
<1>6. UniqueKeys'
  BY <1>3, <1>4 DEF UniqueKeys
<1>7. Provenance' /\ Consumed' /\ Guarded'
  BY <1>2, <1>4 DEF Provenance, Consumed, Guarded
<1>8. Holding' /\ Exclusive'
  BY <1>2 DEF Holding, Exclusive, Resuming
<1>9. EchoIsAuthentic' /\ DoubleEchoNeedsOverlap' /\ LossNeedsRace'
  BY <1>2 DEF EchoIsAuthentic, DoubleEchoNeedsOverlap, LossNeedsRace
<1> QED
  BY <1>3, <1>5, <1>6, <1>7, <1>8, <1>9

\* The read of a Redis purge preserves IInv.
LEMMA StepPurgeLoadAll ==
    ASSUME IInv, NEW r \in Requests, NEW input \in PurgeInputs, purge_load_all(r, input)
    PROVE  IInv'
<1> USE DEF IInv
<1>1. /\ UNCHANGED <<backend, sessions, durable, events, clock, issued, echoed, twice,
                     overlap, lost, exposed, recorded, clearedAt>>
      /\ task' = [task EXCEPT ![r] = [op |-> "purge", held |-> Selected(input),
                                      tenant |-> None, user |-> None]]
      /\ Selected(input) \subseteq sessions
  BY DEF purge_load_all, store, history, Selected
<1>2. /\ \A q \in Requests : q # r => task'[q] = task[q]
      /\ task'[r].op = "purge" /\ task'[r].held = Selected(input)
      /\ task' \in [Requests -> Task]
  BY <1>1 DEF TypeOK, Task
<1>3. TypeOK'
  BY <1>1, <1>2 DEF TypeOK
<1>4. Provenance' /\ Consumed'
  BY <1>1, <1>2 DEF Provenance, Consumed
<1>5. Guarded'
  BY <1>1, <1>2 DEF Guarded, UniqueKeys
<1>6. Holding' /\ Exclusive'
  BY <1>1, <1>2 DEF Holding, Exclusive, Resuming
<1>7. /\ UniqueKeys' /\ MemoryHasNoFile' /\ EchoIsAuthentic'
      /\ DoubleEchoNeedsOverlap' /\ LossNeedsRace'
  BY <1>1 DEF UniqueKeys, MemoryHasNoFile, EchoIsAuthentic, DoubleEchoNeedsOverlap,
              LossNeedsRace
<1> QED
  BY <1>3, <1>4, <1>5, <1>6, <1>7

\* One deletion of a Redis purge preserves IInv.
LEMMA StepPurgeDelete ==
    ASSUME IInv, NEW r \in Requests, purge_delete(r)
    PROVE  IInv'
<1> USE DEF IInv
<1>1. PICK s \in task[r].held :
        /\ Write(Removed(sessions, s.key), TRUE)
        /\ lost' = lost \cup Collateral({s})
        /\ task' = IF task[r].held = {s} THEN [task EXCEPT ![r] = Idle]
                   ELSE [task EXCEPT ![r].held = @ \ {s}]
  BY DEF purge_delete
<1>2. /\ task[r].op = "purge"
      /\ UNCHANGED <<backend, events, clock, issued, echoed, twice, overlap, exposed,
                     recorded, clearedAt>>
  BY DEF purge_delete
<1>3. /\ sessions' = Removed(sessions, s.key)
      /\ durable' \in {sessions', durable} /\ MemoryHasNoFile'
  BY <1>1, <1>2, WriteFacts
<1>4. /\ \A q \in Requests : q # r => task'[q] = task[q]
      /\ task'[r].op \in {"purge", "idle"} /\ task'[r].held \subseteq task[r].held
      /\ task' \in [Requests -> Task]
  <2>1. CASE task[r].held = {s}
    BY <1>1, <1>2, <2>1 DEF TypeOK, Idle, Task
  <2>2. CASE task[r].held # {s}
    BY <1>1, <1>2, <2>2 DEF TypeOK, Task
  <2> QED
    BY <2>1, <2>2
<1>5. sessions' \subseteq sessions /\ durable' \subseteq sessions \cup durable
  BY <1>3 DEF Removed
<1>6. lost' \subseteq Nat
  BY <1>1, CollateralType DEF TypeOK
<1>7. TypeOK'
  BY <1>2, <1>4, <1>5, <1>6 DEF TypeOK
<1>8. UniqueKeys'
  BY <1>3, <1>5 DEF UniqueKeys
<1>9. Provenance' /\ Consumed' /\ Guarded'
  BY <1>2, <1>4, <1>5 DEF Provenance, Consumed, Guarded
<1>10. Holding' /\ Exclusive'
  BY <1>2, <1>4 DEF Holding, Exclusive, Resuming
<1>11. LossNeedsRace'
  BY <1>1, <1>2, <1>3 DEF LossNeedsRace, Guarded, Collateral, Stamps, Removed
<1>12. EchoIsAuthentic' /\ DoubleEchoNeedsOverlap'
  BY <1>2 DEF EchoIsAuthentic, DoubleEchoNeedsOverlap
<1> QED
  BY <1>3, <1>7, <1>8, <1>9, <1>10, <1>11, <1>12

\* POST /runner/emit preserves IInv: its event resumes no session.
LEMMA StepEmit ==
    ASSUME IInv, NEW req \in EmitInputs, runner_emit(req)
    PROVE  IInv'
<1> USE DEF IInv
<1> DEFINE e == synthesize_runner_event(
                    req.flow, OrElse(req.tenant, DefaultTenant),
                    OrElse(req.team, DefaultTeam), req.user, 0)
<1>1. /\ record_runner_event(e) /\ recorded' = recorded + 1
      /\ UNCHANGED <<backend, sessions, durable, task, clock, issued, echoed, twice,
                     overlap, lost, exposed, clearedAt>>
  BY DEF runner_emit, store, history
<1>2. e \in RunnerEvent /\ e.source = 0
  BY TextAssumption, ServerAssumption
     DEF TypeOK, synthesize_runner_event, RunnerEvent, OrElse
<1> HIDE DEF e
<1>3. events' \in Seq(RunnerEvent)
  BY <1>1, <1>2, PushType DEF TypeOK
<1>4. TypeOK'
  BY <1>1, <1>3 DEF TypeOK
<1>5. EchoIsAuthentic'
  BY <1>1, <1>2, PushAuthentic DEF TypeOK
<1>6. Provenance' /\ Consumed' /\ Guarded' /\ UniqueKeys' /\ MemoryHasNoFile'
  BY <1>1 DEF Provenance, Consumed, Guarded, UniqueKeys, MemoryHasNoFile
<1>7. Holding' /\ Exclusive' /\ DoubleEchoNeedsOverlap' /\ LossNeedsRace'
  BY <1>1 DEF Holding, Exclusive, Resuming, DoubleEchoNeedsOverlap, LossNeedsRace
<1> QED
  BY <1>4, <1>5, <1>6, <1>7

\* DELETE /runner/events preserves IInv.
LEMMA StepClear ==
    ASSUME IInv, clear_runner_events
    PROVE  IInv'
<1> USE DEF IInv
<1>1. /\ events' = <<>> /\ clearedAt' = recorded
      /\ UNCHANGED <<backend, sessions, durable, task, clock, issued, echoed, twice,
                     overlap, lost, exposed, recorded>>
  BY DEF clear_runner_events, store
<1>2. TypeOK'
  BY <1>1 DEF TypeOK
<1>3. Provenance' /\ Consumed' /\ Guarded' /\ UniqueKeys' /\ MemoryHasNoFile'
  BY <1>1 DEF Provenance, Consumed, Guarded, UniqueKeys, MemoryHasNoFile
<1>4. Holding' /\ Exclusive' /\ DoubleEchoNeedsOverlap' /\ LossNeedsRace'
  BY <1>1 DEF Holding, Exclusive, Resuming, DoubleEchoNeedsOverlap, LossNeedsRace
<1>5. EchoIsAuthentic'
  BY <1>1 DEF EchoIsAuthentic
<1> QED
  BY <1>2, <1>3, <1>4, <1>5

\* A restart preserves IInv: what the backend kept was issued and not consumed.
LEMMA StepRestart ==
    ASSUME IInv, restart
    PROVE  IInv'
<1> USE DEF IInv
<1>1. /\ sessions' = durable /\ events' = <<>> /\ clearedAt' = recorded
      /\ task' = [q \in Requests |-> Idle]
      /\ UNCHANGED <<backend, durable, clock, issued, echoed, twice, overlap, lost,
                     exposed, recorded>>
  BY DEF restart
<1>2. \A q \in Requests : task'[q].op = "idle" /\ task'[q].held = {}
  BY <1>1 DEF Idle
<1>3. TypeOK'
  BY <1>1 DEF TypeOK, Task, Idle
<1>4. Provenance' /\ Consumed' /\ Guarded' /\ UniqueKeys' /\ MemoryHasNoFile'
  BY <1>1, <1>2 DEF Provenance, Consumed, Guarded, UniqueKeys, MemoryHasNoFile
<1>5. Holding' /\ Exclusive' /\ DoubleEchoNeedsOverlap' /\ LossNeedsRace'
  BY <1>1, <1>2 DEF Holding, Exclusive, Resuming, DoubleEchoNeedsOverlap, LossNeedsRace
<1>6. EchoIsAuthentic'
  BY <1>1 DEF EchoIsAuthentic
<1> QED
  BY <1>3, <1>4, <1>5, <1>6

-----------------------------------------------------------------------------
(* The inductive invariant is one                                          *)

\* The inductive invariant holds at the start,
LEMMA InitInv == Init => IInv
<1> SUFFICES ASSUME Init PROVE IInv
  OBVIOUS
<1>1. TypeOK
  BY TypeInit
<1>2. \A q \in Requests : task[q].op = "idle" /\ task[q].held = {}
  BY DEF Init, Idle
<1>3. /\ Provenance /\ Consumed /\ Guarded /\ UniqueKeys /\ MemoryHasNoFile
      /\ Holding /\ Exclusive /\ DoubleEchoNeedsOverlap /\ LossNeedsRace
      /\ EchoIsAuthentic
  BY <1>2 DEF Init, Provenance, Consumed, Guarded, UniqueKeys, MemoryHasNoFile, Holding,
              Exclusive, Resuming, DoubleEchoNeedsOverlap, LossNeedsRace, EchoIsAuthentic
<1> QED
  BY <1>1, <1>3 DEF IInv

\* every step preserves it,
LEMMA NextInv == IInv /\ [Next]_vars => IInv'
<1> SUFFICES ASSUME IInv, [Next]_vars PROVE IInv'
  OBVIOUS
<1>1. ASSUME NEW p \in UpsertPayloads, upsert_session(p) PROVE IInv'
  BY <1>1, StepUpsert
<1>2. ASSUME NEW r \in Requests, NEW req \in ResumeInputs, resume_find(r, req) PROVE IInv'
  BY <1>2, StepResumeFind
<1>3. ASSUME NEW r \in Requests, resume_remove(r) PROVE IInv'
  BY <1>3, StepResumeRemove
<1>4. ASSUME NEW r \in Requests, resume_remove_unreachable(r) PROVE IInv'
  BY <1>4, TaskEnds DEF resume_remove_unreachable
<1>5. ASSUME NEW r \in Requests, resume_record(r) PROVE IInv'
  BY <1>5, StepResumeRecord
<1>6. ASSUME NEW input \in PurgeInputs, delete_sessions(input) PROVE IInv'
  BY <1>6, StepDelete
<1>7. ASSUME NEW r \in Requests, NEW input \in PurgeInputs, purge_load_all(r, input)
      PROVE  IInv'
  BY <1>7, StepPurgeLoadAll
<1>8. ASSUME NEW r \in Requests, purge_delete(r) PROVE IInv'
  BY <1>8, StepPurgeDelete
<1>9. ASSUME NEW r \in Requests, purge_abort(r) PROVE IInv'
  BY <1>9, TaskEnds DEF purge_abort
<1>10. ASSUME NEW req \in EmitInputs, runner_emit(req) PROVE IInv'
  BY <1>10, StepEmit
<1>11. CASE clear_runner_events
  BY <1>11, StepClear
<1>12. CASE restart
  BY <1>12, StepRestart
<1>13. CASE UNCHANGED vars
  BY <1>13 DEF vars, history, IInv, TypeOK, UniqueKeys, Provenance, Holding, Resuming,
     MemoryHasNoFile, Consumed, Exclusive, Guarded, EchoIsAuthentic,
     DoubleEchoNeedsOverlap, LossNeedsRace
<1> QED
  BY <1>1, <1>2, <1>3, <1>4, <1>5, <1>6, <1>7, <1>8, <1>9, <1>10, <1>11, <1>12, <1>13
     DEF Next

\* and so it holds always.
LEMMA Invariance == Spec => []IInv
BY InitInv, NextInv, PTL DEF Spec

-----------------------------------------------------------------------------
(* The event log                                                           *)

Log == clearedAt <= recorded /\ EventLogKeepsNewest

\* Recording event number recorded + 1 keeps the log the newest events.
LEMMA PushKeepsNewest ==
    ASSUME TypeOK, Log, NEW e \in RunnerEvent, e.nr = recorded + 1,
           record_runner_event(e), recorded' = recorded + 1, clearedAt' = clearedAt
    PROVE  Log'
<1> DEFINE pushed == Append(events, e)
           n == Len(events)
<1>1. /\ events \in Seq(RunnerEvent) /\ n \in Nat /\ EventCap \in Nat \ {0}
      /\ recorded \in Nat /\ clearedAt \in Nat
  BY ServerAssumption DEF TypeOK
<1>2. /\ n = Min2(EventCap, recorded - clearedAt) /\ clearedAt <= recorded
      /\ \A i \in 1..n : events[i].nr = recorded - n + i
  BY <1>1 DEF Log, EventLogKeepsNewest
<1>3. pushed \in Seq(RunnerEvent) /\ Len(pushed) = n + 1
  BY <1>1
<1>4. \A i \in 1..(n + 1) : pushed[i].nr = recorded - n + i
  <2>1. TAKE i \in 1..(n + 1)
  <2>2. CASE i = n + 1
    BY <1>1, <2>2
  <2>3. CASE i \in 1..n
    BY <1>1, <1>2, <2>3
  <2> QED
    BY <1>1, <2>2, <2>3
<1>5. CASE n + 1 > EventCap
  <2>1. n = EventCap /\ EventCap <= recorded - clearedAt
    BY <1>1, <1>2, <1>5 DEF Min2
  <2>2. events' = SubSeq(pushed, 2, n + 1)
    BY <1>1, <1>3, <2>1, <1>5 DEF record_runner_event
  <2> HIDE DEF pushed
  <2>3. Len(events') = n /\ \A i \in 1..n : events'[i] = pushed[i + 1]
    BY <1>1, <1>3, <2>2, SubSeqProperties
  <2>4. \A i \in 1..n : events'[i].nr = recorded + 1 - n + i
    <3>1. TAKE i \in 1..n
    <3>2. i + 1 \in 1..(n + 1) /\ i \in Int
      BY <1>1
    <3>3. pushed[i + 1].nr = recorded - n + (i + 1)
      BY <1>4, <3>2
    <3>4. events'[i] = pushed[i + 1]
      BY <2>3
    <3> HIDE DEF n
    <3> QED
      BY <1>1, <3>2, <3>3, <3>4
  <2>5. DOMAIN events' = 1..n
    BY <1>1, <1>3, <2>2, <2>3, SubSeqProperties
  <2> QED
    <3>1. Len(events') = Min2(EventCap, recorded' - clearedAt')
      BY <1>1, <2>1, <2>3 DEF Min2
    <3>2. \A i \in DOMAIN events' : events'[i].nr = recorded' - Len(events') + i
      BY <1>1, <2>3, <2>4, <2>5
    <3>3. clearedAt' <= recorded'
      BY <1>1, <1>2
    <3> QED
      BY <3>1, <3>2, <3>3 DEF Log, EventLogKeepsNewest
<1>6. CASE ~(n + 1 > EventCap)
  <2>1. n = recorded - clearedAt
    BY <1>1, <1>2, <1>6 DEF Min2
  <2>2. events' = pushed
    BY <1>1, <1>3, <1>6 DEF record_runner_event
  <2> QED
    BY <1>1, <1>2, <1>3, <1>4, <1>6, <2>1, <2>2 DEF Log, EventLogKeepsNewest, Min2
<1> QED
  BY <1>1, <1>5, <1>6

\* Every step keeps the log the newest events since it was last emptied.
LEMMA LogStep == IInv /\ Log /\ [Next]_vars => Log'
<1> SUFFICES ASSUME IInv, Log, [Next]_vars PROVE Log'
  OBVIOUS
<1>1. ASSUME NEW r \in Requests, resume_record(r) PROVE Log'
  <2> DEFINE e(x) == synthesize_runner_event(x.flow_id, task[r].tenant, x.team,
                                             task[r].user, x.stamp)
  <2>1. PICK s \in task[r].held : record_runner_event(e(s))
    BY <1>1 DEF resume_record
  <2>2. TypeOK /\ task[r].op = "cleared" /\ recorded' = recorded + 1 /\ clearedAt' = clearedAt
    BY <1>1 DEF IInv, resume_record
  <2>3. s \in SessionRecord /\ s.flow_id \in Text
    <3>1. Resuming(r) /\ task[r].held \subseteq SessionRecord
      BY <2>2 DEF Resuming, TypeOK, Task
    <3>2. s.flow_id # None
      BY <3>1 DEF IInv, Holding
    <3> QED
      BY <3>1, <3>2 DEF SessionRecord
  <2>4. e(s) \in RunnerEvent /\ e(s).nr = recorded + 1
    BY <2>2, <2>3 DEF synthesize_runner_event, RunnerEvent, SessionRecord, TypeOK, Task
  <2> HIDE DEF e
  <2> QED
    BY <2>1, <2>2, <2>4, PushKeepsNewest
<1>2. ASSUME NEW req \in EmitInputs, runner_emit(req) PROVE Log'
  <2> DEFINE e == synthesize_runner_event(
                      req.flow, OrElse(req.tenant, DefaultTenant),
                      OrElse(req.team, DefaultTeam), req.user, 0)
  <2>1. /\ record_runner_event(e) /\ recorded' = recorded + 1 /\ clearedAt' = clearedAt
        /\ TypeOK
    BY <1>2 DEF runner_emit, IInv
  <2>2. e \in RunnerEvent /\ e.nr = recorded + 1
    BY <2>1, TextAssumption, ServerAssumption
       DEF TypeOK, synthesize_runner_event, RunnerEvent, OrElse
  <2> HIDE DEF e
  <2> QED
    BY <2>1, <2>2, PushKeepsNewest
<1>3. CASE events' = <<>> /\ clearedAt' = recorded /\ recorded' = recorded
  BY <1>3, ServerAssumption DEF IInv, TypeOK, Log, EventLogKeepsNewest, Min2
<1>4. CASE UNCHANGED <<events, recorded, clearedAt>>
  BY <1>4 DEF Log, EventLogKeepsNewest
<1> QED
  BY <1>1, <1>2, <1>3, <1>4
     DEF Next, vars, history, upsert_session, resume_find, resume_remove,
         resume_remove_unreachable, delete_sessions, purge_load_all, purge_delete,
         purge_abort, clear_runner_events, restart

-----------------------------------------------------------------------------
(* What follows for every behaviour                                        *)

\* Every value the server keeps is of its type: an accepted upsert always
\* yields a tenant and a user, and a recorded event always has a flow.
THEOREM TypeCorrect == Spec => []TypeOK
<1>1. IInv => TypeOK
  BY DEF IInv
<1> QED
  BY <1>1, Invariance, PTL

\* A resume's event repeats one stored session of the event's own tenant,
\* whatever other requests did between the handler's find and its record.
THEOREM EchoesAreAuthentic == Spec => []EchoIsAuthentic
<1>1. IInv => EchoIsAuthentic
  BY DEF IInv
<1> QED
  BY <1>1, Invariance, PTL

\* Two events for one stored session mean that two resumes held it at once;
\* nothing else, a restart on an old file included, resumes a session twice.
THEOREM OneEchoWithoutOverlap == Spec => []DoubleEchoNeedsOverlap
<1>1. IInv => DoubleEchoNeedsOverlap
  BY DEF IInv
<1> QED
  BY <1>1, Invariance, PTL

\* A handler removes a record it never read only if the record was stored
\* between that handler's read and its removal of the key.
THEOREM NoLossWithoutRace == Spec => []LossNeedsRace
<1>1. IInv => LossNeedsRace
  BY DEF IInv
<1> QED
  BY <1>1, Invariance, PTL

\* The runner event log is the newest events since it was last emptied, in
\* order and at most EventCap of them, whichever handlers recorded them.
THEOREM LogKeepsNewest == Spec => []EventLogKeepsNewest
<1>1. Init => Log
  BY ServerAssumption DEF Init, Log, EventLogKeepsNewest, Min2
<1>2. Log => EventLogKeepsNewest
  BY DEF Log
<1> QED
  BY <1>1, <1>2, Invariance, LogStep, PTL DEF Spec
=============================================================================
