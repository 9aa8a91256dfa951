--------------------------- MODULE SessionFilters ---------------------------
(***************************************************************************)
(* The text handling and matching rules shared by the session endpoints    *)
(* and the session stores: what a request's tenant, team and user become   *)
(* before they reach a store, and which records a filter selects.          *)
(*                                                                         *)
(* A piece of text is an element of Text; str::trim is the function Trim   *)
(* and Empty is the empty string, so " acme " and "acme" are two elements  *)
(* that Trim sends to the same one.                                        *)
(***************************************************************************)
CONSTANTS
    Text,           \* the texts requests and configuration may carry
    None,           \* an absent Option
    Empty,          \* the empty string
    Trim,           \* str::trim, as a function on Text
    DefaultTenant,  \* [defaults] of the configuration; None when not set
    DefaultTeam

Option(S) == S \cup {None}

ASSUME TextAssumption ==
    /\ None \notin Text
    /\ Trim \in [Text -> Text]
    /\ \A t \in Text : Trim[Trim[t]] = Trim[t]
    /\ DefaultTenant \in Option(Text)
    /\ DefaultTeam \in Option(Text)

\* Option::or
OrElse(a, b) == IF a = None THEN b ELSE a

sanitize_optional(v) ==
    IF v = None THEN None
    ELSE IF Trim[v] = Empty THEN None ELSE Trim[v]

-----------------------------------------------------------------------------
SessionFilterInput == [tenant: Option(Text), team: Option(Text), user: Option(Text)]
SessionFilter == SessionFilterInput

\* A missing JSON body is None; a field given in the body wins.
merge_with(query, body) ==
    IF body = None THEN query
    ELSE [tenant |-> OrElse(body.tenant, query.tenant),
          team   |-> OrElse(body.team, query.team),
          user   |-> OrElse(body.user, query.user)]

build_session_filter(input) ==
    [tenant |-> OrElse(sanitize_optional(input.tenant), sanitize_optional(DefaultTenant)),
     team   |-> OrElse(sanitize_optional(input.team), sanitize_optional(DefaultTeam)),
     user   |-> sanitize_optional(input.user)]

\* Mutant: the user is left out of the resume filter.
MutantResumeFilter(req) ==
    [tenant |-> OrElse(req.tenant, DefaultTenant),
     team   |-> OrElse(req.team, DefaultTeam),
     user   |-> None]

\* The filter of POST /sessions/resume: defaults apply, nothing is trimmed.
resume_filter(req) ==
    [tenant |-> OrElse(req.tenant, DefaultTenant),
     team   |-> OrElse(req.team, DefaultTeam),
     user   |-> req.user]

\* An absent field of a filter selects every record.
matches(filter, record) ==
    \A f \in {"tenant", "team", "user"} : filter[f] \in {None, record[f]}

-----------------------------------------------------------------------------
SessionUpsertRequest ==
    [key: Option(Text), tenant: Option(Text), team: Option(Text),
     user: Option(Text), flow_id: Option(Text)]

UpsertTenant(p) == OrElse(sanitize_optional(p.tenant), sanitize_optional(DefaultTenant))

\* Mutant: a missing user is not refused.
MutantUpsertAccepted(p) == UpsertTenant(p) # None

\* normalize_upsert_payload answers 400 unless both are there.
UpsertAccepted(p) == UpsertTenant(p) # None /\ sanitize_optional(p.user) # None

\* The record a store makes of the payload; now is its updated_at_epoch_ms.
normalize_upsert_payload(p, uuid, now) ==
    [key     |-> OrElse(sanitize_optional(p.key), uuid),
     tenant  |-> UpsertTenant(p),
     team    |-> OrElse(sanitize_optional(p.team), sanitize_optional(DefaultTeam)),
     user    |-> sanitize_optional(p.user),
     flow_id |-> sanitize_optional(p.flow_id),
     stamp   |-> now]
=============================================================================
