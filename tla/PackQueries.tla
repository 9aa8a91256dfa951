------------------------------ MODULE PackQueries ------------------------------
(***************************************************************************)
(* What an index of packs shows to a tenant, a team and a user: `packs     *)
(* list`, GET /packs, and `packs plan`, which reads the manifest of the    *)
(* pack it has chosen a second time.                                       *)
(*                                                                         *)
(* A name is the sequence of its parts between colons; an override key     *)
(* tenant:team:user is their concatenation.  <<>> is a name that is not    *)
(* given, <<"">> one that is given and empty.                              *)
(***************************************************************************)
EXTENDS Naturals, Sequences, SequencesExt, FiniteSetsExt

CONSTANTS
    Parts,         \* what may stand between the colons of a name
    Directories,   \* the manifests of the packs root, as read_dir returns them
    Manifests,     \* what one of them may be replaced by
    Defaults,      \* [tenant, team] of the configuration
    Questions      \* [command, tenant, team, user, pack_id]: what is asked

\* A manifest: whether it is JSON, its id or <<>>, whether it has a version.
Manifest(json, id, version) == [json |-> json, id |-> id, version |-> version]
Unknown == <<"unknown">>
Dev == <<"dev">>

Name == Seq(Parts)
PackManifest == [json: BOOLEAN, id: Name, version: BOOLEAN]

ASSUME PacksAssumption ==
    /\ {"dev", "unknown"} \subseteq Parts
    /\ Directories \subseteq Seq(PackManifest) /\ Manifests \subseteq PackManifest
    /\ Defaults \subseteq [tenant: Name, team: Name]
    /\ Questions \subseteq
         [command: {"list", "plan"}, tenant: Name, team: Name, user: Name, pack_id: Name]

VARIABLES
    packs_at,    \* where the command is: "start", "indexed", "shown", "failed"
    directory,   \* the manifests on disk
    question,    \* what is asked, with the defaults in question.defaults
    entries,     \* the index it has built: [id, at]
    shown,       \* the entries it resolved, and the keys found and missing
    plan,        \* the plan: [pack_id, runner], or NoPlan
    replaced     \* history: a manifest was replaced after it was indexed

packsVars == <<packs_at, directory, question, entries, shown, plan, replaced>>

NoPlan == [pack_id |-> <<>>, runner |-> <<>>]
NothingShown == [resolved |-> <<>>, keys |-> {}, missing |-> {}]

PacksInit ==
    /\ packs_at = "start"
    /\ directory = <<>> /\ question = [command |-> "none"] /\ entries = <<>>
    /\ shown = NothingShown /\ plan = NoPlan /\ replaced = FALSE

\* Option::or.
Or(name, other) == IF name # <<>> THEN name ELSE other

\* The names resolve_for is called with: a plan has no user, the team of the
\* configuration, and a tenant in any case.
Asker(q) ==
    IF q.command = "list"
    THEN [tenant |-> Or(q.tenant, q.defaults.tenant), team |-> Or(q.team, q.defaults.team),
          user |-> q.user]
    ELSE [tenant |-> Or(Or(q.tenant, q.defaults.tenant), Dev), team |-> q.defaults.team,
          user |-> <<>>]

\* Mutant: the tenant's own pack goes first.
MutantDesired(a) ==
    IF a.tenant = <<>> THEN <<>>
    ELSE <<a.tenant>> \o (IF a.team = <<>> THEN <<>> ELSE <<a.tenant \o a.team>>)

\* The keys looked for, in this order.  A team counts only with a tenant, a
\* user only with a team.
Desired(a) ==
    LET of_user == IF a.user = <<>> THEN <<>> ELSE <<a.tenant \o a.team \o a.user>>
        of_team == IF a.team = <<>> THEN <<>> ELSE of_user \o <<a.tenant \o a.team>>
    IN  IF a.tenant = <<>> THEN <<>> ELSE of_team \o <<a.tenant>>

\* The entries of an id.
Having(index, key) == {i \in DOMAIN index : index[i].id = key}

\* For each key in turn, the first entry of that id.
Matched(index, keys) ==
    LET matched[n \in 0..Len(keys)] ==
            IF n = 0 THEN <<>>
            ELSE IF Having(index, keys[n]) = {} THEN matched[n - 1]
            ELSE Append(matched[n - 1], index[Min(Having(index, keys[n]))])
    IN  matched[Len(keys)]

resolve_for(index, a) ==
    LET matched == Matched(index, Desired(a))
        missing == {key \in ToSet(Desired(a)) : Having(index, key) = {}}
    IN  [resolved |-> IF matched = <<>> THEN index ELSE matched,
         keys |-> ToSet(Desired(a)) \ missing,
         missing |-> missing]

-----------------------------------------------------------------------------
(* The command                                                             *)

\* build_pack_index: a manifest that is not JSON fails the command, one
\* without an id is "unknown".
build_pack_index(q, defaults, d) ==
    /\ packs_at = "start"
    /\ question' = [command |-> q.command, tenant |-> q.tenant, team |-> q.team,
                    user |-> q.user, pack_id |-> q.pack_id, defaults |-> defaults]
    /\ directory' = d
    /\ IF \E i \in DOMAIN d : ~d[i].json
       THEN packs_at' = "failed" /\ UNCHANGED entries
       ELSE /\ packs_at' = "indexed"
            /\ entries' = [i \in DOMAIN d |-> [id |-> Or(d[i].id, Unknown), at |-> i]]
    /\ UNCHANGED <<shown, plan, replaced>>

\* Somebody installs another version of a pack.
replaces(i, m) ==
    /\ packs_at = "indexed" /\ ~replaced
    /\ directory' = [directory EXCEPT ![i] = m]
    /\ replaced' = TRUE
    /\ UNCHANGED <<packs_at, question, entries, shown, plan>>

list_packs ==
    /\ packs_at = "indexed" /\ question.command = "list"
    /\ packs_at' = "shown"
    /\ shown' = resolve_for(entries, Asker(question))
    /\ UNCHANGED <<directory, question, entries, plan, replaced>>

\* The entry a plan is made of: the first resolved, or the first resolved
\* with the id asked for.
Chosen(resolved, pack_id) ==
    {i \in DOMAIN resolved : pack_id = <<>> \/ resolved[i].id = pack_id}

\* infer_base_deployment_plan needs an id and a version.
PlanOf(entry) ==
    LET m == directory[entry.at]
    IN  IF m.json /\ m.id # <<>> /\ m.version THEN [pack_id |-> m.id, runner |-> entry.id]
        ELSE NoPlan

plan_pack ==
    /\ packs_at = "indexed" /\ question.command = "plan"
    /\ shown' = resolve_for(entries, Asker(question))
    /\ LET chosen == Chosen(shown'.resolved, question.pack_id)
       IN  plan' = IF chosen = {} THEN NoPlan ELSE PlanOf(shown'.resolved[Min(chosen)])
    /\ packs_at' = IF plan' = NoPlan THEN "failed" ELSE "shown"
    /\ UNCHANGED <<directory, question, entries, replaced>>

PacksNext ==
    \/ \E q \in Questions, defaults \in Defaults, d \in Directories :
          build_pack_index(q, defaults, d)
    \/ \E i \in DOMAIN directory, m \in Manifests : replaces(i, m)
    \/ list_packs
    \/ plan_pack

-----------------------------------------------------------------------------
(* Properties                                                              *)

\* The ids of the packs that are of who asks, by the names given without a
\* gap, and how specific an id is to him: its place among them, or 0.
Own(a) ==
    CASE a.tenant = <<>> -> <<>>
      [] a.tenant # <<>> /\ a.team = <<>> -> <<a.tenant>>
      [] a.tenant # <<>> /\ a.team # <<>> /\ a.user = <<>> -> <<a.tenant, a.tenant \o a.team>>
      [] OTHER -> <<a.tenant, a.tenant \o a.team, a.tenant \o a.team \o a.user>>
Level(a, id) ==
    LET levels == {n \in DOMAIN Own(a) : id = Own(a)[n]}
    IN  IF levels = {} THEN 0 ELSE Max(levels)

\* Only the asker's own packs, the most specific there is first and each
\* more specific than the next; of packs of one id read_dir's first.
ShowsOverrides(index, a, resolved) ==
    LET levels == {Level(a, index[i].id) : i \in DOMAIN index} \ {0}
    IN  IF levels = {} THEN resolved = index
        ELSE /\ resolved # <<>>
             /\ \A level \in levels : Level(a, resolved[1].id) >= level
             /\ \A i \in DOMAIN resolved : Level(a, resolved[i].id) \in levels
             /\ \A i, j \in DOMAIN resolved :
                   i < j => Level(a, resolved[i].id) > Level(a, resolved[j].id)
             /\ \A i \in DOMAIN resolved, j \in DOMAIN index :
                   index[j].id = resolved[i].id => resolved[i].at <= j

\* Where a pack of the asking user, team or tenant exists, `packs list` and GET
\* /packs put the most specific match first, and nobody else's pack is shown;
\* otherwise all are.  Whether less specific ones of his follow is left open:
\* the code shows them, where docs/APP_DESIGN.md:123 speaks of one match.
\* `packs plan` plans the first of them, or the one asked for, under the id it
\* was indexed with unless its manifest was replaced in between.
PacksFollowOverrides ==
    packs_at = "shown" =>
        /\ ShowsOverrides(entries, Asker(question), shown.resolved)
        /\ question.command = "plan" =>
              plan.runner = Or(question.pack_id, Head(shown.resolved).id)
        /\ question.command = "plan" /\ ~replaced => plan.pack_id = plan.runner

=============================================================================
