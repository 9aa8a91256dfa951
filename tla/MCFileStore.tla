----------------------------- MODULE MCFileStore -----------------------------
(* Small instances of FileSessionStore.                                    *)
EXTENDS FileSessionStore

CONSTANTS acme, beta, ann, bob, key1, key2, empty

MCText == {acme, beta, ann, bob, key1, key2, empty}
MCTrim == [t \in MCText |-> t]

Row(key, tenant, user) == [key |-> key, tenant |-> tenant, team |-> None, user |-> user]
MCUpserts == {Row(key1, acme, ann), Row(key2, beta, None), Row(key1, beta, bob)}

\* What `sessions purge` makes of --tenant acme, of --user ann, and of no flag.
Flags(tenant, user) == [tenant |-> tenant, team |-> None, user |-> user]
MCFilters == {build_session_filter(Flags(t, u)) : t \in {acme, None}, u \in {ann, None}}
=============================================================================
