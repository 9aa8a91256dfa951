--------------------------- MODULE MCSessionServer ---------------------------
(* Small instances of SessionServer.                                       *)
EXTENDS SessionServer, TLC

CONSTANTS r1, r2, r3, acme, acmePadded, beta, ann, bob, flow, key, empty, u1, u2, u3

MCText == {acme, acmePadded, beta, ann, bob, flow, key, empty}
MCTrim == [t \in MCText |-> IF t = acmePadded THEN acme ELSE t]
MCUuid == <<u1, u2, u3>>

Who(tenant, user) == [tenant |-> tenant, team |-> None, user |-> user]
Upsert(k, tenant, user, flow_id) ==
    [key |-> k, tenant |-> tenant, team |-> None, user |-> user, flow_id |-> flow_id]

\* One key shared by two tenants, a generated key with the default tenant, a
\* session that waits in no flow, and a request without a user.
MCUpserts == {Upsert(key, acmePadded, ann, flow), Upsert(key, beta, bob, flow),
              Upsert(None, None, bob, flow), Upsert(key, acme, ann, empty),
              Upsert(key, acme, empty, flow)}
MCPurges == {<<Who(acme, None), None>>, <<Who(acme, ann), Who(beta, empty)>>}
MCResumes == {Who(None, ann), Who(beta, bob), Who(acmePadded, ann), Who(acme, None)}
MCEmits == {[flow |-> flow, tenant |-> None, team |-> None, user |-> bob]}

RequestSymmetry == Permutations(Requests)
=============================================================================
