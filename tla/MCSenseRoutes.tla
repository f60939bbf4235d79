---------------------------- MODULE MCSenseRoutes ----------------------------
EXTENDS SenseRoutes

CONSTANTS home, cabin, k1, k2

(* Two revisions of the home configuration with the same credentials, one    *)
(* with other credentials, and a second configuration with those.            *)
MCEntries == {[cfg |-> home, key |-> k1, rev |-> 1], [cfg |-> home, key |-> k1, rev |-> 2],
              [cfg |-> home, key |-> k2, rev |-> 1], [cfg |-> cabin, key |-> k2, rev |-> 1]}

MCSnapshots == {s \in SUBSET Entries : \A d, e \in s : d.cfg = e.cfg => d = e}
=============================================================================
