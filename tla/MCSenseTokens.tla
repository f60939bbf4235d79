---------------------------- MODULE MCSenseTokens ----------------------------
EXTENDS SenseTokens

CONSTANTS home, cabin, k1, k2

(* Two revisions of the home configuration with the same credentials, one    *)
(* with other credentials, and a second configuration.                       *)
MCEntries == {[cfg |-> home, key |-> k1, rev |-> 1], [cfg |-> home, key |-> k1, rev |-> 2],
              [cfg |-> home, key |-> k2, rev |-> 1], [cfg |-> cabin, key |-> k2, rev |-> 1]}
=============================================================================
