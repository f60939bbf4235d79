--------------------------- MODULE MCPollCadence ---------------------------
EXTENDS PollCadence, TLC

(* A unit is a minute: polls every minute or two, trends every five or six.  *)
MCSettings == {[poll |-> 1, trend |-> 5], [poll |-> 2, trend |-> 6]}

Symmetry == Permutations(Handlers)
=============================================================================
