-------------------------- MODULE SingleSession --------------------------
(***************************************************************************)
(* What the service (service.py) promises the rest of the runtime: one     *)
(* Sense account at a time has a cloud session open, one configuration at  *)
(* a time holds it, and the reported state is that configuration's.        *)
(* SenseService shows that the lock, the tasks and the clients implement   *)
(* this specification.                                                     *)
(***************************************************************************)
CONSTANTS Keys, Configs, None

VARIABLES
    account,   \* the credentials the open cloud session was opened with, or None
    holder,    \* the configuration that holds the session, or None
    reported   \* the connection state published for each configuration

vars == <<account, holder, reported>>

Init ==
    /\ account = None
    /\ holder = None
    /\ reported = [c \in Configs |-> "absent"]

(* A cloud session is opened; one that another account had open is closed   *)
(* first, and the configuration that held it does not hold the new one yet. *)
Connect(k) ==
    /\ account # k
    /\ holder = None => account = None
    /\ account' = k
    /\ holder' = None
    /\ UNCHANGED reported

(* Authentication succeeded. *)
Adopt(c) ==
    /\ account # None /\ holder = None
    /\ holder' = c
    /\ UNCHANGED <<account, reported>>

(* Removal, shutdown, or a failed authentication or first read. *)
Disconnect ==
    /\ account # None
    /\ account' = None
    /\ holder' = None
    /\ UNCHANGED reported

Report(c) ==
    /\ holder = c
    /\ \E status \in {"connected", "disconnected"} :
          reported' = [reported EXCEPT ![c] = status]
    /\ UNCHANGED <<account, holder>>

Next ==
    \/ \E k \in Keys : Connect(k)
    \/ \E c \in Configs : Adopt(c) \/ Report(c)
    \/ Disconnect

(* A cloud session no configuration holds is a connection attempt: it is    *)
(* adopted or it is given up.                                               *)
Settle == holder = None /\ ((\E c \in Configs : Adopt(c)) \/ Disconnect)

SafetySpec == Init /\ [][Next]_vars
Spec == SafetySpec /\ WF_vars(Settle)
===========================================================================
