--------------------------- MODULE ConfigContract ---------------------------
(***************************************************************************)
(* What POST /config and POST /deconfigure promise Core (state.py), each   *)
(* as one step: a configuration is accepted together with the session that *)
(* serves it or it is not accepted, and its removal takes its session with *)
(* it.  SenseRuntime shows that the runtime implements this specification  *)
(* when configuration requests arrive one at a time.                       *)
(***************************************************************************)
CONSTANTS Configs, Entries, None

VARIABLES
    registered,   \* the accepted entry of each config, or None
    session       \* the entry a session is held for, or None

vars == <<registered, session>>

Init ==
    /\ registered = [c \in Configs |-> None]
    /\ session = None

(* A new account, or a new revision of the one whose session is held.       *)
Accept(e) ==
    /\ session = None \/ (session.cfg = e.cfg /\ session.key = e.key)
    /\ registered' = [registered EXCEPT ![e.cfg] = e]
    /\ session' = e

Deconfigure(c) ==
    /\ registered' = [registered EXCEPT ![c] = None]
    /\ session' = IF session # None /\ session.cfg = c THEN None ELSE session

(* Shutdown, or credentials about to be replaced. *)
Drop ==
    /\ session' = None
    /\ UNCHANGED registered

Next ==
    \/ \E e \in Entries : Accept(e)
    \/ \E c \in Configs : Deconfigure(c)
    \/ Drop

Spec == Init /\ [][Next]_vars

(* A session is held only for a configuration that was accepted, with the   *)
(* entry it was accepted with.                                              *)
SessionIsAccepted == session # None => registered[session.cfg] = session
=============================================================================
