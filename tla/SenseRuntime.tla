---------------------------- MODULE SenseRuntime ----------------------------
(***************************************************************************)
(* The runtime around the service (state.py, routes/): the registry of     *)
(* configurations, which apply_config and remove_config keep, and the      *)
(* events they append.  Neither suspends except in the service's calls, so *)
(* what they do before and after the call belongs to the step in which the *)
(* service suspends or returns.                                            *)
(***************************************************************************)
EXTENDS SenseService

CONSTANT Writers   \* the handlers that may carry configuration requests

ASSUME WritersAssumption == Writers \subseteq Handlers

VARIABLES
    registry,   \* the registry's entry of each config
    previous,   \* the local `previous` of apply_config
    event       \* the last "runtime.config" event appended for each config

runtimeVars == <<registry, previous, event>>
allVars == <<vars, runtimeVars>>

RuntimeInit ==
    /\ Init
    /\ registry = [c \in Configs |-> None]
    /\ previous = [h \in Handlers |-> None]
    /\ event = [c \in Configs |-> "none"]

Configuring(e) == [op |-> "configure", entry |-> e]
Removing(c) == [op |-> "remove", cfg |-> c]

-----------------------------------------------------------------------------
(* apply_config: the entry is registered before the service is called, and  *)
(* the one it replaced is put back if the call fails.                       *)

(* MUTANT of Begun: the arguments of registry.set swapped.                  *)
BegunSwapped(h, e) == IF pc[h] = "idle" THEN [registry EXCEPT ![e.cfg] = e.cfg] ELSE registry

Begun(h, e) == IF pc[h] = "idle" THEN [registry EXCEPT ![e.cfg] = e] ELSE registry
Prior(h, e) == IF pc[h] = "idle" THEN registry[e.cfg] ELSE previous[h]

ApplyBegin(h, e) ==
    /\ \/ Arrive(h, Configuring(e))
       \/ ConfigureStop(h, Configuring(e))
       \/ ConfigureFirst(h, Configuring(e))
    /\ registry' = Begun(h, e)
    /\ previous' = [previous EXCEPT ![h] = Prior(h, e)]
    /\ UNCHANGED event

ApplySucceeds(h, e) ==
    /\ \/ ConfigureReused(h, Configuring(e))
       \/ ConfigureDone(h) /\ req[h] = Configuring(e)
    /\ registry' = Begun(h, e)
    /\ previous' = [previous EXCEPT ![h] = None]
    /\ event' = [event EXCEPT ![e.cfg] = "applied"]

(* MUTANT of Rollback: the rejected entry stays registered.                 *)
RollbackForgotten(h, e) ==
    /\ registry' = Begun(h, e)
    /\ previous' = [previous EXCEPT ![h] = None]

Rollback(h, e) ==
    /\ registry' = [registry EXCEPT ![e.cfg] = Prior(h, e)]
    /\ previous' = [previous EXCEPT ![h] = None]

ApplyFails(h, e) ==
    /\ \/ ConfigureRejected(h, Configuring(e))
       \/ (ConfigureDiscarded(h) \/ ConfigureUnwound(h)) /\ req[h] = Configuring(e)
    /\ Rollback(h, e)
    /\ UNCHANGED event

(* remove_config: the entry is removed whatever the service answered. *)

RemoveBegin(h, c) ==
    /\ Arrive(h, Removing(c)) \/ RemoveStop(h, Removing(c))
    /\ UNCHANGED runtimeVars

(* MUTANT of RemoveEnds: nothing is removed where the service held nothing. *)
RemoveEndsIfHeld(h, c) ==
    /\ UNCHANGED previous
    /\ \/ RemoveMissed(h, Removing(c)) /\ UNCHANGED <<registry, event>>
       \/ /\ Stopped(h) /\ req[h] = Removing(c)
          /\ registry' = [registry EXCEPT ![c] = None]
          /\ event' = IF registry[c] = None THEN event ELSE [event EXCEPT ![c] = "removed"]

RemoveEnds(h, c) ==
    /\ \/ RemoveMissed(h, Removing(c))
       \/ Stopped(h) /\ req[h] = Removing(c)
    /\ registry' = [registry EXCEPT ![c] = None]
    /\ event' = IF registry[c] = None THEN event ELSE [event EXCEPT ![c] = "removed"]
    /\ UNCHANGED previous

-----------------------------------------------------------------------------
(* The refresh automation asks the service for a reading without looking at *)
(* the registry; the telemetry and state routes do the same after a check   *)
(* that finds an entry or a session.  The registry is left alone.           *)

Refresh(h) == LET r == [op |-> "refresh"] IN
    /\ \/ Arrive(h, r)
       \/ RefreshRefused(h, r)
       \/ RefreshBegin(h, r)
       \/ RefreshDone(h)
       \/ RefreshFailed(h)
    /\ UNCHANGED runtimeVars

(* The steps of a configuration request between its begin and its end.      *)
ConfigContinues(h) ==
    /\ \/ StopPollEnded(h) \/ ConfigureReplace(h) \/ FirstReadFailed(h)
       \/ AuthenticateOk(h) \/ AuthenticateFailed(h)
    /\ UNCHANGED runtimeVars

(* lifespan: the service is closed, the registry dies with the process.     *)
Shutdown == LET r == [op |-> "close"] IN
    /\ \/ Arrive(Lifespan, r)
       \/ CloseIdle(Lifespan, r) \/ CloseStop(Lifespan, r)
       \/ StopPollEnded(Lifespan) \/ Stopped(Lifespan)
    /\ UNCHANGED runtimeVars

RuntimeNext ==
    \/ \E h \in Writers, e \in Entries : ApplyBegin(h, e) \/ ApplySucceeds(h, e) \/ ApplyFails(h, e)
    \/ \E h \in Writers, c \in Configs : RemoveBegin(h, c) \/ RemoveEnds(h, c)
    \/ \E h \in Handlers : Refresh(h) \/ ConfigContinues(h)
    \/ Shutdown
    \/ \E t \in Clients : PollStep(t) /\ UNCHANGED runtimeVars
    \/ Terminated /\ UNCHANGED runtimeVars

RuntimeSpec == RuntimeInit /\ [][RuntimeNext]_allVars

-----------------------------------------------------------------------------
(* Properties *)

ConfigRequestInFlight(p) == req[p] # None /\ req[p].op # "refresh"

(* No configuration request is in flight. *)
Settled == \A p \in Callers : ~ConfigRequestInFlight(p)

RuntimeTypeOK ==
    /\ TypeOK
    /\ registry \in [Configs -> Entries \cup {None}]
    /\ previous \in [Handlers -> Entries \cup {None}]
    /\ event \in [Configs -> {"none", "applied", "removed"}]

(* Between configuration requests a session is held only for a registered   *)
(* configuration, with exactly its entry: /entities, /diagnostics and the   *)
(* sync, which enumerate the registry, see every session, and the polling   *)
(* interval and the container telemetry goes to are those of the entry.     *)
SessionIsRegistered ==
    Settled /\ active # None => registry[active.entry.cfg] = active.entry

(* Between configuration requests the last event of a configuration says    *)
(* whether it is registered: a rollback neither announces nor unannounces.  *)
EventsMatchRegistry ==
    Settled => \A c \in Configs : event[c] = "applied" <=> registry[c] # None

(* Every configuration request is atomic: it is accepted together with its  *)
(* session, or it leaves what is registered as it was.  A request in flight *)
(* is not accepted yet: what counts as registered is what it would put back *)
(* and its session counts from the step that answers it.                    *)
Applying(h, c) == req[h] # None /\ req[h].op = "configure" /\ req[h].entry.cfg = c
FirstReading(h) == pc[h] \in {"firstRead", "unwinding"}

Standing(c) == IF \E h \in Handlers : Applying(h, c)
               THEN previous[CHOOSE h \in Handlers : Applying(h, c)]
               ELSE registry[c]
Held == IF active = None \/ \E h \in Handlers : FirstReading(h) THEN None ELSE active.entry

Contract == INSTANCE ConfigContract WITH
    registered <- [c \in Configs |-> Standing(c)],
    session    <- Held

ImplementsContract == Contract!Spec

(* The inductive invariant behind the properties above, where configuration *)
(* requests arrive one at a time: only writers carry them; the registry and *)
(* the local `previous` hold entries under their own id, and the entry of a *)
(* request in flight is registered; a session is held for what counts as    *)
(* registered, and the events say what does.                                *)
OneWriter == \A g, h \in Writers : g = h

WritersConfigure == \A h \in Handlers : req[h] # None /\ req[h].op # "refresh" => h \in Writers

RegistryInv ==
    /\ \A c \in Configs : registry[c] # None => registry[c].cfg = c
    /\ \A h \in Handlers, c \in Configs : Applying(h, c) =>
          registry[c] = req[h].entry /\ (previous[h] # None => previous[h].cfg = c)
    /\ \A c \in Configs :
          /\ Held # None /\ Held.cfg = c => Standing(c) = Held
          /\ event[c] = "applied" <=> Standing(c) # None

RuntimeInv == RuntimeTypeOK /\ WritersConfigure /\ RegistryInv

(* "The runtime independently returns 409 if a second configuration reaches *)
(* it" (README.md): between configuration requests at most one is           *)
(* registered.                                                              *)
OneConfiguration ==
    Settled => \A c, d \in Configs : registry[c] # None /\ registry[d] # None => c = d

(* GET /entities: a monitor for every entry, and the appliances of the last *)
(* published state, which an error replaces by one without appliances.      *)
Monitors == {c \in Configs : registry[c] # None}
WithAppliances == {c \in Monitors : published[c] = "connected"}

(* "Failures must remain observable and retryable"                          *)
(* (docs/sense-library-research.md): between configuration requests a       *)
(* configuration that is shown as connected, appliances and all, has a      *)
(* session.                                                                 *)
FailuresAreObservable ==
    Settled /\ pc[Lifespan] = "idle" => \A c \in WithAppliances : ActiveConfigId = c

(* "Core evaluates them against projected telemetry state" (README.md):     *)
(* between calls the `connected` telemetry of the session says what the     *)
(* last poll or refresh published.                                          *)
TelemetryShowsConnection ==
    owner = None /\ active # None => telemetered[ActiveConfigId] = published[ActiveConfigId]
=============================================================================
