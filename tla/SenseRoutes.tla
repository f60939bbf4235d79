---------------------------- MODULE SenseRoutes ----------------------------
(***************************************************************************)
(* The routes together (routes/): the configuration requests of Core, one  *)
(* at a time, POST /config/sync among them, and beside them the routes     *)
(* that answer with a reading.                                             *)
(*                                                                         *)
(* Of the runtime kit's config_sync, which is not in the repository, is    *)
(* assumed what the route passes to it: the ids registered when the call   *)
(* begins, of which it removes those that are not in the snapshot;         *)
(* apply_config for those that are, one at a time, in any order; and that  *)
(* it either goes on after a failure or gives up.                          *)
(***************************************************************************)
EXTENDS SenseRuntime

CONSTANT Snapshots   \* the snapshots Core sends: sets of configurations

ASSUME SnapshotsAssumption ==
    Snapshots \subseteq {s \in SUBSET Entries : \A d, e \in s : d.cfg = e.cfg => d = e}

VARIABLES
    sync,    \* None, or what is left of the sync in flight
    asked,   \* the config id each reading route in flight was asked for
    kept     \* history: there never were two configurations at a time

routeVars == <<allVars, sync, asked, kept>>

Readers == Handlers \ Writers

RoutesInit ==
    /\ RuntimeInit
    /\ sync = None
    /\ asked = [h \in Readers |-> None]
    /\ kept = TRUE

Registered == {c \in Configs : registry[c] # None}
Ids(s) == {e.cfg : e \in s}

(* "Updates to an existing configuration do not consume another slot"       *)
(* (docs/core-single-instance-contract.md): whether Core keeps to one.      *)
Counted == kept' = (kept /\ \A c, d \in Registered' : c = d)

-----------------------------------------------------------------------------
(* POST /config and /deconfigure *)

Configure(h) == \E e \in Entries : ApplyBegin(h, e) \/ ApplySucceeds(h, e) \/ ApplyFails(h, e)
Deconfigure(h) == \E c \in Configs : RemoveBegin(h, c) \/ RemoveEnds(h, c)

ConfigRoute(h) ==
    /\ sync = None
    /\ Configure(h) \/ Deconfigure(h) \/ ConfigContinues(h)
    /\ UNCHANGED <<sync, asked>>

-----------------------------------------------------------------------------
(* POST /config/sync *)

Quiet == \A h \in Writers : pc[h] = "idle"

(* sync_config: registry.ids() is read once.                                *)
SyncBegin(s) ==
    /\ sync = None /\ Quiet /\ pc[Lifespan] = "idle"
    /\ sync' = [want |-> s, apply |-> s, remove |-> Registered \ Ids(s), failed |-> FALSE]
    /\ UNCHANGED <<allVars, asked>>

(* MUTANT of SyncApplies: a configuration that fails is tried again.        *)
SyncAppliesUntilOk(h, e) ==
    /\ sync # None /\ e \in sync.apply
    /\ \/ (ApplyBegin(h, e) \/ ApplyFails(h, e)) /\ UNCHANGED sync
       \/ ApplySucceeds(h, e) /\ sync' = [sync EXCEPT !.apply = @ \ {e}]

SyncApplies(h, e) ==
    /\ sync # None /\ e \in sync.apply
    /\ \/ ApplyBegin(h, e) /\ UNCHANGED sync
       \/ ApplySucceeds(h, e) /\ sync' = [sync EXCEPT !.apply = @ \ {e}]
       \/ /\ ApplyFails(h, e)
          /\ \/ sync' = [sync EXCEPT !.apply = @ \ {e}, !.failed = TRUE]
             \/ sync' = [sync EXCEPT !.apply = {}, !.remove = {}, !.failed = TRUE]

SyncRemoves(h, c) ==
    /\ sync # None /\ c \in sync.remove
    /\ \/ RemoveBegin(h, c) /\ UNCHANGED sync
       \/ RemoveEnds(h, c) /\ sync' = [sync EXCEPT !.remove = @ \ {c}]

SyncDone == sync # None /\ Quiet /\ sync.apply = {} /\ sync.remove = {}

SyncEnd == SyncDone /\ sync' = None /\ UNCHANGED allVars

(* One step of the sync that is in flight.                                  *)
SyncWork ==
    /\ \/ \E h \in Writers, e \in Entries : SyncApplies(h, e)
       \/ \E h \in Writers, c \in Configs : SyncRemoves(h, c)
       \/ \E h \in Writers : sync # None /\ ConfigContinues(h) /\ UNCHANGED sync
       \/ SyncEnd
    /\ UNCHANGED asked

-----------------------------------------------------------------------------
(* The routes that answer with a reading.  A route decides for which        *)
(* configuration it is asked before it waits for the service's lock; the    *)
(* reading is that of whatever session is there when it has the lock.       *)

Ask(h, c) ==
    /\ pc[h] = "idle"
    /\ Refresh(h)
    /\ asked' = [asked EXCEPT ![h] = IF pc'[h] = "idle" THEN None ELSE c]
    /\ UNCHANGED sync

(* POST /telemetry/device/{config_id}/example, and /telemetry/example for   *)
(* the registry's primary entry: get_entry_or_404.                          *)
Telemetry(h, c) == registry[c] # None /\ Ask(h, c)

(* GET /state?refresh=true: _refresh_all_state does nothing without a       *)
(* session.                                                                 *)
StateRefresh(h) == active # None /\ Ask(h, ActiveConfigId)

(* POST /command, of a command that is accepted: refresh_automation does    *)
(* not look at its target.  Any other is answered with 400 before the       *)
(* service is asked.                                                        *)
Command(h) == Ask(h, None)

Answered(h) ==
    /\ pc[h] # "idle"
    /\ Refresh(h)
    /\ asked' = [asked EXCEPT ![h] = IF pc'[h] = "idle" THEN None ELSE @]
    /\ UNCHANGED sync

PollOf(t) == PollStep(t) /\ UNCHANGED <<runtimeVars, sync, asked>>

-----------------------------------------------------------------------------
RoutesNext ==
    /\ \/ \E h \in Writers : ConfigRoute(h)
       \/ \E s \in Snapshots : SyncBegin(s)
       \/ SyncWork
       \/ \E h \in Readers, c \in Configs : Telemetry(h, c)
       \/ \E h \in Readers : Command(h) \/ StateRefresh(h) \/ Answered(h)
       \/ \E t \in Clients : PollOf(t)
       \/ sync = None /\ Shutdown /\ UNCHANGED <<sync, asked>>
       \/ Terminated /\ UNCHANGED <<runtimeVars, sync, asked>>
    /\ Counted

(* The kit goes on with what is left; the rest is as for the service.       *)
RoutesFairness ==
    /\ WF_routeVars(SyncWork /\ Counted)
    /\ \A h \in Readers : WF_routeVars(Answered(h) /\ Counted)
    /\ \A t \in Clients : WF_routeVars(PollOf(t) /\ Counted)

RoutesSpec == RoutesInit /\ [][RoutesNext]_routeVars /\ RoutesFairness

-----------------------------------------------------------------------------
(* Properties *)

SyncedOk == SyncDone /\ ~sync.failed

(* A sync that reports no failure has made the registry that of the         *)
(* snapshot, whatever was registered before it, with or without a session,  *)
(* and in whatever order the kit worked; a snapshot over the limit of one   *)
(* ("the runtime enforces the same limit if an older Core delivers more     *)
(* than one configuration", docs/contract.md) never passes.                 *)
SyncConverges ==
    SyncedOk => /\ Registered = Ids(sync.want)
                /\ \A e \in sync.want : registry[e.cfg] = e
                /\ \A d, e \in sync.want : d = e

(* The session is then that of the snapshot, with its entry: nothing polls  *)
(* for a configuration Core no longer has.                                  *)
SyncedSessionIsWanted ==
    SyncedOk => IF sync.want = {} THEN active = None /\ LivePollers = {}
                ELSE active # None /\ active.entry \in sync.want

(* The inductive invariant behind the two: what the kit still has to do,    *)
(* what is in flight is part of it, and what it has done, as long as        *)
(* nothing failed, is the session that is held.                             *)
SyncInv ==
    /\ sync \in {None} \cup [want : Snapshots, apply : SUBSET Entries, remove : SUBSET Configs,
                             failed : BOOLEAN]
    /\ sync # None =>
          /\ sync.apply \subseteq sync.want
          /\ sync.remove \cap Ids(sync.want) = {}
          /\ pc[Lifespan] = "idle"
          /\ \A h \in Handlers : req[h] # None =>
                /\ req[h].op = "configure" => req[h].entry \in sync.apply
                /\ req[h].op = "remove" => req[h].cfg \in sync.remove
          /\ ~sync.failed => /\ Registered \subseteq Ids(sync.want) \cup sync.remove
                             /\ \A e \in sync.want \ sync.apply : Held = e

(* A sync is answered, though it takes the lock again for each of its       *)
(* removals and configurations, with polls and refreshes in between.        *)
SyncReturns == sync # None ~> sync = None

(* While Core keeps to one configuration, replaced or not while requests    *)
(* wait for the lock: a route that was asked for one configuration answers  *)
(* with the reading of that one, or is refused.                             *)
AnswersAreTheirs ==
    kept => \A h \in Readers : pc[h] = "reading" /\ asked[h] # None => asked[h] = ActiveConfigId

(* The inductive invariant behind it.  A route that waits was asked for the *)
(* only configuration there is; or that one has lost its session meanwhile, *)
(* and whoever will open the next one waits behind the route.               *)
Ahead(x, y) ==
    \/ owner = x /\ y \in InLine
    \/ \E i, j \in 1..Len(waiters) : i < j /\ waiters[i] = x /\ waiters[j] = y

ServedFor(h, c) ==
    \/ Registered \subseteq {c}
    \/ active = None /\ \A w \in Writers : pc[w] = "queued" /\ Ahead(h, w)

AskedInv ==
    /\ asked \in [Readers -> Configs \cup {None}] /\ kept \in BOOLEAN
    /\ kept =>
          /\ \A c, d \in Registered : c = d
          /\ \A h \in Readers : asked[h] # None =>
                /\ pc[h] = "reading" => asked[h] = ActiveConfigId
                /\ pc[h] = "queued" => ServedFor(h, asked[h])
=============================================================================
