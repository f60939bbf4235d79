--------------------------- MODULE SenseService ---------------------------
(***************************************************************************)
(* SenseRuntimeService (service.py): the one authenticated Sense client,   *)
(* its polling task, and the asyncio lock every operation runs under.      *)
(*                                                                         *)
(* asyncio is cooperative: a task runs alone from one suspension point to  *)
(* the next.  An action is such a stretch of code, and the program counter *)
(* of a caller names the await it is suspended in:                         *)
(*                                                                         *)
(*   queued          acquiring the lock                                    *)
(*   stopping        `await task` of _stop_locked                          *)
(*   closing         `await self._active.client.close()` of _stop_locked   *)
(*   authenticating  `await client.authenticate(config)`                   *)
(*   discarding      `await client.close()` of a failed authentication     *)
(*   firstRead       the read of the refresh that ends configure           *)
(*   unwinding       closing the session whose first read failed           *)
(*   reading         the read of refresh                                   *)
(*                                                                         *)
(* Acquiring a free lock does not suspend, so a call that finds it free    *)
(* starts its critical section in the step that makes the call.            *)
(***************************************************************************)
EXTENDS Naturals, SequencesExt

CONSTANTS
    Handlers,   \* HTTP requests that can be in flight at a time
    Lifespan,   \* the task of the application's lifespan, which closes the service
    Clients,    \* SenseClient objects; a poll task has the name of the client it was created for
    Configs,    \* config ids
    Keys,       \* credentials: pairs (email, password)
    Entries,    \* configurations: what POST /config carries, with the entry made from it
    None

ASSUME EntriesAssumption ==
    /\ Entries \subseteq [cfg : Configs, key : Keys, rev : Nat]
    /\ None \notin Configs \cup Keys \cup Entries
    /\ None \notin [client : Clients, entry : Entries]

ASSUME ProcessesAssumption ==
    /\ Lifespan \notin Handlers
    /\ Clients \cap (Handlers \cup {Lifespan}) = {}
    /\ None \notin Clients \cup Handlers \cup {Lifespan}

Callers == Handlers \cup {Lifespan}
Processes == Callers \cup Clients

Requests == [op : {"configure"}, entry : Entries]
              \cup [op : {"remove"}, cfg : Configs]
              \cup [op : {"refresh", "close"}]

ASSUME RequestsAssumption == None \notin Requests

VARIABLES
    owner,       \* the process that holds self._lock, None when it is free
    waiters,     \* the processes acquiring it, in order
    active,      \* self._active: None, or the session's client and entry
    pollTask,    \* self._poll_task
    client,      \* the credentials each client has an open cloud session for
    poll,        \* where each poll task is suspended, "none" when it is not alive
    watch,       \* the local `active` of each poll task, named by its client
    watched,     \* the config id of the entry of that session
    pc, req,     \* where each caller is suspended, and in which call
    fresh,       \* the local `client` of configure
    subject,     \* the config id of the local `active` of each caller's _refresh_locked
    published,   \* `connected` in the registry's state snapshot of each config
    telemetered  \* `connected` as last scheduled for delivery to Core

lockVars == <<owner, waiters>>
pollVars == <<pollTask, poll, watch, watched>>
callVars == <<pc, req, fresh, subject>>
outVars  == <<published, telemetered>>
vars == <<owner, waiters, active, pollTask, client, poll, watch, watched, pc, req, fresh,
          subject, published, telemetered>>

CallerPoints == {"idle", "queued", "stopping", "closing", "authenticating", "discarding",
                 "firstRead", "unwinding", "reading", "down"}
PollPoints == {"none", "created", "sleeping", "queued", "reading", "cancelled"}

Init ==
    /\ owner = None /\ waiters = <<>>
    /\ active = None
    /\ pollTask = None
    /\ client = [c \in Clients |-> None]
    /\ poll = [t \in Clients |-> "none"]
    /\ watch = [t \in Clients |-> None]
    /\ watched = [t \in Clients |-> None]
    /\ pc = [p \in Callers |-> "idle"]
    /\ req = [p \in Callers |-> None]
    /\ fresh = [p \in Callers |-> None]
    /\ subject = [p \in Callers |-> None]
    /\ published = [c \in Configs |-> "absent"]
    /\ telemetered = [c \in Configs |-> "absent"]

-----------------------------------------------------------------------------
(* The lock: asyncio.Lock hands over to its waiters in arrival order, and a *)
(* newcomer never overtakes a waiter.                                       *)

Enqueue(p) ==
    /\ owner # None
    /\ waiters' = Append(waiters, p)
    /\ UNCHANGED owner

Release ==
    IF waiters = <<>>
    THEN owner' = None /\ UNCHANGED waiters
    ELSE owner' = Head(waiters) /\ waiters' = Tail(waiters)

(* uvicorn serves requests until shutdown begins, and runs the lifespan's   *)
(* close only when the requests in flight have been answered.               *)
Allowed(p, r) ==
    IF p = Lifespan
    THEN r.op = "close" /\ \A h \in Handlers : pc[h] = "idle"
    ELSE r.op # "close" /\ pc[Lifespan] = "idle"

(* Caller p starts the body of `async with self._lock` of call r.           *)
Entering(p, r) ==
    \/ pc[p] = "idle" /\ Allowed(p, r) /\ owner = None
    \/ pc[p] = "queued" /\ owner = p /\ req[p] = r

(* Caller p, with the lock, suspends in call r at the given point.          *)
Suspend(p, r, point) ==
    /\ owner' = p /\ UNCHANGED waiters
    /\ pc' = [pc EXCEPT ![p] = point]
    /\ req' = [req EXCEPT ![p] = r]

(* Caller p leaves the lock and its call ends, by a return or an exception. *)
Return(p) ==
    /\ Release
    /\ pc' = [pc EXCEPT ![p] = IF p = Lifespan THEN "down" ELSE "idle"]
    /\ req' = [req EXCEPT ![p] = None]
    /\ fresh' = [fresh EXCEPT ![p] = None]
    /\ subject' = [subject EXCEPT ![p] = None]

(* The call ends without having changed anything. *)
Answer(p) == Return(p) /\ UNCHANGED <<active, client, pollVars, outVars>>

(* A call that finds the lock taken. *)
Arrive(p, r) ==
    /\ pc[p] = "idle" /\ Allowed(p, r)
    /\ Enqueue(p)
    /\ pc' = [pc EXCEPT ![p] = "queued"]
    /\ req' = [req EXCEPT ![p] = r]
    /\ UNCHANGED <<active, client, fresh, subject, pollVars, outVars>>

-----------------------------------------------------------------------------
(* _stop_locked *)

ActiveConfigId == IF active = None THEN None ELSE active.entry.cfg

LivePollers == {t \in Clients : poll[t] # "none"}

SomethingToStop == pollTask # None \/ active # None

(* MUTANT of BeginStop: the poll task is awaited without being cancelled.   *)
BeginStopWithoutCancel(p, r) ==
    /\ SomethingToStop
    /\ pollTask' = None
    /\ IF pollTask # None THEN Suspend(p, r, "stopping") ELSE Suspend(p, r, "closing")
    /\ UNCHANGED <<active, client, poll, watch, watched, fresh, subject, outVars>>

(* Up to the first await: the poll task, if any, is cancelled and awaited;  *)
(* otherwise the client's close is.                                         *)
BeginStop(p, r) ==
    /\ SomethingToStop
    /\ pollTask' = None
    /\ IF pollTask # None
       THEN /\ poll' = [poll EXCEPT ![pollTask] = "cancelled"]
            /\ Suspend(p, r, "stopping")
       ELSE /\ UNCHANGED poll
            /\ Suspend(p, r, "closing")
    /\ UNCHANGED <<active, client, watch, watched, fresh, subject, outVars>>

(* The awaited task, the only one alive, has ended; the client of its       *)
(* session is closed next.                                                  *)
StopPollEnded(p) ==
    /\ pc[p] = "stopping"
    /\ LivePollers = {}
    /\ pc' = [pc EXCEPT ![p] = "closing"]
    /\ UNCHANGED <<lockVars, active, client, pollVars, req, fresh, subject, outVars>>

(* The client of the active session, if there is one, is closed and the     *)
(* session forgotten.                                                       *)
AfterClose == IF active = None THEN client ELSE [client EXCEPT ![active.client] = None]

DropSession ==
    /\ client' = AfterClose
    /\ active' = None

-----------------------------------------------------------------------------
(* configure *)

SameConfig(r) == active # None /\ ActiveConfigId = r.entry.cfg
SameKey(r) == active # None /\ active.entry.key = r.entry.key

ConfigureRejected(p, r) ==
    /\ Entering(p, r) /\ r.op = "configure"
    /\ active # None /\ ~SameConfig(r)
    /\ Answer(p)

(* The same credentials: only config and entry of the session change.       *)
Reuse(p, r) ==
    /\ Entering(p, r)
    /\ active' = [active EXCEPT !.entry = r.entry]
    /\ Return(p)
    /\ UNCHANGED <<client, pollVars, outVars>>

(* MUTANTS of ConfigureReused: the credentials are not compared; the config  *)
(* id is not; the entry is not replaced; the session is reported connected. *)
ConfigureReusedAnyKey(p, r) == r.op = "configure" /\ SameConfig(r) /\ Reuse(p, r)
ConfigureReusedAnyConfig(p, r) == r.op = "configure" /\ SameKey(r) /\ Reuse(p, r)
ConfigureReusedKeepsEntry(p, r) ==
    r.op = "configure" /\ SameConfig(r) /\ SameKey(r) /\ Entering(p, r) /\ Answer(p)
ConfigureReusedReports(p, r) ==
    /\ r.op = "configure" /\ SameConfig(r) /\ SameKey(r) /\ Entering(p, r)
    /\ active' = [active EXCEPT !.entry = r.entry]
    /\ published' = [published EXCEPT ![ActiveConfigId] = "connected"]
    /\ Return(p)
    /\ UNCHANGED <<client, pollVars, telemetered>>

ConfigureReused(p, r) ==
    r.op = "configure" /\ SameConfig(r) /\ SameKey(r) /\ Reuse(p, r)

ConfigureStop(p, r) ==
    /\ Entering(p, r) /\ r.op = "configure"
    /\ active # None => SameConfig(r) /\ ~SameKey(r)
    /\ BeginStop(p, r)

(* client_factory() makes an object nothing refers to yet; authenticate     *)
(* opens its cloud session with the credentials of the configuration.       *)
Unused(c) ==
    /\ client[c] = None /\ poll[c] = "none"
    /\ active # None => active.client # c
    /\ \A t \in Clients : watch[t] # c

Authenticate(p, r, c) ==
    /\ Unused(c)
    /\ fresh' = [fresh EXCEPT ![p] = c]
    /\ Suspend(p, r, "authenticating")
    /\ UNCHANGED subject

ConfigureFirst(p, r) ==
    /\ Entering(p, r) /\ r.op = "configure"
    /\ ~SomethingToStop
    /\ \E c \in Clients : /\ Authenticate(p, r, c)
                          /\ client' = [client EXCEPT ![c] = r.entry.key]
    /\ UNCHANGED <<active, pollVars, outVars>>

(* MUTANT of ConfigureReplace: the old client is forgotten but not closed.  *)
ConfigureReplaceLeaks(p) ==
    /\ pc[p] = "closing" /\ req[p].op = "configure"
    /\ \E c \in Clients :
          /\ Authenticate(p, req[p], c)
          /\ client' = [client EXCEPT ![c] = req[p].entry.key]
    /\ active' = None
    /\ UNCHANGED <<pollVars, outVars>>

ConfigureReplace(p) ==
    /\ pc[p] = "closing" /\ req[p].op = "configure"
    /\ \E c \in Clients :
          /\ Authenticate(p, req[p], c)
          /\ client' = [AfterClose EXCEPT ![c] = req[p].entry.key]
    /\ active' = None
    /\ UNCHANGED <<pollVars, outVars>>

(* _refresh_locked takes the session it reads and reports into a local.     *)
AuthenticateOk(p) ==
    /\ pc[p] = "authenticating"
    /\ active' = [client |-> fresh[p], entry |-> req[p].entry]
    /\ subject' = [subject EXCEPT ![p] = req[p].entry.cfg]
    /\ pc' = [pc EXCEPT ![p] = "firstRead"]
    /\ UNCHANGED <<lockVars, client, pollVars, req, fresh, outVars>>

AuthenticateFailed(p) ==
    /\ pc[p] = "authenticating"
    /\ pc' = [pc EXCEPT ![p] = "discarding"]
    /\ UNCHANGED <<lockVars, active, client, pollVars, req, fresh, subject, outVars>>

(* MUTANTS of ConfigureDiscarded: the client is not closed; the failure is  *)
(* published for a configuration that holds no session.                     *)
ConfigureDiscardedLeaks(p) ==
    /\ pc[p] = "discarding"
    /\ Answer(p)

ConfigureDiscardedReports(p) ==
    /\ pc[p] = "discarding"
    /\ client' = [client EXCEPT ![fresh[p]] = None]
    /\ published' = [published EXCEPT ![req[p].entry.cfg] = "disconnected"]
    /\ Return(p)
    /\ UNCHANGED <<active, pollVars, telemetered>>

ConfigureDiscarded(p) ==
    /\ pc[p] = "discarding"
    /\ client' = [client EXCEPT ![fresh[p]] = None]
    /\ Return(p)
    /\ UNCHANGED <<active, pollVars, outVars>>

(* What _refresh_locked does with a reading of the session it has taken,    *)
(* whose config id is c; it does not look at self._active again.            *)
PublishReading(c) ==
    /\ published' = [published EXCEPT ![c] = "connected"]
    /\ telemetered' = [telemetered EXCEPT ![c] = "connected"]

ConfigureDone(p) ==
    /\ pc[p] = "firstRead"
    /\ PublishReading(subject[p])
    /\ pollTask' = fresh[p]
    /\ poll' = [poll EXCEPT ![fresh[p]] = "created"]
    /\ Return(p)
    /\ UNCHANGED <<active, client, watch, watched>>

(* There is no poll task to cancel yet: _stop_locked begins with the close. *)
FirstReadFailed(p) ==
    /\ pc[p] = "firstRead"
    /\ pc' = [pc EXCEPT ![p] = "unwinding"]
    /\ UNCHANGED <<lockVars, active, client, pollVars, req, fresh, subject, outVars>>

ConfigureUnwound(p) ==
    /\ pc[p] = "unwinding"
    /\ DropSession
    /\ Return(p)
    /\ UNCHANGED <<pollVars, outVars>>

-----------------------------------------------------------------------------
(* refresh, remove, close *)

RefreshRefused(p, r) ==
    /\ Entering(p, r) /\ r.op = "refresh"
    /\ active = None
    /\ Answer(p)

(* MUTANT of RefreshBegin: the reading is taken outside of the lock.        *)
RefreshBeginUnlocked(p, r) ==
    /\ Entering(p, r) /\ r.op = "refresh"
    /\ active # None
    /\ Release
    /\ pc' = [pc EXCEPT ![p] = "reading"]
    /\ req' = [req EXCEPT ![p] = r]
    /\ subject' = [subject EXCEPT ![p] = ActiveConfigId]
    /\ UNCHANGED <<active, client, pollVars, fresh, outVars>>

RefreshBegin(p, r) ==
    /\ Entering(p, r) /\ r.op = "refresh"
    /\ active # None
    /\ Suspend(p, r, "reading")
    /\ subject' = [subject EXCEPT ![p] = ActiveConfigId]
    /\ UNCHANGED <<active, client, pollVars, fresh, outVars>>

RefreshDone(p) ==
    /\ pc[p] = "reading"
    /\ PublishReading(subject[p])
    /\ Return(p)
    /\ UNCHANGED <<active, client, pollVars>>

(* The exception reaches the caller; the published state is left alone.     *)
RefreshFailed(p) ==
    /\ pc[p] = "reading"
    /\ Answer(p)

RemoveMissed(p, r) ==
    /\ Entering(p, r) /\ r.op = "remove"
    /\ ActiveConfigId # r.cfg
    /\ Answer(p)

RemoveStop(p, r) ==
    /\ Entering(p, r) /\ r.op = "remove"
    /\ ActiveConfigId = r.cfg
    /\ BeginStop(p, r)

CloseIdle(p, r) ==
    /\ Entering(p, r) /\ r.op = "close"
    /\ ~SomethingToStop
    /\ Answer(p)

(* MUTANT of CloseStop: only the client is closed, the poll task is left.   *)
CloseStopLeavesPoller(p, r) ==
    /\ Entering(p, r) /\ r.op = "close"
    /\ SomethingToStop
    /\ pollTask' = None
    /\ Suspend(p, r, "closing")
    /\ UNCHANGED <<active, client, poll, watch, watched, fresh, subject, outVars>>

CloseStop(p, r) ==
    /\ Entering(p, r) /\ r.op = "close"
    /\ BeginStop(p, r)

(* remove and close end once the session is dropped.                        *)
Stopped(p) ==
    /\ pc[p] = "closing" /\ req[p].op # "configure"
    /\ DropSession
    /\ Return(p)
    /\ UNCHANGED <<pollVars, outVars>>

-----------------------------------------------------------------------------
(* _poll_loop *)

(* The top of the loop: without a session the task returns, else it takes   *)
(* the session and sleeps for its poll interval.                            *)
LoopTop(t) ==
    /\ poll' = [poll EXCEPT ![t] = IF active = None THEN "none" ELSE "sleeping"]
    /\ watch' = [watch EXCEPT ![t] = IF active = None THEN None ELSE active.client]
    /\ watched' = [watched EXCEPT ![t] = ActiveConfigId]

PollStart(t) ==
    /\ poll[t] = "created"
    /\ LoopTop(t)
    /\ UNCHANGED <<lockVars, active, client, pollTask, callVars, outVars>>

PollWait(t) ==
    /\ poll[t] = "sleeping"
    /\ Enqueue(t)
    /\ poll' = [poll EXCEPT ![t] = "queued"]
    /\ UNCHANGED <<active, client, pollTask, watch, watched, callVars, outVars>>

(* With the lock, the task ends if its session is no longer the active one. *)
PollLocked(t) ==
    /\ \/ poll[t] = "sleeping" /\ owner = None
       \/ poll[t] = "queued" /\ owner = t
    /\ IF active # None /\ active.client = watch[t]
       THEN /\ owner' = t /\ UNCHANGED waiters
            /\ poll' = [poll EXCEPT ![t] = "reading"]
            /\ UNCHANGED <<watch, watched>>
       ELSE /\ Release
            /\ poll' = [poll EXCEPT ![t] = "none"]
            /\ watch' = [watch EXCEPT ![t] = None]
            /\ watched' = [watched EXCEPT ![t] = None]
    /\ UNCHANGED <<active, client, pollTask, callVars, outVars>>

PollDone(t) ==
    /\ poll[t] = "reading"
    /\ PublishReading(watched[t])
    /\ Release
    /\ LoopTop(t)
    /\ UNCHANGED <<active, client, pollTask, callVars>>

(* The error is published after the lock is left, without suspending, for   *)
(* the session the task took at the top of its loop.                        *)
PollFails(t, connected) ==
    /\ poll[t] = "reading"
    /\ Release
    /\ published' = [published EXCEPT ![watched[t]] = connected]
    /\ UNCHANGED <<active, client, pollTask, callVars, telemetered>>

(* MUTANTS of PollFailed: the exception ends the task; nothing is published. *)
PollFailedDies(t) ==
    /\ PollFails(t, "disconnected")
    /\ poll' = [poll EXCEPT ![t] = "none"]
    /\ watch' = [watch EXCEPT ![t] = None]
    /\ watched' = [watched EXCEPT ![t] = None]
PollFailedSilently(t) == PollFails(t, published[watched[t]]) /\ LoopTop(t)

PollFailed(t) == PollFails(t, "disconnected") /\ LoopTop(t)

(* CancelledError ends the task, and takes it out of the lock's waiters.    *)
PollCancelled(t) ==
    /\ poll[t] = "cancelled"
    /\ poll' = [poll EXCEPT ![t] = "none"]
    /\ watch' = [watch EXCEPT ![t] = None]
    /\ watched' = [watched EXCEPT ![t] = None]
    /\ \/ ~Contains(waiters, t) /\ UNCHANGED waiters
       \/ \E i \in 1..Len(waiters) : waiters[i] = t /\ waiters' = RemoveAt(waiters, i)
    /\ UNCHANGED <<owner, active, client, pollTask, callVars, outVars>>

-----------------------------------------------------------------------------

Enter(p) == \E r \in Requests :
    \/ ConfigureRejected(p, r) \/ ConfigureReused(p, r)
    \/ ConfigureStop(p, r) \/ ConfigureFirst(p, r)
    \/ RefreshRefused(p, r) \/ RefreshBegin(p, r)
    \/ RemoveMissed(p, r) \/ RemoveStop(p, r)
    \/ CloseIdle(p, r) \/ CloseStop(p, r)

Continue(p) ==
    \/ StopPollEnded(p) \/ ConfigureReplace(p)
    \/ AuthenticateOk(p) \/ AuthenticateFailed(p) \/ ConfigureDiscarded(p)
    \/ ConfigureDone(p) \/ FirstReadFailed(p) \/ ConfigureUnwound(p)
    \/ RefreshDone(p) \/ RefreshFailed(p)
    \/ Stopped(p)

PollStep(t) ==
    \/ PollStart(t) \/ PollWait(t) \/ PollLocked(t)
    \/ PollDone(t) \/ PollFailed(t) \/ PollCancelled(t)

(* After the lifespan's close the process exits.                            *)
Terminated == pc[Lifespan] = "down" /\ UNCHANGED vars

Next ==
    \/ \E p \in Callers, r \in Requests : Arrive(p, r)
    \/ \E p \in Callers : Enter(p) \/ Continue(p)
    \/ \E t \in Clients : PollStep(t)
    \/ Terminated

(* The event loop runs every ready task, asyncio.Lock serves its waiters,   *)
(* sleeps end, and calls to Sense return or fail (aiohttp's session has a   *)
(* total timeout).  Nothing makes a client of the runtime send a request.   *)
Fairness ==
    /\ \A p \in Callers : WF_vars(pc[p] = "queued" /\ Enter(p)) /\ WF_vars(Continue(p))
    /\ \A t \in Clients : WF_vars(PollStep(t))

SafetySpec == Init /\ [][Next]_vars
Spec == SafetySpec /\ Fairness

-----------------------------------------------------------------------------
(* Properties *)

OpenClients == {c \in Clients : client[c] # None}
CallerReading(p) == pc[p] \in {"firstRead", "reading"}

(* Every variable has its type.                                             *)
TypeOK ==
    /\ owner \in Processes \cup {None}
    /\ waiters \in Seq(Processes)
    /\ active \in {None} \cup [client : Clients, entry : Entries]
    /\ pollTask \in Clients \cup {None}
    /\ client \in [Clients -> Keys \cup {None}]
    /\ poll \in [Clients -> PollPoints]
    /\ watch \in [Clients -> Clients \cup {None}]
    /\ watched \in [Clients -> Configs \cup {None}]
    /\ pc \in [Callers -> CallerPoints]
    /\ req \in [Callers -> Requests \cup {None}]
    /\ fresh \in [Callers -> Clients \cup {None}]
    /\ subject \in [Callers -> Configs \cup {None}]
    /\ published \in [Configs -> {"absent", "connected", "disconnected"}]
    /\ telemetered \in [Configs -> {"absent", "connected", "disconnected"}]

(* "Own exactly one reusable Sense client": whatever is in flight, and      *)
(* while one account replaces another too, no two clients have a cloud      *)
(* session open.                                                            *)
AtMostOneOpenClient ==
    \A a, b \in OpenClients : a = b

(* The session the service holds is open, with the credentials of the entry *)
(* it holds; and when nothing runs under the lock, no other client is: a    *)
(* failed authentication or first read left nothing open behind.            *)
NoLeakedClient ==
    /\ active # None => client[active.client] = active.entry.key
    /\ owner = None => OpenClients = IF active = None THEN {} ELSE {active.client}

(* When nothing runs under the lock, a session has one live poll task, the  *)
(* one the next stop will cancel, it polls for that session, and without a  *)
(* session nothing polls.  Nothing polls a session being opened either.     *)
OnePollerPerSession ==
    /\ owner = None =>
          IF active = None
          THEN pollTask = None /\ LivePollers = {}
          ELSE /\ pollTask = active.client /\ LivePollers = {pollTask}
               /\ poll[pollTask] \in {"sleeping", "queued"} => watch[pollTask] = active.client
    /\ (\E p \in Callers : pc[p] \in {"authenticating", "discarding", "firstRead", "unwinding"})
          => pollTask = None /\ LivePollers = {}

(* A read in flight is of the session the service holds, and of an open     *)
(* client: stopping waits for the reads of callers, and for the poll task.  *)
ReadsOpenSession ==
    /\ (\E p \in Callers : CallerReading(p)) => active # None /\ active.client \in OpenClients
    /\ \A t \in Clients : poll[t] = "reading" =>
          active # None /\ active.client = watch[t] /\ watch[t] \in OpenClients

(* After the lifespan's close nothing of the service is left: no open       *)
(* client, no task, no one waiting.                                         *)
ShutdownIsClean ==
    pc[Lifespan] = "down" =>
        OpenClients = {} /\ LivePollers = {} /\ active = None /\ waiters = <<>> /\ owner = None

(* A session is never handed from one configuration or client to another:   *)
(* the slot is emptied in between.                                          *)
SlotIsPinned ==
    [][active # None /\ active' # None =>
          active'.client = active.client /\ active'.entry.cfg = active.entry.cfg]_vars

(* The state and the telemetry of a configuration change only while it      *)
(* holds the session: the reading or the error of a session that has been   *)
(* taken to be read is never published once that session is gone, although  *)
(* the call or the poll task that publishes it looks at its own copy only.  *)
OnlyHolderReports ==
    [][\A c \in Configs :
          (published'[c] # published[c] \/ telemetered'[c] # telemetered[c])
             => ActiveConfigId = c]_vars

(* Every call that waits for the lock is answered: the stop that holds the  *)
(* lock and awaits a poll task which waits for the lock is not a deadlock,  *)
(* and polling starves no one.                                              *)
CallsReturn ==
    \A p \in Callers : pc[p] = "queued" ~> pc[p] \in {"idle", "down"}

(* While a session is held it is polled again and again, whatever the       *)
(* outcome of a poll and however many callers use the lock.                 *)
PollingContinues ==
    []<>(active = None \/ \E t \in Clients : poll[t] = "reading")

(* The inductive invariant behind the properties above.  Whoever runs under *)
(* the lock owns it; a call knows its request and the client it opens; an   *)
(* open client is the session's, or the one a call is opening; a poll task  *)
(* is the session's, or one a call is stopping; who waits is in the queue   *)
(* once; and the lifespan closes when everyone else is done.                *)
Holding == CallerPoints \ {"idle", "queued", "down"}
Opening(p) == pc[p] \in {"authenticating", "discarding"}

LockInv ==
    /\ \A p \in Callers : pc[p] \in Holding => owner = p
    /\ \A t \in Clients : poll[t] = "reading" => owner = t

CallInv ==
    \A p \in Callers :
        /\ pc[p] \notin {"idle", "down"} => req[p] \in Requests
        /\ Opening(p) \/ pc[p] \in {"firstRead", "unwinding"} => req[p].op = "configure"
        /\ Opening(p) => /\ active = None
                         /\ fresh[p] \in Clients
                         /\ client[fresh[p]] = req[p].entry.key
        /\ CallerReading(p) => active # None

SessionInv ==
    /\ active # None => client[active.client] = active.entry.key
    /\ \A c \in OpenClients :
          \/ active # None /\ active.client = c
          \/ \E p \in Callers : Opening(p) /\ fresh[p] = c
    /\ \A t \in Clients : poll[t] = "reading" => active # None /\ active.client = watch[t]

(* The session a call or a poll task has taken to read and report is the    *)
(* one held, as long as it may do so; a client being opened was never one   *)
(* a poll task has taken.                                                   *)
ReportInv ==
    /\ \A p \in Callers : CallerReading(p) => subject[p] = ActiveConfigId
    /\ \A p \in Callers : Opening(p) => \A t \in Clients : watch[t] # fresh[p]
    /\ \A t \in Clients :
          active # None /\ active.client = watch[t] => watched[t] = ActiveConfigId

Core == TypeOK /\ LockInv /\ CallInv /\ SessionInv /\ ReportInv

Settling(p) == pc[p] \in {"stopping", "closing", "firstRead", "unwinding"}

(* The poll task of the session is alive, and so is one that is being       *)
(* stopped until it has ended; there is no other.                           *)
TaskInv ==
    /\ pollTask # None =>
          /\ active # None /\ active.client = pollTask
          /\ poll[pollTask] \in {"created", "sleeping", "queued", "reading"}
          /\ poll[pollTask] # "created" => watch[pollTask] = pollTask
    /\ \A t \in LivePollers :
          \/ t = pollTask
          \/ poll[t] = "cancelled" /\ pollTask = None /\ (\E p \in Callers : pc[p] = "stopping")
    /\ \A t, u \in LivePollers : t = u
    /\ active # None /\ pollTask = None => \E p \in Callers : Settling(p)
    /\ \A p \in Callers :
          /\ pc[p] \in {"stopping", "closing"} => active # None /\ pollTask = None
          /\ pc[p] \in {"firstRead", "unwinding"} => active # None /\ active.client = fresh[p]
          /\ pc[p] \in {"closing", "authenticating", "discarding", "firstRead", "unwinding"}
                => pollTask = None /\ LivePollers = {}

Waiting(x) ==
    \/ x \in Callers /\ pc[x] = "queued"
    \/ x \in Clients /\ poll[x] \in {"queued", "cancelled"}

(* The waiters of the lock are different processes that wait, its owner     *)
(* runs under it or has just been handed it, and a free lock has no waiter. *)
QueueInv ==
    /\ \A i \in 1..Len(waiters) : Waiting(waiters[i]) /\ waiters[i] # owner
    /\ \A i, j \in 1..Len(waiters) : waiters[i] = waiters[j] => i = j
    /\ owner = None => waiters = <<>>
    /\ owner \in Callers => pc[owner] \in Holding \cup {"queued"}
    /\ owner \in Clients => poll[owner] \in {"queued", "reading"}

(* A caller that waits is in the queue, or has just been handed the lock.   *)
InLine == {waiters[i] : i \in 1..Len(waiters)}

LineInv == \A p \in Callers : pc[p] = "queued" => owner = p \/ p \in InLine

(* What a call was made for, and what its stop was begun for.  The          *)
(* lifespan's only call is close, and no handler runs beside or after it.   *)
RequestInv ==
    /\ \A p \in Callers :
          /\ pc[p] \in {"idle", "down"} => req[p] = None
          /\ pc[p] \notin {"idle", "down"} => (req[p].op = "close" <=> p = Lifespan)
          /\ pc[p] = "reading" => req[p].op = "refresh"
          /\ pc[p] \in {"stopping", "closing"} =>
                /\ req[p].op # "refresh"
                /\ req[p].op = "configure" =>
                      ActiveConfigId = req[p].entry.cfg /\ active.entry.key # req[p].entry.key
                /\ req[p].op = "remove" => ActiveConfigId = req[p].cfg
          /\ pc[p] \in {"firstRead", "unwinding"} => active.entry = req[p].entry
    /\ pc[Lifespan] # "idle" => \A h \in Handlers : pc[h] = "idle"

InductiveInv == Core /\ TaskInv /\ QueueInv /\ LineInv /\ RequestInv /\ ShutdownIsClean

(* What the service promises, with neither lock nor tasks: the account with *)
(* an open cloud session, the configuration that holds it, and the state    *)
(* reported for every configuration.                                        *)
Slot == INSTANCE SingleSession WITH
    account  <- IF OpenClients = {} THEN None
                ELSE client[CHOOSE c \in Clients : client[c] # None],
    holder   <- ActiveConfigId,
    reported <- published

ImplementsSlot == Slot!Spec

(* The part of it without fairness, which does not ask that the service     *)
(* goes on: no step of the lock, of a call or of a poll task does more to   *)
(* the account, the holder and the reports than one step of the slot.       *)
KeepsSlot == Slot!SafetySpec
=============================================================================
