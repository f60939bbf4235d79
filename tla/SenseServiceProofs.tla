------------------------- MODULE SenseServiceProofs -------------------------
(***************************************************************************)
(* Theorems about SenseService for every set of handlers, clients,         *)
(* configurations and credentials.                                         *)
(***************************************************************************)
EXTENDS SenseService, TLAPS

(* The calls of the service, and the entry configure carries.               *)
LEMMA RequestFields ==
    ASSUME NEW r \in Requests
    PROVE  /\ r.op \in {"configure", "remove", "refresh", "close"}
           /\ r.op = "configure" => r.entry \in Entries
BY DEF Requests

(* A configuration has an id and credentials, neither of them None.         *)
LEMMA EntryFields ==
    ASSUME NEW e \in Entries
    PROVE  e.cfg \in Configs /\ e.key \in Keys /\ e.key # None /\ e.cfg # None
BY EntriesAssumption

(* The lifespan task is not one of the request handlers.                    *)
LEMMA NotTheLifespan ==
    \A p \in Handlers : p # Lifespan /\ p # None
BY ProcessesAssumption

(* A task taken out of the waiters leaves a sequence of the others.         *)
LEMMA RemoveAtType ==
    ASSUME NEW S, NEW s \in Seq(S), NEW i \in 1..Len(s)
    PROVE  RemoveAt(s, i) \in Seq(S)
BY DEF RemoveAt

-----------------------------------------------------------------------------
(* TypeOK *)

(* The variables start with their types.                                    *)
LEMMA InitTypeOK == Init => TypeOK
BY DEF Init, TypeOK, CallerPoints, PollPoints

(* The id of the session held is that of a configuration.                   *)
LEMMA ActiveIdType ==
    ASSUME TypeOK
    PROVE  /\ ActiveConfigId \in Configs \cup {None}
           /\ active # None => ActiveConfigId \in Configs
BY EntryFields DEF TypeOK, ActiveConfigId

(* Closing the client of the session, if there is one, keeps the types.     *)
LEMMA AfterCloseType ==
    ASSUME TypeOK
    PROVE  AfterClose \in [Clients -> Keys \cup {None}]
BY DEF TypeOK, AfterClose

(* Handing the lock over keeps the types of owner and waiters.              *)
LEMMA ReleaseType ==
    ASSUME TypeOK, Release
    PROVE  owner' \in Processes \cup {None} /\ waiters' \in Seq(Processes)
<1>1. waiters \in Seq(Processes)
  BY DEF TypeOK
<1>2. CASE waiters = <<>>
  BY <1>1, <1>2 DEF Release
<1>3. CASE waiters # <<>>
  <2>1. Head(waiters) \in Processes /\ Tail(waiters) \in Seq(Processes)
    BY <1>1, <1>3
  <2> QED BY <1>3, <2>1 DEF Release
<1> QED BY <1>2, <1>3

(* So does the return of a call, and it keeps the types of the call.        *)
LEMMA ReturnType ==
    ASSUME TypeOK, NEW p \in Callers, Return(p)
    PROVE  /\ owner' \in Processes \cup {None} /\ waiters' \in Seq(Processes)
           /\ pc' \in [Callers -> CallerPoints]
           /\ req' \in [Callers -> Requests \cup {None}]
           /\ fresh' \in [Callers -> Clients \cup {None}]
           /\ subject' \in [Callers -> Configs \cup {None}]
<1>1. owner' \in Processes \cup {None} /\ waiters' \in Seq(Processes)
  BY ReleaseType DEF Return
<1> QED BY <1>1 DEF Return, TypeOK, CallerPoints

(* Suspending in a call keeps the types of the lock and of the call.        *)
LEMMA SuspendType ==
    ASSUME TypeOK, NEW p \in Callers, NEW r \in Requests, NEW point \in CallerPoints,
           Suspend(p, r, point)
    PROVE  /\ owner' \in Processes \cup {None} /\ waiters' \in Seq(Processes)
           /\ pc' \in [Callers -> CallerPoints]
           /\ req' \in [Callers -> Requests \cup {None}]
BY DEF Suspend, TypeOK, Processes

(* The start of _stop_locked keeps every type.                              *)
LEMMA BeginStopType ==
    ASSUME TypeOK, NEW p \in Callers, NEW r \in Requests, BeginStop(p, r)
    PROVE  TypeOK'
<1>1. CASE pollTask # None
  <2>1. Suspend(p, r, "stopping")
    BY <1>1 DEF BeginStop
  <2>2. poll' \in [Clients -> PollPoints]
    BY <1>1 DEF BeginStop, TypeOK, PollPoints
  <2> QED BY <2>1, <2>2, SuspendType DEF BeginStop, TypeOK, CallerPoints, outVars
<1>2. CASE pollTask = None
  <2>1. Suspend(p, r, "closing") /\ UNCHANGED poll
    BY <1>2 DEF BeginStop
  <2> QED BY <2>1, SuspendType DEF BeginStop, TypeOK, CallerPoints, outVars
<1> QED BY <1>1, <1>2

(* The steps of calls and of poll tasks, one by one. *)
LEMMA CallTypeOK ==
    ASSUME TypeOK, NEW p \in Callers, NEW r \in Requests,
           \/ Arrive(p, r) \/ ConfigureRejected(p, r) \/ ConfigureReused(p, r)
           \/ ConfigureStop(p, r) \/ ConfigureFirst(p, r)
           \/ RefreshRefused(p, r) \/ RefreshBegin(p, r)
           \/ RemoveMissed(p, r) \/ RemoveStop(p, r)
           \/ CloseIdle(p, r) \/ CloseStop(p, r)
    PROVE  TypeOK'
<1> USE RequestFields, EntryFields
<1>1. CASE Arrive(p, r)
  BY <1>1 DEF Arrive, Enqueue, TypeOK, pollVars, outVars, Processes, CallerPoints
<1>2. CASE ConfigureRejected(p, r) \/ RefreshRefused(p, r) \/ RemoveMissed(p, r) \/ CloseIdle(p, r)
  BY <1>2, ReturnType DEF ConfigureRejected, RefreshRefused, RemoveMissed, CloseIdle,
                          TypeOK, pollVars, outVars, Answer
<1>3. CASE ConfigureReused(p, r)
  <2>1. active \in [client : Clients, entry : Entries] /\ r.entry \in Entries
    BY <1>3 DEF ConfigureReused, TypeOK, SameConfig, SameKey, Reuse
  <2>2. active' \in [client : Clients, entry : Entries]
    BY <1>3, <2>1 DEF ConfigureReused, SameConfig, SameKey, Reuse
  <2> QED BY <1>3, <2>2, ReturnType DEF ConfigureReused, TypeOK, pollVars, outVars, SameConfig,
        SameKey, Reuse
<1>4. CASE ConfigureStop(p, r) \/ RemoveStop(p, r) \/ CloseStop(p, r)
  BY <1>4, BeginStopType DEF ConfigureStop, RemoveStop, CloseStop
<1>5. CASE ConfigureFirst(p, r)
  <2>1. PICK c \in Clients : Authenticate(p, r, c) /\ client' = [client EXCEPT ![c] = r.entry.key]
    BY <1>5 DEF ConfigureFirst
  <2>2. client' \in [Clients -> Keys \cup {None}]
    BY <1>5, <2>1 DEF ConfigureFirst, TypeOK
  <2>3. /\ fresh' \in [Callers -> Clients \cup {None}] /\ Suspend(p, r, "authenticating")
        /\ UNCHANGED subject
    BY <2>1 DEF Authenticate, TypeOK
  <2> QED BY <1>5, <2>2, <2>3, SuspendType DEF ConfigureFirst, TypeOK, pollVars, outVars, CallerPoints
<1>6. CASE RefreshBegin(p, r)
  <2>1. Suspend(p, r, "reading")
    BY <1>6 DEF RefreshBegin
  <2>2. subject' \in [Callers -> Configs \cup {None}]
    BY <1>6, ActiveIdType DEF RefreshBegin, TypeOK
  <2> QED BY <1>6, <2>1, <2>2, SuspendType DEF RefreshBegin, TypeOK, pollVars, outVars, CallerPoints
<1> QED BY <1>1, <1>2, <1>3, <1>4, <1>5, <1>6

(* Publishing a reading keeps the types of what is reported.                *)
LEMMA PublishType ==
    ASSUME TypeOK, NEW c, PublishReading(c)
    PROVE  /\ published' \in [Configs -> {"absent", "connected", "disconnected"}]
           /\ telemetered' \in [Configs -> {"absent", "connected", "disconnected"}]
BY DEF PublishReading, TypeOK

(* The steps of a call after its first await keep every type.               *)
LEMMA ContinueTypeOK ==
    ASSUME TypeOK, CallInv, NEW p \in Callers, Continue(p)
    PROVE  TypeOK'
<1> USE RequestFields, EntryFields
<1>1. CASE StopPollEnded(p) \/ AuthenticateFailed(p) \/ FirstReadFailed(p)
  BY <1>1 DEF StopPollEnded, AuthenticateFailed, FirstReadFailed, TypeOK,
              lockVars, pollVars, outVars, CallerPoints
<1>2. CASE ConfigureReplace(p)
  <2>1. req[p] \in Requests /\ req[p].op = "configure"
    BY <1>2 DEF ConfigureReplace, CallInv
  <2>2. PICK c \in Clients :
           /\ Authenticate(p, req[p], c)
           /\ client' = [AfterClose EXCEPT ![c] = req[p].entry.key]
    BY <1>2 DEF ConfigureReplace
  <2>3. client' \in [Clients -> Keys \cup {None}]
    BY <2>1, <2>2, AfterCloseType
  <2>4. /\ fresh' \in [Callers -> Clients \cup {None}] /\ Suspend(p, req[p], "authenticating")
        /\ UNCHANGED subject
    BY <2>2 DEF Authenticate, TypeOK
  <2> QED BY <1>2, <2>1, <2>3, <2>4, SuspendType
          DEF ConfigureReplace, TypeOK, pollVars, outVars, CallerPoints
<1>3. CASE AuthenticateOk(p)
  <2>1. fresh[p] \in Clients /\ req[p] \in Requests /\ req[p].op = "configure"
    BY <1>3 DEF AuthenticateOk, CallInv, Opening
  <2>2. active' \in [client : Clients, entry : Entries]
    BY <1>3, <2>1 DEF AuthenticateOk
  <2>3. subject' \in [Callers -> Configs \cup {None}]
    BY <1>3, <2>1 DEF AuthenticateOk, TypeOK
  <2> QED BY <1>3, <2>2, <2>3 DEF AuthenticateOk, TypeOK, lockVars, pollVars, outVars, CallerPoints
<1>4. CASE ConfigureDiscarded(p)
  BY <1>4, ReturnType DEF ConfigureDiscarded, TypeOK, pollVars, outVars
<1>5. CASE ConfigureDone(p)
  <2>1. active \in [client : Clients, entry : Entries]
    BY <1>5 DEF ConfigureDone, CallInv, CallerReading, TypeOK
  <2> QED BY <1>5, <2>1, ReturnType, PublishType DEF ConfigureDone, TypeOK, PollPoints
<1>6. CASE ConfigureUnwound(p) \/ Stopped(p)
  BY <1>6, ReturnType, AfterCloseType
     DEF ConfigureUnwound, Stopped, DropSession, TypeOK, pollVars, outVars
<1>7. CASE RefreshDone(p) \/ RefreshFailed(p)
  BY <1>7, ReturnType, PublishType DEF RefreshDone, RefreshFailed, TypeOK, pollVars, outVars, Answer
<1> QED BY <1>1, <1>2, <1>3, <1>4, <1>5, <1>6, <1>7 DEF Continue

(* The steps of a poll task keep every type.                                *)
LEMMA PollTypeOK ==
    ASSUME TypeOK, NEW t \in Clients, PollStep(t)
    PROVE  TypeOK'
<1> USE DEF PollPoints
<1>1. LoopTop(t) => /\ poll' \in [Clients -> PollPoints]
                    /\ watch' \in [Clients -> Clients \cup {None}]
                    /\ watched' \in [Clients -> Configs \cup {None}]
  BY ActiveIdType DEF LoopTop, TypeOK
<1>2. CASE PollStart(t)
  BY <1>1, <1>2 DEF PollStart, TypeOK, lockVars, callVars, outVars
<1>3. CASE PollWait(t)
  BY <1>3 DEF PollWait, Enqueue, TypeOK, callVars, outVars, Processes
<1>4. CASE PollLocked(t)
  <2>1. owner' \in Processes \cup {None} /\ waiters' \in Seq(Processes)
    BY <1>4, ReleaseType DEF PollLocked, TypeOK, Processes
  <2>2. /\ poll' \in [Clients -> PollPoints] /\ watch' \in [Clients -> Clients \cup {None}]
        /\ watched' \in [Clients -> Configs \cup {None}]
    BY <1>4 DEF PollLocked, TypeOK
  <2> QED BY <1>4, <2>1, <2>2 DEF PollLocked, TypeOK, callVars, outVars
<1>5. CASE PollDone(t) \/ PollFailed(t)
  BY <1>1, <1>5, ReleaseType, PublishType DEF PollDone, PollFailed, TypeOK, callVars, PollFails
<1>6. CASE PollCancelled(t)
  <2>1. waiters' \in Seq(Processes)
    BY <1>6, RemoveAtType DEF PollCancelled, TypeOK
  <2>2. /\ poll' \in [Clients -> PollPoints] /\ watch' \in [Clients -> Clients \cup {None}]
        /\ watched' \in [Clients -> Configs \cup {None}]
    BY <1>6 DEF PollCancelled, TypeOK
  <2> QED BY <1>6, <2>1, <2>2 DEF PollCancelled, TypeOK, callVars, outVars
<1> QED BY <1>2, <1>3, <1>4, <1>5, <1>6 DEF PollStep

-----------------------------------------------------------------------------
(* Mutual exclusion.  A caller that starts or continues a critical section  *)
(* is alone under the lock, so is a poll task that reads.                   *)

(* While a caller runs under the lock no one else does.                     *)
LEMMA CallerIsAlone ==
    ASSUME LockInv, NEW p \in Callers,
           pc[p] \in Holding \/ \E r \in Requests : Entering(p, r)
    PROVE  /\ \A q \in Callers : pc[q] \in Holding => q = p
           /\ \A t \in Clients : poll[t] # "reading"
<1>1. owner \in {p, None}
  BY DEF LockInv, Entering
<1>2. p \notin Clients /\ None \notin Clients /\ \A q \in Callers : q # None
  BY ProcessesAssumption DEF Callers
<1> QED BY <1>1, <1>2 DEF LockInv

(* While a poll task reads no caller runs under the lock.                   *)
LEMMA PollIsAlone ==
    ASSUME LockInv, NEW t \in Clients, owner \in {t, None}
    PROVE  /\ \A q \in Callers : pc[q] \notin Holding
           /\ \A u \in Clients : poll[u] = "reading" => u = t
<1>1. t \notin Callers /\ None \notin Callers /\ None \notin Clients
  BY ProcessesAssumption DEF Callers
<1> QED BY <1>1 DEF LockInv

(* What a call that returns, or suspends, under the lock leaves of LockInv. *)
LEMMA ReturnLock ==
    ASSUME TypeOK, NEW p \in Callers, Return(p), UNCHANGED poll,
           \A q \in Callers : pc[q] \in Holding => q = p,
           \A t \in Clients : poll[t] # "reading"
    PROVE  LockInv'
<1>1. \A q \in Callers : pc'[q] \notin Holding
  BY DEF Return, TypeOK, Holding
<1> QED BY <1>1 DEF LockInv

(* A caller that suspends with the lock keeps the lock discipline.          *)
LEMMA SuspendLock ==
    ASSUME TypeOK, NEW p \in Callers, NEW r, NEW point, Suspend(p, r, point),
           \A q \in Callers : pc[q] \in Holding => q = p,
           \A t \in Clients : poll'[t] # "reading"
    PROVE  LockInv'
BY DEF Suspend, LockInv, TypeOK

(* The start of _stop_locked keeps the lock discipline.                     *)
LEMMA BeginStopLock ==
    ASSUME TypeOK, NEW p \in Callers, NEW r, BeginStop(p, r),
           \A q \in Callers : pc[q] \in Holding => q = p,
           \A t \in Clients : poll[t] # "reading"
    PROVE  LockInv'
<1>1. \A t \in Clients : poll'[t] # "reading"
  BY DEF BeginStop, TypeOK
<1>2. Suspend(p, r, "stopping") \/ Suspend(p, r, "closing")
  BY DEF BeginStop
<1> QED BY <1>1, <1>2, SuspendLock

(* The step that makes a call or enters its critical section keeps it.      *)
LEMMA CallLock ==
    ASSUME TypeOK, LockInv, NEW p \in Callers, NEW r \in Requests,
           \/ Arrive(p, r) \/ ConfigureRejected(p, r) \/ ConfigureReused(p, r)
           \/ ConfigureStop(p, r) \/ ConfigureFirst(p, r)
           \/ RefreshRefused(p, r) \/ RefreshBegin(p, r)
           \/ RemoveMissed(p, r) \/ RemoveStop(p, r)
           \/ CloseIdle(p, r) \/ CloseStop(p, r)
    PROVE  LockInv'
<1>1. CASE Arrive(p, r)
  BY <1>1 DEF Arrive, Enqueue, LockInv, TypeOK, pollVars, Holding
<1>2. CASE \/ ConfigureRejected(p, r) \/ ConfigureReused(p, r)
           \/ RefreshRefused(p, r) \/ RemoveMissed(p, r) \/ CloseIdle(p, r)
  <2>1. Entering(p, r) /\ Return(p) /\ UNCHANGED poll
    BY <1>2 DEF ConfigureRejected, ConfigureReused, RefreshRefused, RemoveMissed, CloseIdle,
                pollVars, Answer, SameConfig, SameKey, Reuse
  <2> QED BY <2>1, CallerIsAlone, ReturnLock
<1>3. CASE ConfigureStop(p, r) \/ RemoveStop(p, r) \/ CloseStop(p, r)
  <2>1. Entering(p, r) /\ BeginStop(p, r)
    BY <1>3 DEF ConfigureStop, RemoveStop, CloseStop
  <2> QED BY <2>1, CallerIsAlone, BeginStopLock
<1>4. CASE ConfigureFirst(p, r) \/ RefreshBegin(p, r)
  <2>1. Entering(p, r) /\ UNCHANGED poll
    BY <1>4 DEF ConfigureFirst, RefreshBegin, pollVars
  <2>2. Suspend(p, r, "authenticating") \/ Suspend(p, r, "reading")
    BY <1>4 DEF ConfigureFirst, RefreshBegin, Authenticate
  <2> QED BY <2>1, <2>2, CallerIsAlone, SuspendLock
<1> QED BY <1>1, <1>2, <1>3, <1>4

(* A step after the first await is made by the owner of the lock.           *)
LEMMA ContinueHolds ==
    ASSUME NEW p \in Callers, Continue(p)
    PROVE  pc[p] \in Holding
BY DEF Continue, StopPollEnded, ConfigureReplace, AuthenticateOk, AuthenticateFailed,
       ConfigureDiscarded, ConfigureDone, FirstReadFailed, ConfigureUnwound,
       RefreshDone, RefreshFailed, Stopped, Holding, CallerPoints, Answer

(* The steps of a call after its first await keep the lock discipline.      *)
LEMMA ContinueLock ==
    ASSUME TypeOK, LockInv, NEW p \in Callers, Continue(p)
    PROVE  LockInv'
<1>1. /\ \A q \in Callers : pc[q] \in Holding => q = p
      /\ \A t \in Clients : poll[t] # "reading"
  BY ContinueHolds, CallerIsAlone
<1>2. owner = p
  BY ContinueHolds DEF LockInv
<1>3. CASE StopPollEnded(p) \/ AuthenticateOk(p) \/ AuthenticateFailed(p) \/ FirstReadFailed(p)
  BY <1>1, <1>2, <1>3 DEF StopPollEnded, AuthenticateOk, AuthenticateFailed, FirstReadFailed,
                          LockInv, TypeOK, lockVars, pollVars
<1>4. CASE ConfigureReplace(p)
  <2>1. Suspend(p, req[p], "authenticating") /\ UNCHANGED poll
    BY <1>4 DEF ConfigureReplace, Authenticate, pollVars
  <2> QED BY <1>1, <2>1, SuspendLock
<1>5. CASE \/ ConfigureDiscarded(p) \/ ConfigureUnwound(p) \/ Stopped(p)
           \/ RefreshDone(p) \/ RefreshFailed(p)
  <2>1. Return(p) /\ UNCHANGED poll
    BY <1>5 DEF ConfigureDiscarded, ConfigureUnwound, Stopped, RefreshDone, RefreshFailed,
        pollVars, Answer
  <2> QED BY <1>1, <2>1, ReturnLock
<1>6. CASE ConfigureDone(p)
  <2>1. \A q \in Callers : pc'[q] \notin Holding
    BY <1>1, <1>6 DEF ConfigureDone, Return, TypeOK, Holding
  <2>2. \A t \in Clients : poll'[t] # "reading"
    BY <1>1, <1>6 DEF ConfigureDone, TypeOK
  <2> QED BY <2>1, <2>2 DEF LockInv
<1> QED BY <1>3, <1>4, <1>5, <1>6 DEF Continue

(* The steps of a poll task keep the lock discipline.                       *)
LEMMA PollLock ==
    ASSUME TypeOK, LockInv, NEW t \in Clients, PollStep(t)
    PROVE  LockInv'
<1>1. LoopTop(t) => \A u \in Clients : poll'[u] = "reading" => u # t /\ poll[u] = "reading"
  BY DEF LoopTop, TypeOK
<1>2. CASE PollStart(t)
  BY <1>1, <1>2 DEF PollStart, LockInv, lockVars, callVars
<1>3. CASE PollWait(t)
  BY <1>3 DEF PollWait, Enqueue, LockInv, TypeOK, callVars
<1>4. CASE PollLocked(t)
  <2>1. /\ \A q \in Callers : pc[q] \notin Holding
        /\ \A u \in Clients : poll[u] = "reading" => u = t
    BY <1>4, PollIsAlone DEF PollLocked
  <2>2. \A u \in Clients : poll'[u] = "reading" => u = t /\ owner' = t
    BY <1>4, <2>1 DEF PollLocked, TypeOK
  <2> QED BY <1>4, <2>1, <2>2 DEF PollLocked, LockInv, callVars
<1>5. CASE PollDone(t) \/ PollFailed(t)
  <2>1. /\ \A q \in Callers : pc[q] \notin Holding
        /\ \A u \in Clients : poll[u] = "reading" => u = t
    BY <1>5, PollIsAlone DEF PollDone, PollFailed, LockInv, PollFails
  <2>2. LoopTop(t) /\ UNCHANGED pc
    BY <1>5 DEF PollDone, PollFailed, callVars, PollFails
  <2> QED BY <1>1, <2>1, <2>2 DEF LockInv
<1>6. CASE PollCancelled(t)
  BY <1>6 DEF PollCancelled, LockInv, TypeOK, callVars
<1> QED BY <1>2, <1>3, <1>4, <1>5, <1>6 DEF PollStep

-----------------------------------------------------------------------------
(* Calls: what a suspended call knows, and how the session follows it.      *)

(* The session held has a client and an entry, with an id and credentials.  *)
LEMMA SessionFields ==
    ASSUME TypeOK, active # None
    PROVE  /\ active.client \in Clients /\ active.entry \in Entries
           /\ active \in [client : Clients, entry : Entries]
BY DEF TypeOK

(* Only the call that runs under the lock is opening a client or reading.   *)
LEMMA OtherCalls ==
    ASSUME NEW p \in Callers, \A q \in Callers : pc[q] \in Holding => q = p
    PROVE  \A q \in Callers \ {p} : ~Opening(q) /\ ~CallerReading(q)
                                    /\ pc[q] \notin {"firstRead", "unwinding"}
BY DEF Holding, CallerPoints, Opening, CallerReading

(* The step that makes a call keeps what is known of every call.            *)
LEMMA CallCall ==
    ASSUME TypeOK, LockInv, CallInv, NEW p \in Callers, NEW r \in Requests,
           \/ Arrive(p, r) \/ ConfigureRejected(p, r) \/ ConfigureReused(p, r)
           \/ ConfigureStop(p, r) \/ ConfigureFirst(p, r)
           \/ RefreshRefused(p, r) \/ RefreshBegin(p, r)
           \/ RemoveMissed(p, r) \/ RemoveStop(p, r)
           \/ CloseIdle(p, r) \/ CloseStop(p, r)
    PROVE  CallInv'
<1>1. CASE Arrive(p, r)
  BY <1>1 DEF Arrive, CallInv, TypeOK, Opening, CallerReading
<1>2. CASE Entering(p, r)
  <2>1. \A q \in Callers \ {p} : ~Opening(q) /\ ~CallerReading(q)
                                 /\ pc[q] \notin {"firstRead", "unwinding"}
    BY <1>2, CallerIsAlone, OtherCalls
  <2>2. CASE \/ ConfigureRejected(p, r) \/ ConfigureReused(p, r)
             \/ RefreshRefused(p, r) \/ RemoveMissed(p, r) \/ CloseIdle(p, r)
    <3>1. Return(p)
      BY <2>2 DEF ConfigureRejected, ConfigureReused, RefreshRefused, RemoveMissed, CloseIdle,
          Answer, SameConfig, SameKey, Reuse
    <3> QED BY <2>1, <3>1 DEF Return, CallInv, TypeOK, Opening, CallerReading
  <2>3. CASE ConfigureStop(p, r) \/ RemoveStop(p, r) \/ CloseStop(p, r)
    <3>1. /\ Suspend(p, r, "stopping") \/ Suspend(p, r, "closing")
          /\ UNCHANGED <<active, client, fresh>>
      BY <2>3 DEF ConfigureStop, RemoveStop, CloseStop, BeginStop
    <3> QED BY <2>1, <3>1 DEF Suspend, CallInv, TypeOK, Opening, CallerReading
  <2>4. CASE ConfigureFirst(p, r)
    <3>1. PICK c \in Clients : Authenticate(p, r, c) /\ client' = [client EXCEPT ![c] = r.entry.key]
      BY <2>4 DEF ConfigureFirst
    <3>2. /\ active' = None /\ r.op = "configure"
          /\ fresh'[p] \in Clients /\ client'[fresh'[p]] = r.entry.key
      BY <2>4, <3>1 DEF ConfigureFirst, SomethingToStop, Authenticate, TypeOK
    <3> QED BY <2>1, <3>1, <3>2 DEF Authenticate, Suspend, CallInv, TypeOK, Opening, CallerReading
  <2>5. CASE RefreshBegin(p, r)
    BY <2>1, <2>5 DEF RefreshBegin, Suspend, CallInv, TypeOK, Opening, CallerReading
  <2> QED BY <1>1, <2>2, <2>3, <2>4, <2>5
<1> QED BY <1>1, <1>2 DEF ConfigureRejected, ConfigureReused, ConfigureStop, ConfigureFirst,
           RefreshRefused, RefreshBegin, RemoveMissed, RemoveStop, CloseIdle, CloseStop, Answer,
               SameConfig, SameKey, Reuse

(* So do the steps of a call after its first await.                         *)
LEMMA ContinueCall ==
    ASSUME TypeOK, LockInv, CallInv, NEW p \in Callers, Continue(p)
    PROVE  CallInv'
<1>1. \A q \in Callers \ {p} : ~Opening(q) /\ ~CallerReading(q)
                               /\ pc[q] \notin {"firstRead", "unwinding"}
  BY ContinueHolds, CallerIsAlone, OtherCalls
<1>2. CASE StopPollEnded(p) \/ FirstReadFailed(p)
  BY <1>1, <1>2 DEF StopPollEnded, FirstReadFailed, CallInv, TypeOK, Opening, CallerReading
<1>3. CASE AuthenticateFailed(p)
  BY <1>1, <1>3 DEF AuthenticateFailed, CallInv, TypeOK, Opening, CallerReading
<1>4. CASE AuthenticateOk(p)
  <2>1. fresh[p] \in Clients /\ req[p] \in Requests /\ req[p].op = "configure"
    BY <1>4 DEF AuthenticateOk, CallInv, Opening
  <2>2. active' # None
    BY <1>4, <2>1, RequestFields, EntriesAssumption DEF AuthenticateOk
  <2> QED BY <1>1, <1>4, <2>1, <2>2 DEF AuthenticateOk, CallInv, TypeOK, Opening, CallerReading
<1>5. CASE ConfigureReplace(p)
  <2>1. req[p] \in Requests /\ req[p].op = "configure"
    BY <1>5 DEF ConfigureReplace, CallInv
  <2>2. PICK c \in Clients :
           /\ Authenticate(p, req[p], c)
           /\ client' = [AfterClose EXCEPT ![c] = req[p].entry.key]
    BY <1>5 DEF ConfigureReplace
  <2>3. /\ active' = None
        /\ fresh'[p] \in Clients /\ client'[fresh'[p]] = req[p].entry.key
    BY <1>5, <2>2, AfterCloseType DEF ConfigureReplace, Authenticate, TypeOK
  <2> QED BY <1>1, <2>1, <2>2, <2>3 DEF Authenticate, Suspend, CallInv, TypeOK, Opening, CallerReading
<1>6. CASE \/ ConfigureDiscarded(p) \/ ConfigureUnwound(p) \/ Stopped(p)
           \/ ConfigureDone(p) \/ RefreshDone(p) \/ RefreshFailed(p)
  <2>1. Return(p)
    BY <1>6 DEF ConfigureDiscarded, ConfigureUnwound, Stopped, ConfigureDone, RefreshDone,
        RefreshFailed, Answer
  <2> QED BY <1>1, <2>1 DEF Return, CallInv, TypeOK, Opening, CallerReading
<1> QED BY <1>2, <1>3, <1>4, <1>5, <1>6 DEF Continue

(* So do the steps of a poll task.                                          *)
LEMMA PollCall ==
    ASSUME CallInv, NEW t \in Clients, PollStep(t)
    PROVE  CallInv'
<1>1. UNCHANGED <<callVars, active, client>>
  BY DEF PollStep, PollStart, PollWait, PollLocked, PollDone, PollFailed, PollCancelled, PollFails
<1> QED BY <1>1 DEF CallInv, callVars, Opening, CallerReading

(* The step that makes a call keeps the session and its client.             *)
LEMMA CallSession ==
    ASSUME TypeOK, LockInv, CallInv, SessionInv, NEW p \in Callers, NEW r \in Requests,
           \/ Arrive(p, r) \/ ConfigureRejected(p, r) \/ ConfigureReused(p, r)
           \/ ConfigureStop(p, r) \/ ConfigureFirst(p, r)
           \/ RefreshRefused(p, r) \/ RefreshBegin(p, r)
           \/ RemoveMissed(p, r) \/ RemoveStop(p, r)
           \/ CloseIdle(p, r) \/ CloseStop(p, r)
    PROVE  SessionInv'
<1>1. ~Opening(p)
  BY DEF Arrive, Entering, ConfigureRejected, ConfigureReused, ConfigureStop, ConfigureFirst,
         RefreshRefused, RefreshBegin, RemoveMissed, RemoveStop, CloseIdle, CloseStop, Opening,
             Answer, SameConfig, SameKey, Reuse
<1>2. CASE Arrive(p, r)
  <2>1. \A q \in Callers : Opening(q) => Opening(q)' /\ fresh'[q] = fresh[q]
    BY <1>1, <1>2 DEF Arrive, TypeOK, Opening
  <2> QED BY <1>2, <2>1 DEF Arrive, pollVars, SessionInv, OpenClients
<1>3. CASE Entering(p, r)
  <2>1. \A q \in Callers : ~Opening(q)
    BY <1>1, <1>3, CallerIsAlone, OtherCalls
  <2>2. CASE \/ ConfigureRejected(p, r) \/ RefreshRefused(p, r) \/ RefreshBegin(p, r)
             \/ RemoveMissed(p, r) \/ CloseIdle(p, r)
    BY <2>1, <2>2 DEF ConfigureRejected, RefreshRefused, RefreshBegin, RemoveMissed, CloseIdle,
                      pollVars, SessionInv, OpenClients, Answer
  <2>3. CASE ConfigureReused(p, r)
    <3>1. active # None /\ r.entry \in Entries /\ active.entry.key = r.entry.key
      BY <2>3, RequestFields DEF ConfigureReused, SameConfig, SameKey, Reuse
    <3>2. active' # None /\ active'.client = active.client /\ active'.entry = r.entry
      BY <2>3, <3>1, SessionFields, EntriesAssumption DEF ConfigureReused, SameConfig, SameKey, Reuse
    <3> QED BY <2>1, <2>3, <3>1, <3>2 DEF ConfigureReused, pollVars, SessionInv, OpenClients,
        SameConfig, SameKey, Reuse
  <2>4. CASE ConfigureStop(p, r) \/ RemoveStop(p, r) \/ CloseStop(p, r)
    <3>1. BeginStop(p, r)
      BY <2>4 DEF ConfigureStop, RemoveStop, CloseStop
    <3>2. \A t \in Clients : poll'[t] = "reading" => poll[t] = "reading"
      BY <3>1 DEF BeginStop, TypeOK
    <3> QED BY <2>1, <3>1, <3>2 DEF BeginStop, SessionInv, OpenClients
  <2>5. CASE ConfigureFirst(p, r)
    <3>1. PICK c \in Clients : Authenticate(p, r, c) /\ client' = [client EXCEPT ![c] = r.entry.key]
      BY <2>5 DEF ConfigureFirst
    <3>2. active = None /\ active' = None /\ UNCHANGED <<poll, watch>>
      BY <2>5 DEF ConfigureFirst, SomethingToStop, pollVars
    <3>3. OpenClients = {}
      BY <2>1, <3>2 DEF SessionInv
    <3>4. Opening(p)' /\ fresh'[p] = c
      BY <3>1 DEF Authenticate, Suspend, Opening, TypeOK
    <3>5. \A d \in OpenClients' : d = c
      BY <3>1, <3>3 DEF OpenClients, TypeOK
    <3> QED BY <3>2, <3>4, <3>5 DEF SessionInv
  <2> QED BY <1>2, <2>2, <2>3, <2>4, <2>5
<1> QED BY <1>2, <1>3 DEF ConfigureRejected, ConfigureReused, ConfigureStop, ConfigureFirst,
           RefreshRefused, RefreshBegin, RemoveMissed, RemoveStop, CloseIdle, CloseStop, Answer,
               SameConfig, SameKey, Reuse

(* So do the steps of a call after its first await.                         *)
LEMMA ContinueSession ==
    ASSUME TypeOK, LockInv, CallInv, SessionInv, NEW p \in Callers, Continue(p)
    PROVE  SessionInv'
<1>1. /\ \A q \in Callers \ {p} : ~Opening(q)
      /\ \A t \in Clients : poll[t] # "reading"
  BY ContinueHolds, CallerIsAlone, OtherCalls
<1>2. CASE \/ StopPollEnded(p) \/ FirstReadFailed(p)
           \/ RefreshDone(p) \/ RefreshFailed(p)
  <2>1. ~Opening(p) /\ UNCHANGED <<active, client, poll, watch>>
    BY <1>2 DEF StopPollEnded, FirstReadFailed, RefreshDone, RefreshFailed, Opening, pollVars, Answer
  <2> QED BY <1>1, <2>1 DEF SessionInv, OpenClients
<1>3. CASE AuthenticateFailed(p)
  <2>1. Opening(p)' /\ UNCHANGED <<active, client, poll, watch, fresh>>
    BY <1>3 DEF AuthenticateFailed, Opening, TypeOK, pollVars
  <2> QED BY <1>1, <2>1 DEF SessionInv, OpenClients
<1>4. CASE AuthenticateOk(p)
  <2>1. /\ active = None /\ fresh[p] \in Clients /\ req[p] \in Requests
        /\ req[p].op = "configure" /\ client[fresh[p]] = req[p].entry.key
    BY <1>4 DEF AuthenticateOk, CallInv, Opening
  <2>2. /\ active' # None /\ active'.client = fresh[p] /\ active'.entry = req[p].entry
        /\ UNCHANGED <<client, poll, watch>>
    BY <1>4, <2>1, RequestFields, EntriesAssumption DEF AuthenticateOk, pollVars
  <2> QED BY <1>1, <2>1, <2>2 DEF SessionInv, OpenClients
<1>5. CASE ConfigureReplace(p)
  <2>1. PICK c \in Clients :
           /\ Authenticate(p, req[p], c)
           /\ client' = [AfterClose EXCEPT ![c] = req[p].entry.key]
    BY <1>5 DEF ConfigureReplace
  <2>2. active' = None /\ UNCHANGED <<poll, watch>> /\ ~Opening(p)
    BY <1>5 DEF ConfigureReplace, pollVars, Opening
  <2>3. Opening(p)' /\ fresh'[p] = c
    BY <2>1 DEF Authenticate, Suspend, Opening, TypeOK
  <2>4. \A d \in OpenClients' : d = c
    BY <1>1, <2>1, <2>2 DEF SessionInv, AfterClose, OpenClients, TypeOK
  <2> QED BY <1>1, <2>2, <2>3, <2>4 DEF SessionInv
<1>6. CASE ConfigureDiscarded(p)
  <2>1. /\ active = None /\ client' = [client EXCEPT ![fresh[p]] = None]
        /\ UNCHANGED <<active, poll, watch>>
    BY <1>6 DEF ConfigureDiscarded, CallInv, Opening, pollVars
  <2>2. OpenClients' = {}
    BY <1>1, <2>1 DEF SessionInv, OpenClients, TypeOK
  <2> QED BY <1>1, <2>1, <2>2 DEF SessionInv
<1>7. CASE ConfigureDone(p)
  <2>1. ~Opening(p) /\ UNCHANGED <<active, client, watch>>
    BY <1>7 DEF ConfigureDone, Opening
  <2>2. \A t \in Clients : poll'[t] # "reading"
    BY <1>1, <1>7 DEF ConfigureDone, TypeOK
  <2> QED BY <1>1, <2>1, <2>2 DEF SessionInv, OpenClients
<1>8. CASE ConfigureUnwound(p) \/ Stopped(p)
  <2>1. DropSession /\ ~Opening(p) /\ UNCHANGED <<poll, watch>>
    BY <1>8 DEF ConfigureUnwound, Stopped, Opening, pollVars
  <2>2. OpenClients' = {}
    BY <1>1, <2>1 DEF DropSession, AfterClose, SessionInv, OpenClients, TypeOK
  <2> QED BY <1>1, <2>1, <2>2 DEF DropSession, SessionInv
<1> QED BY <1>2, <1>3, <1>4, <1>5, <1>6, <1>7, <1>8 DEF Continue

(* So do the steps of a poll task.                                          *)
LEMMA PollSession ==
    ASSUME TypeOK, SessionInv, NEW t \in Clients, PollStep(t)
    PROVE  SessionInv'
<1>1. UNCHANGED <<callVars, active, client>>
  BY DEF PollStep, PollStart, PollWait, PollLocked, PollDone, PollFailed, PollCancelled, PollFails
<1>2. ASSUME NEW u \in Clients, poll'[u] = "reading"
      PROVE  active # None /\ active.client = watch'[u]
  <2>1. CASE u = t
    BY <1>2, <2>1 DEF PollStep, PollStart, PollWait, PollLocked, PollDone, PollFailed,
                      PollCancelled, LoopTop, TypeOK, PollFails
  <2>2. CASE u # t
    <3>1. poll'[u] = poll[u] /\ watch'[u] = watch[u]
      BY <2>2 DEF PollStep, PollStart, PollWait, PollLocked, PollDone, PollFailed,
                  PollCancelled, LoopTop, TypeOK, PollFails
    <3> QED BY <1>2, <3>1 DEF SessionInv
  <2> QED BY <2>1, <2>2
<1> QED BY <1>1, <1>2 DEF SessionInv, OpenClients, callVars, Opening

(* The step that makes a call keeps what is known of the sessions taken: a  *)
(* reuse leaves the id of the session as it is.                             *)
LEMMA CallReport ==
    ASSUME TypeOK, LockInv, CallInv, ReportInv, NEW p \in Callers, NEW r \in Requests,
           \/ Arrive(p, r) \/ ConfigureRejected(p, r) \/ ConfigureReused(p, r)
           \/ ConfigureStop(p, r) \/ ConfigureFirst(p, r)
           \/ RefreshRefused(p, r) \/ RefreshBegin(p, r)
           \/ RemoveMissed(p, r) \/ RemoveStop(p, r)
           \/ CloseIdle(p, r) \/ CloseStop(p, r)
    PROVE  ReportInv'
<1>1. CASE Arrive(p, r)
  BY <1>1 DEF Arrive, pollVars, ReportInv, TypeOK, Opening, CallerReading, ActiveConfigId
<1>2. CASE Entering(p, r)
  <2>1. \A q \in Callers \ {p} : ~Opening(q) /\ ~CallerReading(q)
    BY <1>2, CallerIsAlone, OtherCalls
  <2>2. CASE ConfigureRejected(p, r) \/ RefreshRefused(p, r) \/ RemoveMissed(p, r) \/ CloseIdle(p, r)
    <3>1. Return(p) /\ UNCHANGED <<active, watch, watched>>
      BY <2>2 DEF ConfigureRejected, RefreshRefused, RemoveMissed, CloseIdle, Answer, pollVars
    <3> QED BY <2>1, <3>1 DEF Return, ReportInv, TypeOK, Opening, CallerReading, ActiveConfigId
  <2>3. CASE ConfigureReused(p, r)
    <3>1. /\ Return(p) /\ UNCHANGED <<watch, watched>>
          /\ active # None /\ ActiveConfigId = r.entry.cfg /\ r.entry \in Entries
      BY <2>3, RequestFields DEF ConfigureReused, SameConfig, SameKey, Reuse, pollVars
    <3>2. active' # None /\ active'.client = active.client /\ active'.entry = r.entry
      BY <2>3, <3>1, SessionFields, EntriesAssumption DEF ConfigureReused, Reuse
    <3>3. ActiveConfigId' = ActiveConfigId
      BY <3>1, <3>2 DEF ActiveConfigId
    <3>4. \A q \in Callers : ~Opening(q)' /\ ~CallerReading(q)'
      BY <2>1, <3>1 DEF Return, TypeOK, Opening, CallerReading
    <3> QED BY <3>1, <3>2, <3>3, <3>4 DEF ReportInv
  <2>4. CASE ConfigureStop(p, r) \/ RemoveStop(p, r) \/ CloseStop(p, r)
    <3>1. /\ Suspend(p, r, "stopping") \/ Suspend(p, r, "closing")
          /\ UNCHANGED <<active, watch, watched>>
      BY <2>4 DEF ConfigureStop, RemoveStop, CloseStop, BeginStop
    <3>2. \A q \in Callers : ~Opening(q)' /\ ~CallerReading(q)'
      BY <2>1, <3>1 DEF Suspend, TypeOK, Opening, CallerReading
    <3> QED BY <3>1, <3>2 DEF ReportInv, ActiveConfigId
  <2>5. CASE ConfigureFirst(p, r)
    <3>1. PICK c \in Clients : Authenticate(p, r, c)
      BY <2>5 DEF ConfigureFirst
    <3>2. active' = None /\ UNCHANGED <<watch, watched>>
      BY <2>5 DEF ConfigureFirst, SomethingToStop, pollVars
    <3>3. fresh'[p] = c /\ \A t \in Clients : watch[t] # c
      BY <3>1 DEF Authenticate, Unused, TypeOK
    <3>4. \A q \in Callers : ~CallerReading(q)' /\ (Opening(q)' => q = p)
      BY <2>1, <3>1 DEF Authenticate, Suspend, TypeOK, Opening, CallerReading
    <3> QED BY <3>2, <3>3, <3>4 DEF ReportInv
  <2>6. CASE RefreshBegin(p, r)
    <3>1. /\ Suspend(p, r, "reading") /\ subject'[p] = ActiveConfigId
          /\ UNCHANGED <<active, watch, watched>>
      BY <2>6 DEF RefreshBegin, pollVars, TypeOK
    <3>2. \A q \in Callers : ~Opening(q)' /\ (CallerReading(q)' => q = p)
      BY <2>1, <3>1 DEF Suspend, TypeOK, Opening, CallerReading
    <3> QED BY <3>1, <3>2 DEF ReportInv, ActiveConfigId
  <2> QED BY <1>1, <2>2, <2>3, <2>4, <2>5, <2>6
<1> QED BY <1>1, <1>2 DEF ConfigureRejected, ConfigureReused, ConfigureStop, ConfigureFirst,
           RefreshRefused, RefreshBegin, RemoveMissed, RemoveStop, CloseIdle, CloseStop, Reuse

(* So do the steps of a call after its first await: the client adopted is   *)
(* none that a poll task has taken.                                         *)
LEMMA ContinueReport ==
    ASSUME TypeOK, LockInv, CallInv, ReportInv, NEW p \in Callers, Continue(p)
    PROVE  ReportInv'
<1>1. \A q \in Callers \ {p} : ~Opening(q) /\ ~CallerReading(q)
  BY ContinueHolds, CallerIsAlone, OtherCalls
<1>2. CASE StopPollEnded(p) \/ FirstReadFailed(p)
  BY <1>1, <1>2 DEF StopPollEnded, FirstReadFailed, pollVars, ReportInv, TypeOK, Opening,
                    CallerReading, ActiveConfigId
<1>3. CASE AuthenticateFailed(p)
  BY <1>1, <1>3 DEF AuthenticateFailed, pollVars, ReportInv, TypeOK, Opening,
                    CallerReading, ActiveConfigId
<1>4. CASE AuthenticateOk(p)
  <2>1. fresh[p] \in Clients /\ \A t \in Clients : watch[t] # fresh[p]
    BY <1>4 DEF AuthenticateOk, CallInv, ReportInv, Opening
  <2>2. req[p] \in Requests /\ req[p].op = "configure" /\ req[p].entry \in Entries
    BY <1>4, RequestFields DEF AuthenticateOk, CallInv, Opening
  <2>3. /\ active' # None /\ active'.client = fresh[p] /\ active'.entry = req[p].entry
        /\ UNCHANGED <<watch, watched>>
    BY <1>4, <2>1, <2>2, EntriesAssumption DEF AuthenticateOk, pollVars
  <2>4. subject'[p] = ActiveConfigId'
    BY <1>4, <2>3 DEF AuthenticateOk, ActiveConfigId, TypeOK
  <2>5. \A q \in Callers : ~Opening(q)' /\ (CallerReading(q)' => q = p)
    BY <1>1, <1>4 DEF AuthenticateOk, TypeOK, Opening, CallerReading
  <2> QED BY <2>1, <2>3, <2>4, <2>5 DEF ReportInv
<1>5. CASE ConfigureReplace(p)
  <2>1. PICK c \in Clients : Authenticate(p, req[p], c)
    BY <1>5 DEF ConfigureReplace
  <2>2. active' = None /\ UNCHANGED <<watch, watched>>
    BY <1>5 DEF ConfigureReplace, pollVars
  <2>3. fresh'[p] = c /\ \A t \in Clients : watch[t] # c
    BY <2>1 DEF Authenticate, Unused, TypeOK
  <2>4. \A q \in Callers : ~CallerReading(q)' /\ (Opening(q)' => q = p)
    BY <1>1, <2>1 DEF Authenticate, Suspend, TypeOK, Opening, CallerReading
  <2> QED BY <2>2, <2>3, <2>4 DEF ReportInv
<1>6. CASE \/ ConfigureDiscarded(p) \/ ConfigureUnwound(p) \/ Stopped(p)
           \/ ConfigureDone(p) \/ RefreshDone(p) \/ RefreshFailed(p)
  <2>1. Return(p) /\ UNCHANGED <<watch, watched>> /\ (active' = None \/ UNCHANGED active)
    BY <1>6 DEF ConfigureDiscarded, ConfigureUnwound, Stopped, ConfigureDone, RefreshDone,
        RefreshFailed, Answer, DropSession, pollVars
  <2>2. \A q \in Callers : ~Opening(q)' /\ ~CallerReading(q)'
    BY <1>1, <2>1 DEF Return, TypeOK, Opening, CallerReading
  <2> QED BY <2>1, <2>2 DEF ReportInv, ActiveConfigId
<1> QED BY <1>2, <1>3, <1>4, <1>5, <1>6 DEF Continue

(* So do the steps of a poll task, which takes the session held.            *)
LEMMA PollReport ==
    ASSUME TypeOK, CallInv, ReportInv, NEW t \in Clients, PollStep(t)
    PROVE  ReportInv'
<1>1. UNCHANGED <<callVars, active>>
  BY DEF PollStep, PollStart, PollWait, PollLocked, PollDone, PollFailed, PollCancelled, PollFails
<1>2. \A u \in Clients \ {t} : watch'[u] = watch[u] /\ watched'[u] = watched[u]
  BY DEF PollStep, PollStart, PollWait, PollLocked, PollDone, PollFailed, PollCancelled,
         LoopTop, TypeOK, PollFails
<1>3. \/ watch'[t] = watch[t] /\ watched'[t] = watched[t]
      \/ watch'[t] = None
      \/ active # None /\ watch'[t] = active.client /\ watched'[t] = ActiveConfigId
  BY DEF PollStep, PollStart, PollWait, PollLocked, PollDone, PollFailed, PollCancelled,
         LoopTop, TypeOK, PollFails
<1>4. \A p \in Callers : Opening(p) => active = None /\ fresh[p] \in Clients
  BY DEF CallInv
<1>5. active # None => active.client \in Clients
  BY SessionFields
<1>6. None \notin Clients
  BY ProcessesAssumption
<1>7. \A u \in Clients : active # None /\ active.client = watch'[u] => watched'[u] = ActiveConfigId
  BY <1>2, <1>3, <1>5, <1>6 DEF ReportInv
<1>8. \A p \in Callers : Opening(p) => \A u \in Clients : watch'[u] # fresh[p]
  BY <1>2, <1>3, <1>4, <1>6 DEF ReportInv
<1> QED BY <1>1, <1>7, <1>8 DEF ReportInv, callVars, Opening, CallerReading, ActiveConfigId

-----------------------------------------------------------------------------
(* The invariant, and what it implies *)

(* The core of the inductive invariant holds initially.                     *)
LEMMA InitCore == Init => Core
BY InitTypeOK DEF Init, Core, LockInv, CallInv, SessionInv, ReportInv, Holding, Opening,
                  CallerReading, OpenClients

(* Every step keeps it.                                                     *)
LEMMA NextCore == Core /\ [Next]_vars => Core'
<1> SUFFICES ASSUME Core, [Next]_vars PROVE Core'
  OBVIOUS
<1>0. TypeOK /\ LockInv /\ CallInv /\ SessionInv /\ ReportInv
  BY DEF Core
<1>1. CASE UNCHANGED vars
  BY <1>0, <1>1 DEF vars, Core, TypeOK, LockInv, CallInv, SessionInv, ReportInv, Opening,
                    CallerReading, OpenClients, ActiveConfigId
<1>2. ASSUME NEW p \in Callers, NEW r \in Requests, Arrive(p, r)
      PROVE  Core'
  BY <1>0, <1>2, CallTypeOK, CallLock, CallCall, CallSession, CallReport DEF Core
<1>3. ASSUME NEW p \in Callers, Enter(p)
      PROVE  Core'
  BY <1>0, <1>3, CallTypeOK, CallLock, CallCall, CallSession, CallReport DEF Enter, Core
<1>4. ASSUME NEW p \in Callers, Continue(p)
      PROVE  Core'
  BY <1>0, <1>4, ContinueTypeOK, ContinueLock, ContinueCall, ContinueSession, ContinueReport
     DEF Core
<1>5. ASSUME NEW t \in Clients, PollStep(t)
      PROVE  Core'
  BY <1>0, <1>5, PollTypeOK, PollLock, PollCall, PollSession, PollReport DEF Core
<1> QED BY <1>1, <1>2, <1>3, <1>4, <1>5 DEF Next, Terminated

(* The lock discipline, the calls and the session keep their invariant.     *)
LEMMA CoreInvariant == SafetySpec => []Core
BY InitCore, NextCore, PTL DEF SafetySpec

(* Every variable of the service has its type.                              *)
THEOREM TypeCorrect == SafetySpec => []TypeOK
<1>1. Core => TypeOK
  BY DEF Core
<1> QED BY <1>1, CoreInvariant, PTL

(* Only one call at a time opens a client, and only when no session is held. *)
LEMMA CoreOneClient == Core => AtMostOneOpenClient
<1> SUFFICES ASSUME Core, NEW a \in OpenClients, NEW b \in OpenClients
             PROVE  a = b
  BY DEF AtMostOneOpenClient
<1>1. \A p, q \in Callers : Opening(p) /\ Opening(q) => p = q
  BY DEF Core, LockInv, Opening, Holding, CallerPoints
<1>2. \A p \in Callers : Opening(p) => active = None
  BY DEF Core, CallInv
<1> QED BY <1>1, <1>2 DEF Core, SessionInv

(* At most one Sense client has a cloud session open, whatever the callers, *)
(* the configurations and the order of their requests.                      *)
THEOREM OneClient == SafetySpec => []AtMostOneOpenClient
BY CoreOneClient, CoreInvariant, PTL

(* The session held is open with its own credentials, and nothing else is   *)
(* open when nothing runs under the lock.                                   *)
THEOREM NoLeak == SafetySpec => []NoLeakedClient
<1>1. Core => NoLeakedClient
  <2> SUFFICES ASSUME Core PROVE NoLeakedClient
    OBVIOUS
  <2>1. active # None => client[active.client] = active.entry.key
    BY DEF Core, SessionInv
  <2>2. active # None => active.client \in OpenClients
    BY <2>1, SessionFields, EntryFields DEF Core, OpenClients
  <2>3. owner = None => \A p \in Callers : ~Opening(p)
    BY ProcessesAssumption DEF Core, LockInv, Opening, Holding, CallerPoints, Callers
  <2> QED BY <2>1, <2>2, <2>3 DEF Core, SessionInv, NoLeakedClient
<1> QED BY <1>1, CoreInvariant, PTL

(* No client is read after it was closed, or before it was adopted.         *)
THEOREM NoReadAfterClose == SafetySpec => []ReadsOpenSession
<1>1. Core => ReadsOpenSession
  <2> SUFFICES ASSUME Core PROVE ReadsOpenSession
    OBVIOUS
  <2>1. active # None => active.client \in OpenClients
    BY SessionFields, EntryFields DEF Core, SessionInv, OpenClients
  <2> QED BY <2>1 DEF Core, SessionInv, CallInv, ReadsOpenSession
<1> QED BY <1>1, CoreInvariant, PTL

(* A session keeps its client and its configuration until it is dropped.    *)
LEMMA SessionSteps ==
    ASSUME Core, Next
    PROVE  \/ UNCHANGED active
           \/ active' = None
           \/ active = None
           \/ active'.client = active.client /\ active'.entry.cfg = active.entry.cfg
<1>1. ASSUME NEW p \in Callers, NEW r \in Requests, Arrive(p, r)
      PROVE  UNCHANGED active
  BY <1>1 DEF Arrive
<1>2. ASSUME NEW p \in Callers, NEW r \in Requests, ConfigureReused(p, r)
      PROVE  active'.client = active.client /\ active'.entry.cfg = active.entry.cfg
  <2>1. active \in [client : Clients, entry : Entries] /\ active.entry.cfg = r.entry.cfg
    BY <1>2, SessionFields DEF Core, ConfigureReused, ActiveConfigId, SameConfig, SameKey, Reuse
  <2> QED BY <1>2, <2>1 DEF ConfigureReused, SameConfig, SameKey, Reuse
<1>3. ASSUME NEW p \in Callers, Enter(p)
      PROVE  \/ UNCHANGED active
             \/ active'.client = active.client /\ active'.entry.cfg = active.entry.cfg
  BY <1>2, <1>3 DEF Enter, ConfigureRejected, ConfigureStop, ConfigureFirst, RefreshRefused,
         RefreshBegin, RemoveMissed, RemoveStop, CloseIdle, CloseStop, BeginStop, Answer
<1>4. ASSUME NEW p \in Callers, Continue(p)
      PROVE  UNCHANGED active \/ active' = None \/ active = None
  BY <1>4 DEF Continue, StopPollEnded, ConfigureReplace, AuthenticateOk, AuthenticateFailed,
         ConfigureDiscarded, ConfigureDone, FirstReadFailed, ConfigureUnwound, RefreshDone,
         RefreshFailed, Stopped, DropSession, Core, CallInv, Opening, Answer
<1>5. ASSUME NEW t \in Clients, PollStep(t)
      PROVE  UNCHANGED active
  BY <1>5 DEF PollStep, PollStart, PollWait, PollLocked, PollDone, PollFailed, PollCancelled, PollFails
<1> QED BY <1>1, <1>3, <1>4, <1>5 DEF Next, Terminated, vars

(* A session is never handed from one configuration or client to another:   *)
(* configure only swaps the entry of its own id and credentials, and every  *)
(* other step that sets the session finds or leaves the slot empty.         *)
THEOREM PinnedSlot == SafetySpec => SlotIsPinned
<1>1. Core /\ [Next]_vars
        => [active # None /\ active' # None =>
               active'.client = active.client /\ active'.entry.cfg = active.entry.cfg]_vars
  BY SessionSteps DEF vars
<1> QED BY <1>1, CoreInvariant, PTL DEF SafetySpec, SlotIsPinned

(* Publishing for a configuration changes what is reported of no other.     *)
LEMMA PublishOne ==
    ASSUME TypeOK, NEW d, PublishReading(d), NEW c \in Configs, c # d
    PROVE  published'[c] = published[c] /\ telemetered'[c] = telemetered[c]
BY DEF PublishReading, TypeOK

(* Whoever publishes does it for the session it has taken, and that is the  *)
(* one held: the reader holds the lock since it took the session, or found  *)
(* under the lock that its session is still the one.                        *)
THEOREM HolderReports == SafetySpec => OnlyHolderReports
<1>1. ASSUME Core, Next, NEW c \in Configs,
             published'[c] # published[c] \/ telemetered'[c] # telemetered[c]
      PROVE  ActiveConfigId = c
  <2>0. TypeOK /\ SessionInv /\ ReportInv
    BY <1>1 DEF Core
  <2>1. ASSUME NEW p \in Callers, ConfigureDone(p) \/ RefreshDone(p)
        PROVE  ActiveConfigId = c
    <3>1. CallerReading(p) /\ PublishReading(subject[p])
      BY <2>1 DEF ConfigureDone, RefreshDone, CallerReading
    <3>2. subject[p] = ActiveConfigId
      BY <2>0, <3>1 DEF ReportInv
    <3> QED BY <1>1, <2>0, <3>1, <3>2, PublishOne
  <2>2. ASSUME NEW t \in Clients, PollDone(t) \/ PollFailed(t)
        PROVE  ActiveConfigId = c
    <3>1. poll[t] = "reading"
      BY <2>2 DEF PollDone, PollFailed, PollFails
    <3>2. watched[t] = ActiveConfigId
      BY <2>0, <3>1 DEF SessionInv, ReportInv
    <3>3. CASE PollDone(t)
      BY <1>1, <2>0, <3>2, <3>3, PublishOne DEF PollDone
    <3>4. CASE PollFailed(t)
      BY <1>1, <2>0, <3>2, <3>4 DEF PollFailed, PollFails, TypeOK
    <3> QED BY <2>2, <3>3, <3>4
  <2>4. ASSUME NEW p \in Callers, (\E r \in Requests : Arrive(p, r)) \/ Enter(p)
        PROVE  UNCHANGED outVars
    BY <2>4 DEF Arrive, Enter, ConfigureRejected, ConfigureReused, ConfigureStop, ConfigureFirst,
         RefreshRefused, RefreshBegin, RemoveMissed, RemoveStop, CloseIdle, CloseStop, BeginStop,
             Answer, SameConfig, SameKey, Reuse
  <2>5. ASSUME NEW p \in Callers, Continue(p), ~ConfigureDone(p), ~RefreshDone(p)
        PROVE  UNCHANGED outVars
    BY <2>5 DEF Continue, StopPollEnded, ConfigureReplace, AuthenticateOk, AuthenticateFailed,
         ConfigureDiscarded, FirstReadFailed, ConfigureUnwound, RefreshFailed, Stopped, Answer
  <2>6. ASSUME NEW t \in Clients, PollStep(t), ~PollDone(t), ~PollFailed(t)
        PROVE  UNCHANGED outVars
    BY <2>6 DEF PollStep, PollStart, PollWait, PollLocked, PollCancelled
  <2> QED BY <1>1, <2>1, <2>2, <2>4, <2>5, <2>6 DEF Next, Terminated, vars, outVars
<1>2. Core /\ [Next]_vars
        => [\A c \in Configs :
               (published'[c] # published[c] \/ telemetered'[c] # telemetered[c])
                  => ActiveConfigId = c]_vars
  BY <1>1
<1> QED BY <1>2, CoreInvariant, PTL DEF SafetySpec, OnlyHolderReports

=============================================================================
