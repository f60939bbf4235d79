-------------------------- MODULE SensePollerProofs --------------------------
(***************************************************************************)
(* Theorems about the poll tasks, the queue of the lock and the shutdown   *)
(* of SenseService, and the refinement of SingleSession.  They rest on the *)
(* core of the invariant, proved in SenseServiceProofs.                    *)
(***************************************************************************)
EXTENDS SenseServiceProofs

(* Whoever begins a critical section finds nobody else in one.              *)
LEMMA EntersAlone ==
    ASSUME LockInv, NEW p \in Callers, NEW r, Entering(p, r)
    PROVE  /\ pc[p] \in {"idle", "queued"}
           /\ \A q \in Callers : pc[q] \notin Holding
           /\ \A t \in Clients : poll[t] # "reading"
<1>1. pc[p] \in {"idle", "queued"} /\ owner \in {p, None}
  BY DEF Entering
<1>2. p \notin Clients /\ None \notin Clients /\ \A q \in Callers : q # None
  BY ProcessesAssumption DEF Callers
<1> QED BY <1>1, <1>2 DEF LockInv, Holding

(* Between critical sections a session has its poll task, and without a     *)
(* session no task is alive.                                                *)
LEMMA TasksAtRest ==
    ASSUME TaskInv, \A q \in Callers : pc[q] \notin Holding
    PROVE  /\ pollTask = None => active = None /\ LivePollers = {}
           /\ active = None => pollTask = None
           /\ \A t \in LivePollers : t = pollTask
<1>1. \A q \in Callers : ~Settling(q) /\ pc[q] # "stopping"
  BY DEF Holding, CallerPoints, Settling
<1>2. None \notin Clients
  BY ProcessesAssumption
<1> QED BY <1>1, <1>2 DEF TaskInv, LivePollers

(* A step of a call by p changes the point of p only.                       *)
LEMMA ReturnPoints ==
    ASSUME TypeOK, NEW p \in Callers, Return(p)
    PROVE  /\ pc'[p] = IF p = Lifespan THEN "down" ELSE "idle"
           /\ req'[p] = None
           /\ \A q \in Callers \ {p} : pc'[q] = pc[q] /\ req'[q] = req[q] /\ fresh'[q] = fresh[q]
BY DEF Return, TypeOK

(* Suspending in a call moves the caller to that point, with its request.   *)
LEMMA SuspendPoints ==
    ASSUME TypeOK, NEW p \in Callers, NEW r, NEW point, Suspend(p, r, point)
    PROVE  /\ pc'[p] = point /\ req'[p] = r
           /\ owner' = p /\ waiters' = waiters
           /\ \A q \in Callers \ {p} : pc'[q] = pc[q] /\ req'[q] = req[q]
BY DEF Suspend, TypeOK

-----------------------------------------------------------------------------
(* The poll tasks *)

(* The start of _stop_locked: the task is cancelled and no longer named.    *)
LEMMA BeginStopTask ==
    ASSUME TypeOK, LockInv, TaskInv, NEW p \in Callers, NEW r, Entering(p, r), BeginStop(p, r)
    PROVE  TaskInv'
<1>1. /\ pc[p] \in {"idle", "queued"}
      /\ \A q \in Callers : pc[q] \notin Holding
  BY EntersAlone
<1>2. /\ pollTask = None => active = None
      /\ \A t \in LivePollers : t = pollTask
  BY <1>1, TasksAtRest
<1>3. pollTask # None /\ active # None
  BY <1>2 DEF BeginStop, SomethingToStop, TaskInv
<1>4. /\ pollTask' = None /\ UNCHANGED <<active, watch, fresh>>
      /\ poll' = [poll EXCEPT ![pollTask] = "cancelled"]
      /\ Suspend(p, r, "stopping")
  BY <1>3 DEF BeginStop
<1>5. pc'[p] = "stopping" /\ \A q \in Callers \ {p} : pc'[q] = pc[q]
  BY <1>4, SuspendPoints
<1>6. \A t \in Clients : poll'[t] # "none" => t = pollTask /\ poll'[t] = "cancelled"
  BY <1>2, <1>4 DEF LivePollers, TypeOK
<1>7. \A q \in Callers : q # p => pc'[q] \in {"idle", "queued", "down"}
  BY <1>1, <1>5 DEF Holding, TypeOK
<1>8. active' # None /\ LivePollers' = {t \in Clients : poll'[t] # "none"}
  BY <1>3, <1>4 DEF LivePollers
<1> QED BY <1>4, <1>5, <1>6, <1>7, <1>8 DEF TaskInv, Settling

(* The step that makes a call, or enters its critical section, keeps the    *)
(* tasks in order.                                                          *)
LEMMA CallTask ==
    ASSUME TypeOK, LockInv, TaskInv, NEW p \in Callers, NEW r \in Requests,
           \/ Arrive(p, r) \/ ConfigureRejected(p, r) \/ ConfigureReused(p, r)
           \/ ConfigureStop(p, r) \/ ConfigureFirst(p, r)
           \/ RefreshRefused(p, r) \/ RefreshBegin(p, r)
           \/ RemoveMissed(p, r) \/ RemoveStop(p, r)
           \/ CloseIdle(p, r) \/ CloseStop(p, r)
    PROVE  TaskInv'
<1>1. CASE Arrive(p, r)
  <2>1. /\ pc[p] = "idle" /\ pc'[p] = "queued"
        /\ \A q \in Callers \ {p} : pc'[q] = pc[q]
        /\ UNCHANGED <<active, fresh, pollTask, poll, watch>>
    BY <1>1 DEF Arrive, TypeOK, pollVars
  <2> QED BY <2>1 DEF TaskInv, Settling, LivePollers
<1>2. CASE \/ ConfigureRejected(p, r) \/ ConfigureReused(p, r)
           \/ RefreshRefused(p, r) \/ RemoveMissed(p, r) \/ CloseIdle(p, r)
  <2>1. Entering(p, r) /\ Return(p) /\ UNCHANGED <<pollTask, poll, watch>>
    BY <1>2 DEF ConfigureRejected, ConfigureReused, RefreshRefused, RemoveMissed, CloseIdle,
                pollVars, Answer, Reuse
  <2>2. /\ active = None => active' = None
        /\ active # None => active' # None /\ active'.client = active.client
    <3>1. CASE ConfigureReused(p, r)
      <4>1. active # None /\ active' = [active EXCEPT !.entry = r.entry] /\ r.entry \in Entries
        BY <3>1, RequestFields DEF ConfigureReused, SameConfig, Reuse
      <4> QED BY <4>1, SessionFields, EntriesAssumption
    <3>2. CASE ~ConfigureReused(p, r)
      BY <1>2, <3>2 DEF ConfigureRejected, RefreshRefused, RemoveMissed, CloseIdle, Answer
    <3> QED BY <3>1, <3>2
  <2>3. \A q \in Callers : pc[q] \notin Holding
    BY <2>1, EntersAlone
  <2>4. \A q \in Callers : pc'[q] \in {"idle", "queued", "down"}
    BY <2>1, <2>3, ReturnPoints DEF Holding, TypeOK
  <2>5. /\ pollTask = None => active = None /\ LivePollers = {}
        /\ \A t \in LivePollers : t = pollTask
    BY <2>3, TasksAtRest
  <2> QED BY <2>1, <2>2, <2>4, <2>5 DEF TaskInv, LivePollers
<1>3. CASE ConfigureStop(p, r) \/ RemoveStop(p, r) \/ CloseStop(p, r)
  BY <1>3, BeginStopTask DEF ConfigureStop, RemoveStop, CloseStop
<1>4. CASE ConfigureFirst(p, r)
  <2>1. PICK c \in Clients : Suspend(p, r, "authenticating")
    BY <1>4 DEF ConfigureFirst, Authenticate
  <2>2. /\ Entering(p, r) /\ pollTask = None /\ active = None
        /\ UNCHANGED <<active, pollTask, poll, watch>>
    BY <1>4 DEF ConfigureFirst, SomethingToStop, pollVars
  <2>3. LivePollers = {} /\ \A q \in Callers : pc[q] \notin Holding
    BY <2>2, EntersAlone, TasksAtRest
  <2>4. \A q \in Callers : pc'[q] \in {"idle", "queued", "down", "authenticating"}
    BY <2>1, <2>3, SuspendPoints DEF Holding, TypeOK
  <2> QED BY <2>2, <2>3, <2>4 DEF TaskInv, LivePollers
<1>5. CASE RefreshBegin(p, r)
  <2>1. Entering(p, r) /\ Suspend(p, r, "reading") /\ UNCHANGED <<active, pollTask, poll, watch>>
    BY <1>5 DEF RefreshBegin, pollVars
  <2>2. \A q \in Callers : pc[q] \notin Holding
    BY <2>1, EntersAlone
  <2>3. \A q \in Callers : pc'[q] \in {"idle", "queued", "down", "reading"}
    BY <2>1, <2>2, SuspendPoints DEF Holding, TypeOK
  <2>4. /\ pollTask = None => active = None /\ LivePollers = {}
        /\ \A t \in LivePollers : t = pollTask
    BY <2>2, TasksAtRest
  <2> QED BY <2>1, <2>3, <2>4 DEF TaskInv, LivePollers
<1> QED BY <1>1, <1>2, <1>3, <1>4, <1>5

(* The steps of a call after its first await keep the tasks in order: the   *)
(* stop goes on only when the task has ended, and configure starts one.     *)
LEMMA ContinueTask ==
    ASSUME TypeOK, LockInv, CallInv, TaskInv, NEW p \in Callers, Continue(p)
    PROVE  TaskInv'
<1>1. /\ pc[p] \in Holding
      /\ \A q \in Callers \ {p} : pc[q] \in {"idle", "queued", "down"}
      /\ \A t \in Clients : poll[t] # "reading"
  BY ContinueHolds, CallerIsAlone DEF Holding, TypeOK
<1>2. CASE StopPollEnded(p)
  <2>1. /\ pc[p] = "stopping" /\ pc'[p] = "closing" /\ LivePollers = {}
        /\ \A q \in Callers \ {p} : pc'[q] = pc[q]
        /\ UNCHANGED <<active, fresh, pollTask, poll, watch>>
    BY <1>2 DEF StopPollEnded, TypeOK, pollVars
  <2> QED BY <1>1, <2>1 DEF TaskInv, Settling, LivePollers
<1>3. CASE ConfigureReplace(p)
  <2>1. PICK c \in Clients : Suspend(p, req[p], "authenticating")
    BY <1>3 DEF ConfigureReplace, Authenticate
  <2>2. /\ pollTask = None /\ LivePollers = {} /\ active' = None
        /\ UNCHANGED <<pollTask, poll, watch>>
    BY <1>3 DEF ConfigureReplace, TaskInv, pollVars
  <2>3. \A q \in Callers : pc'[q] \in {"idle", "queued", "down", "authenticating"}
    BY <1>1, <2>1, SuspendPoints
  <2> QED BY <2>2, <2>3 DEF TaskInv, LivePollers
<1>4. CASE AuthenticateOk(p) \/ AuthenticateFailed(p) \/ FirstReadFailed(p)
  <2>1. /\ pollTask = None /\ LivePollers = {} /\ UNCHANGED <<pollTask, poll, watch, fresh>>
        /\ \A q \in Callers \ {p} : pc'[q] = pc[q]
    BY <1>4 DEF AuthenticateOk, AuthenticateFailed, FirstReadFailed, TaskInv, TypeOK, pollVars
  <2>2. CASE AuthenticateOk(p)
    <3>1. fresh[p] \in Clients /\ req[p] \in Requests /\ req[p].op = "configure"
      BY <2>2 DEF AuthenticateOk, CallInv, Opening
    <3>2. pc'[p] = "firstRead" /\ active' # None /\ active'.client = fresh[p]
      BY <2>2, <3>1, RequestFields, EntriesAssumption DEF AuthenticateOk, TypeOK
    <3> QED BY <1>1, <2>1, <3>2 DEF TaskInv, Settling, LivePollers
  <2>3. CASE AuthenticateFailed(p)
    <3>1. pc'[p] = "discarding" /\ active' = None
      BY <2>3 DEF AuthenticateFailed, TypeOK, CallInv, Opening
    <3> QED BY <1>1, <2>1, <3>1 DEF TaskInv, LivePollers
  <2>4. CASE FirstReadFailed(p)
    <3>1. pc'[p] = "unwinding" /\ active' = active /\ active # None /\ active.client = fresh[p]
      BY <2>4 DEF FirstReadFailed, TypeOK, TaskInv
    <3> QED BY <1>1, <2>1, <3>1 DEF TaskInv, Settling, LivePollers
  <2> QED BY <1>4, <2>2, <2>3, <2>4
<1>5. CASE ConfigureDiscarded(p) \/ ConfigureUnwound(p) \/ Stopped(p)
  <2>1. /\ pollTask = None /\ LivePollers = {} /\ active' = None
        /\ UNCHANGED <<pollTask, poll, watch>> /\ Return(p)
    BY <1>5 DEF ConfigureDiscarded, ConfigureUnwound, Stopped, DropSession, TaskInv, CallInv,
                Opening, pollVars
  <2>2. \A q \in Callers : pc'[q] \in {"idle", "queued", "down"}
    BY <1>1, <2>1, ReturnPoints
  <2> QED BY <2>1, <2>2 DEF TaskInv, LivePollers
<1>6. CASE ConfigureDone(p)
  <2>1. /\ LivePollers = {} /\ active # None /\ active' = active /\ active.client \in Clients
        /\ pollTask' = active.client /\ Return(p)
        /\ poll' = [poll EXCEPT ![active.client] = "created"]
    BY <1>6, SessionFields DEF ConfigureDone, TaskInv
  <2>2. \A q \in Callers : pc'[q] \in {"idle", "queued", "down"}
    BY <1>1, <2>1, ReturnPoints
  <2>3. /\ \A t \in LivePollers' : t = pollTask'
        /\ pollTask' # None /\ poll'[pollTask'] = "created"
    BY <2>1, ProcessesAssumption DEF LivePollers, TypeOK
  <2> QED BY <2>1, <2>2, <2>3 DEF TaskInv
<1>7. CASE RefreshDone(p) \/ RefreshFailed(p)
  <2>1. /\ pc[p] = "reading" /\ active # None /\ Return(p)
        /\ UNCHANGED <<active, pollTask, poll, watch>>
    BY <1>7 DEF RefreshDone, RefreshFailed, Answer, pollVars, CallInv, CallerReading
  <2>2. /\ \A q \in Callers : ~Settling(q) /\ pc[q] # "stopping"
        /\ \A q \in Callers : pc'[q] \in {"idle", "queued", "down"}
    BY <1>1, <2>1, ReturnPoints DEF Settling
  <2> QED BY <2>1, <2>2 DEF TaskInv, LivePollers
<1> QED BY <1>2, <1>3, <1>4, <1>5, <1>6, <1>7 DEF Continue

(* So do the steps of the poll task: it is the session's until it is        *)
(* cancelled, so it finds its session at the top of the loop and under the  *)
(* lock, and it goes on.                                                    *)
LEMMA PollTask ==
    ASSUME TypeOK, TaskInv, NEW t \in Clients, PollStep(t)
    PROVE  TaskInv'
<1>1. /\ UNCHANGED <<active, pollTask, pc, fresh>>
      /\ t \in LivePollers
  BY DEF PollStep, PollStart, PollWait, PollLocked, PollDone, PollFailed, PollFails,
         PollCancelled, callVars, LivePollers
<1>2. /\ LivePollers = {t} /\ \A u \in Clients \ {t} : poll[u] = "none"
  BY <1>1 DEF TaskInv, LivePollers
<1>3. CASE PollCancelled(t)
  <2>1. poll[t] = "cancelled" /\ pollTask = None /\ (\E p \in Callers : pc[p] = "stopping")
    BY <1>1, <1>3, ProcessesAssumption DEF PollCancelled, TaskInv
  <2>2. LivePollers' = {}
    BY <1>2, <1>3 DEF PollCancelled, LivePollers, TypeOK
  <2> QED BY <1>1, <2>1, <2>2 DEF TaskInv, Settling
<1>4. CASE ~PollCancelled(t)
  <2>1. poll[t] \in {"created", "sleeping", "queued", "reading"}
    BY <1>4 DEF PollStep, PollStart, PollWait, PollLocked, PollDone, PollFailed, PollFails
  <2>2. pollTask = t /\ active # None /\ active.client = t
    BY <1>1, <2>1, ProcessesAssumption DEF TaskInv
  <2>3. poll[t] # "created" => watch[t] = t
    BY <2>1, <2>2, ProcessesAssumption DEF TaskInv
  <2>4. LoopTop(t) => poll'[t] = "sleeping" /\ watch'[t] = t /\ \A u \in Clients \ {t} : poll'[u] = poll[u]
    BY <2>2 DEF LoopTop, TypeOK
  <2>5. /\ poll'[t] \in {"sleeping", "queued", "reading"} /\ watch'[t] = t
        /\ \A u \in Clients \ {t} : poll'[u] = poll[u]
    BY <1>4, <2>1, <2>2, <2>3, <2>4
       DEF PollStep, PollStart, PollWait, PollLocked, PollDone, PollFailed, PollFails, TypeOK
  <2>6. LivePollers' = {t}
    BY <1>2, <2>5 DEF LivePollers
  <2> QED BY <1>1, <2>1, <2>2, <2>5, <2>6 DEF TaskInv, Settling
<1> QED BY <1>3, <1>4

-----------------------------------------------------------------------------
(* The queue of the lock *)

(* A sequence without its i-th element has the others, in their order.      *)
LEMMA RemoveAtElements ==
    ASSUME NEW S, NEW s \in Seq(S), NEW i \in 1..Len(s)
    PROVE  /\ Len(RemoveAt(s, i)) = Len(s) - 1
           /\ \A j \in 1..(Len(s) - 1) : RemoveAt(s, i)[j] = s[IF j < i THEN j ELSE j + 1]
<1> DEFINE a == SubSeq(s, 1, i - 1)
           b == SubSeq(s, i + 1, Len(s))
<1>1. a \in Seq(S) /\ Len(a) = i - 1 /\ \A j \in 1..(i - 1) : a[j] = s[j]
  OBVIOUS
<1>2. b \in Seq(S) /\ Len(b) = Len(s) - i /\ \A j \in 1..(Len(s) - i) : b[j] = s[i + j]
  OBVIOUS
<1> HIDE DEF a, b
<1>3. Len(a \o b) = Len(s) - 1
  BY <1>1, <1>2
<1>4. ASSUME NEW j \in 1..(Len(s) - 1)
      PROVE  (a \o b)[j] = s[IF j < i THEN j ELSE j + 1]
  <2>1. CASE j < i
    BY <1>1, <1>2, <2>1
  <2>2. CASE ~(j < i)
    <3>1. (a \o b)[j] = b[j - (i - 1)]
      BY <1>1, <1>2, <2>2
    <3>2. j - (i - 1) \in 1..(Len(s) - i) /\ i + (j - (i - 1)) = j + 1
      BY <2>2
    <3>3. b[j - (i - 1)] = s[i + (j - (i - 1))]
      BY <1>2, <3>2
    <3> QED BY <2>2, <3>1, <3>2, <3>3
  <2> QED BY <2>1, <2>2
<1> QED BY <1>3, <1>4 DEF RemoveAt, a, b

(* No process is both a caller and a poll task, and None is neither.        *)
LEMMA DifferentProcesses ==
    /\ Callers \cap Clients = {} /\ None \notin Processes
    /\ Lifespan \in Callers /\ Handlers \subseteq Callers
BY ProcessesAssumption DEF Callers, Processes

(* A process that arrives at a taken lock is the last of the waiters.       *)
LEMMA EnqueueQueue ==
    ASSUME TypeOK, QueueInv, NEW x \in Processes, Enqueue(x),
           ~Waiting(x), x # owner, Waiting(x)',
           \A y \in Processes \ {x} :
              /\ y \in Callers => pc'[y] = pc[y]
              /\ y \in Clients => poll'[y] = poll[y]
    PROVE  QueueInv'
<1>1. /\ waiters \in Seq(Processes) /\ owner # None /\ owner' = owner
      /\ waiters' = Append(waiters, x)
  BY DEF TypeOK, Enqueue
<1>2. \A i \in 1..Len(waiters) : waiters[i] \in Processes /\ waiters[i] # x /\ waiters[i] # owner
  BY <1>1 DEF QueueInv
<1>3. /\ Len(waiters') = Len(waiters) + 1 /\ waiters'[Len(waiters) + 1] = x
      /\ \A i \in 1..Len(waiters) : waiters'[i] = waiters[i]
  BY <1>1
<1>4. \A y \in Processes \ {x} : Waiting(y) => Waiting(y)'
  BY DEF Waiting
<1>5. (\A i \in 1..Len(waiters) : Waiting(waiters[i]) /\ waiters[i] # owner)'
  <2> SUFFICES ASSUME NEW i \in 1..Len(waiters')
               PROVE  (Waiting(waiters[i]) /\ waiters[i] # owner)'
    OBVIOUS
  <2>1. CASE i = Len(waiters) + 1
    BY <1>1, <1>3, <2>1 DEF Waiting
  <2>2. CASE i \in 1..Len(waiters)
    <3>1. waiters[i] \in Processes \ {x} /\ Waiting(waiters[i]) /\ waiters'[i] = waiters[i]
      BY <1>2, <1>3, <2>2 DEF QueueInv
    <3> QED BY <1>1, <1>2, <1>4, <2>2, <3>1 DEF Waiting
  <2> QED BY <1>1, <1>3, <2>1, <2>2
<1>6. ASSUME NEW i \in 1..Len(waiters'), NEW j \in 1..Len(waiters'), waiters'[i] = waiters'[j]
      PROVE  i = j
  BY <1>1, <1>2, <1>3, <1>6 DEF QueueInv
<1>7. /\ owner' \in Callers => pc'[owner'] \in Holding \cup {"queued"}
      /\ owner' \in Clients => poll'[owner'] \in {"queued", "reading"}
  BY <1>1 DEF QueueInv, Processes
<1> QED BY <1>1, <1>5, <1>6, <1>7 DEF QueueInv

(* The release hands the lock to the first of those who go on waiting.      *)
LEMMA ReleaseQueue ==
    ASSUME TypeOK, QueueInv, Release,
           \A y \in InLine : Waiting(y)',
           \A t \in Clients : poll'[t] # "cancelled"
    PROVE  QueueInv'
<1>1. waiters \in Seq(Processes) /\ \A i \in 1..Len(waiters) : waiters[i] \in InLine
  BY DEF TypeOK, InLine
<1>2. CASE waiters = <<>>
  <2>1. owner' = None /\ waiters' = <<>>
    BY <1>2 DEF Release
  <2> QED BY <2>1, DifferentProcesses DEF QueueInv, Processes
<1>3. CASE waiters # <<>>
  <2>1. /\ owner' = waiters[1] /\ owner' \in Processes /\ owner' \in InLine
        /\ Len(waiters') = Len(waiters) - 1 /\ Len(waiters) >= 1
        /\ \A i \in 1..Len(waiters') : waiters'[i] = waiters[i + 1] /\ i + 1 \in 1..Len(waiters)
    BY <1>1, <1>3 DEF Release
  <2>2. (\A i \in 1..Len(waiters) : Waiting(waiters[i]) /\ waiters[i] # owner)'
    <3> SUFFICES ASSUME NEW i \in 1..Len(waiters')
                 PROVE  (Waiting(waiters[i]) /\ waiters[i] # owner)'
      OBVIOUS
    <3>1. /\ waiters'[i] = waiters[i + 1] /\ waiters[i + 1] \in InLine
          /\ waiters[i + 1] # waiters[1]
      BY <1>1, <2>1 DEF QueueInv
    <3> QED BY <2>1, <3>1 DEF Waiting
  <2>3. \A i, j \in 1..Len(waiters') : waiters'[i] = waiters'[j] => i = j
    <3> SUFFICES ASSUME NEW i \in 1..Len(waiters'), NEW j \in 1..Len(waiters'),
                        waiters'[i] = waiters'[j]
                 PROVE  i = j
      OBVIOUS
    <3>1. i + 1 \in 1..Len(waiters) /\ j + 1 \in 1..Len(waiters) /\ waiters[i + 1] = waiters[j + 1]
      BY <1>1, <2>1
    <3>2. i + 1 = j + 1
      BY <3>1 DEF QueueInv
    <3> QED BY <1>1, <2>1, <3>2
  <2>4. /\ owner' \in Callers => pc'[owner'] = "queued"
        /\ owner' \in Clients => poll'[owner'] = "queued"
    BY <2>1, DifferentProcesses DEF Waiting
  <2>5. owner' # None
    BY <2>1, DifferentProcesses
  <2> QED BY <2>2, <2>3, <2>4, <2>5 DEF QueueInv
<1> QED BY <1>2, <1>3

(* A caller that has the lock, or finds it free, and keeps it.              *)
LEMMA KeepQueue ==
    ASSUME TypeOK, QueueInv, NEW p \in Callers, owner \in {p, None},
           owner' = p, waiters' = waiters, pc'[p] \in Holding,
           \A q \in Callers \ {p} : pc'[q] = pc[q],
           \A t \in Clients : poll[t] \in {"queued", "cancelled"} => poll'[t] \in {"queued", "cancelled"}
    PROVE  QueueInv'
<1>1. \A i \in 1..Len(waiters) : waiters[i] # p
  BY DEF QueueInv
<1>2. p # None /\ p \notin Clients
  BY DifferentProcesses DEF Processes
<1> QED BY <1>1, <1>2 DEF QueueInv, Waiting

(* Return changes the point of p only, and p is not in the queue.           *)
LEMMA ReturnQueue ==
    ASSUME TypeOK, QueueInv, NEW p \in Callers, Return(p), owner \in {p, None},
           \A t \in Clients : poll[t] # "cancelled" /\ poll'[t] # "cancelled",
           \A t \in Clients : poll[t] = "queued" => poll'[t] = "queued"
    PROVE  QueueInv'
<1>1. \A y \in InLine : y # p /\ Waiting(y)
  BY DEF QueueInv, InLine
<1>2. \A q \in Callers \ {p} : pc'[q] = pc[q]
  BY ReturnPoints
<1>3. \A y \in InLine : Waiting(y)'
  BY <1>1, <1>2 DEF Waiting
<1> QED BY <1>3, ReleaseQueue DEF Return

(* No task is being cancelled while nobody stops one.                       *)
LEMMA NoneCancelled ==
    ASSUME TaskInv, \A p \in Callers : pc[p] # "stopping"
    PROVE  \A t \in Clients : poll[t] # "cancelled"
BY ProcessesAssumption DEF TaskInv, LivePollers

(* The step that makes a call, or enters its critical section, keeps the    *)
(* queue.                                                                   *)
LEMMA CallQueue ==
    ASSUME TypeOK, LockInv, TaskInv, QueueInv, NEW p \in Callers, NEW r \in Requests,
           \/ Arrive(p, r) \/ ConfigureRejected(p, r) \/ ConfigureReused(p, r)
           \/ ConfigureStop(p, r) \/ ConfigureFirst(p, r)
           \/ RefreshRefused(p, r) \/ RefreshBegin(p, r)
           \/ RemoveMissed(p, r) \/ RemoveStop(p, r)
           \/ CloseIdle(p, r) \/ CloseStop(p, r)
    PROVE  QueueInv'
<1>1. CASE Arrive(p, r)
  <2>1. /\ pc[p] = "idle" /\ pc'[p] = "queued" /\ Enqueue(p) /\ UNCHANGED poll
        /\ \A q \in Callers \ {p} : pc'[q] = pc[q]
    BY <1>1 DEF Arrive, TypeOK, pollVars
  <2>2. p \in Processes /\ p \notin Clients
    BY DifferentProcesses DEF Processes
  <2>3. ~Waiting(p) /\ p # owner /\ Waiting(p)'
    BY <2>1, <2>2 DEF Waiting, QueueInv, Holding
  <2> QED BY <2>1, <2>2, <2>3, EnqueueQueue
<1>2. CASE Entering(p, r)
  <2>1. /\ owner \in {p, None}
        /\ \A q \in Callers : pc[q] # "stopping"
    BY <1>2, EntersAlone DEF Entering, Holding, CallerPoints
  <2>2. \A t \in Clients : poll[t] # "cancelled"
    BY <2>1, NoneCancelled
  <2>3. CASE \/ ConfigureRejected(p, r) \/ ConfigureReused(p, r)
             \/ RefreshRefused(p, r) \/ RemoveMissed(p, r) \/ CloseIdle(p, r)
    <3>1. Return(p) /\ UNCHANGED poll
      BY <2>3 DEF ConfigureRejected, ConfigureReused, RefreshRefused, RemoveMissed, CloseIdle,
                  pollVars, Answer, Reuse
    <3> QED BY <2>1, <2>2, <3>1, ReturnQueue
  <2>4. CASE ConfigureStop(p, r) \/ RemoveStop(p, r) \/ CloseStop(p, r)
    <3>1. BeginStop(p, r)
      BY <2>4 DEF ConfigureStop, RemoveStop, CloseStop
    <3>2. \A t \in Clients : poll[t] = "queued" => poll'[t] \in {"queued", "cancelled"}
      BY <3>1 DEF BeginStop, TypeOK
    <3>3. Suspend(p, r, "stopping") \/ Suspend(p, r, "closing")
      BY <3>1 DEF BeginStop
    <3>4. /\ owner' = p /\ waiters' = waiters /\ pc'[p] \in Holding
          /\ \A q \in Callers \ {p} : pc'[q] = pc[q]
      BY <3>3, SuspendPoints DEF Holding, CallerPoints
    <3> QED BY <2>1, <2>2, <3>2, <3>4, KeepQueue
  <2>5. CASE ConfigureFirst(p, r) \/ RefreshBegin(p, r)
    <3>1. UNCHANGED poll /\ (Suspend(p, r, "authenticating") \/ Suspend(p, r, "reading"))
      BY <2>5 DEF ConfigureFirst, RefreshBegin, Authenticate, pollVars
    <3>2. /\ owner' = p /\ waiters' = waiters /\ pc'[p] \in Holding
          /\ \A q \in Callers \ {p} : pc'[q] = pc[q]
      BY <3>1, SuspendPoints DEF Holding, CallerPoints
    <3> QED BY <2>1, <3>1, <3>2, KeepQueue
  <2> QED BY <1>1, <2>3, <2>4, <2>5
<1> QED BY <1>1, <1>2 DEF ConfigureRejected, ConfigureReused, ConfigureStop, ConfigureFirst,
           RefreshRefused, RefreshBegin, RemoveMissed, RemoveStop, CloseIdle, CloseStop, Answer,
               SameConfig, SameKey, Reuse

(* So do the steps of a call after its first await.                         *)
LEMMA ContinueQueue ==
    ASSUME TypeOK, LockInv, TaskInv, QueueInv, NEW p \in Callers, Continue(p)
    PROVE  QueueInv'
<1>1. /\ pc[p] \in Holding /\ owner = p
      /\ \A q \in Callers : pc[q] = "stopping" => q = p
  BY ContinueHolds, CallerIsAlone DEF LockInv, Holding, CallerPoints
<1>2. CASE StopPollEnded(p) \/ AuthenticateOk(p) \/ AuthenticateFailed(p) \/ FirstReadFailed(p)
  <2>1. /\ owner' = p /\ waiters' = waiters /\ UNCHANGED poll /\ pc'[p] \in Holding
        /\ \A q \in Callers \ {p} : pc'[q] = pc[q]
    BY <1>1, <1>2 DEF StopPollEnded, AuthenticateOk, AuthenticateFailed, FirstReadFailed,
                      lockVars, pollVars, TypeOK, Holding, CallerPoints
  <2> QED BY <1>1, <2>1, KeepQueue
<1>3. CASE ConfigureReplace(p)
  <2>1. Suspend(p, req[p], "authenticating") /\ UNCHANGED poll
    BY <1>3 DEF ConfigureReplace, Authenticate, pollVars
  <2>2. /\ owner' = p /\ waiters' = waiters /\ pc'[p] \in Holding
        /\ \A q \in Callers \ {p} : pc'[q] = pc[q]
    BY <2>1, SuspendPoints DEF Holding, CallerPoints
  <2> QED BY <1>1, <2>1, <2>2, KeepQueue
<1>4. CASE \/ ConfigureDiscarded(p) \/ ConfigureUnwound(p) \/ Stopped(p)
           \/ RefreshDone(p) \/ RefreshFailed(p)
  <2>1. Return(p) /\ UNCHANGED poll /\ pc[p] # "stopping"
    BY <1>4 DEF ConfigureDiscarded, ConfigureUnwound, Stopped, RefreshDone, RefreshFailed,
                pollVars, Answer
  <2>2. \A t \in Clients : poll[t] # "cancelled"
    BY <1>1, <2>1, NoneCancelled
  <2> QED BY <1>1, <2>1, <2>2, ReturnQueue
<1>5. CASE ConfigureDone(p)
  <2>1. Return(p) /\ poll' = [poll EXCEPT ![active.client] = "created"] /\ LivePollers = {}
    BY <1>5 DEF ConfigureDone, TaskInv
  <2>2. \A t \in Clients : poll[t] = "none" /\ poll'[t] # "cancelled"
    BY <2>1 DEF LivePollers, TypeOK
  <2> QED BY <1>1, <2>1, <2>2, ReturnQueue
<1> QED BY <1>2, <1>3, <1>4, <1>5 DEF Continue

(* A cancelled task leaves the queue, wherever it stood.                    *)
LEMMA CancelledQueue ==
    ASSUME TypeOK, QueueInv, NEW t \in Clients, PollCancelled(t)
    PROVE  QueueInv'
<1>1. /\ waiters \in Seq(Processes) /\ t # None /\ t \notin Callers
      /\ owner' = owner /\ UNCHANGED pc
      /\ poll'[t] = "none" /\ \A u \in Clients \ {t} : poll'[u] = poll[u]
      /\ owner # t
  BY DifferentProcesses DEF PollCancelled, TypeOK, QueueInv, Processes, callVars
<1>2. \A y \in Processes \ {t} : Waiting(y) => Waiting(y)'
  BY <1>1 DEF Waiting
<1>3. CASE UNCHANGED waiters /\ ~Contains(waiters, t)
  <2>1. \A i \in 1..Len(waiters) : waiters[i] \in Processes /\ waiters[i] # t
    BY <1>1, <1>3 DEF Contains
  <2>2. (\A i \in 1..Len(waiters) : Waiting(waiters[i]) /\ waiters[i] # owner)'
    BY <1>1, <1>2, <1>3, <2>1 DEF QueueInv, Waiting
  <2> QED BY <1>1, <1>3, <2>2 DEF QueueInv
<1>4. ASSUME NEW i \in 1..Len(waiters), waiters[i] = t, waiters' = RemoveAt(waiters, i)
      PROVE  QueueInv'
  <2>1. /\ Len(waiters') = Len(waiters) - 1
        /\ \A j \in 1..Len(waiters') : waiters'[j] = waiters[IF j < i THEN j ELSE j + 1]
    BY <1>1, <1>4, RemoveAtElements
  <2>2. \A j \in 1..Len(waiters') : (IF j < i THEN j ELSE j + 1) \in (1..Len(waiters)) \ {i}
    BY <1>1, <2>1
  <2>3. \A j \in 1..Len(waiters) : j # i => waiters[j] \in Processes \ {t}
    BY <1>1, <1>4 DEF QueueInv
  <2>4. (\A j \in 1..Len(waiters) : Waiting(waiters[j]) /\ waiters[j] # owner)'
    <3> SUFFICES ASSUME NEW j \in 1..Len(waiters')
                 PROVE  (Waiting(waiters[j]) /\ waiters[j] # owner)'
      OBVIOUS
    <3> DEFINE k == IF j < i THEN j ELSE j + 1
    <3>1. waiters'[j] = waiters[k] /\ k \in 1..Len(waiters) /\ k # i
      BY <2>1, <2>2
    <3> HIDE DEF k
    <3>2. waiters[k] \in Processes \ {t} /\ Waiting(waiters[k]) /\ waiters[k] # owner
      BY <2>3, <3>1 DEF QueueInv
    <3> QED BY <1>1, <1>2, <3>1, <3>2 DEF Waiting
  <2>5. \A j, k \in 1..Len(waiters') : waiters'[j] = waiters'[k] => j = k
    <3> SUFFICES ASSUME NEW j \in 1..Len(waiters'), NEW k \in 1..Len(waiters'),
                        waiters'[j] = waiters'[k]
                 PROVE  j = k
      OBVIOUS
    <3>1. (IF j < i THEN j ELSE j + 1) = (IF k < i THEN k ELSE k + 1)
      BY <2>1, <2>2 DEF QueueInv
    <3> QED BY <1>1, <2>1, <3>1
  <2>6. owner # None
    BY <1>1, <1>4 DEF QueueInv
  <2> QED BY <1>1, <2>4, <2>5, <2>6 DEF QueueInv
<1> QED BY <1>3, <1>4 DEF PollCancelled

(* The other steps of a poll task keep the queue too.                       *)
LEMMA PollQueue ==
    ASSUME TypeOK, LockInv, TaskInv, QueueInv, NEW t \in Clients, PollStep(t)
    PROVE  QueueInv'
<1>1. /\ t \in Processes /\ t \notin Callers /\ t # None /\ UNCHANGED <<pc, active>>
      /\ waiters \in Seq(Processes)
  BY DifferentProcesses
     DEF Processes, PollStep, PollStart, PollWait, PollLocked, PollDone, PollFailed, PollFails,
         PollCancelled, callVars, TypeOK
<1>2. CASE PollCancelled(t)
  BY <1>2, CancelledQueue
<1>3. CASE ~PollCancelled(t)
  <2>1. poll[t] \in {"created", "sleeping", "queued", "reading"}
    BY <1>3 DEF PollStep, PollStart, PollWait, PollLocked, PollDone, PollFailed, PollFails
  <2>2. /\ pollTask = t /\ active # None /\ active.client = t
        /\ \A u \in Clients \ {t} : poll[u] = "none"
        /\ poll[t] # "created" => watch[t] = t
    BY <1>1, <2>1 DEF TaskInv, LivePollers
  <2>3. LoopTop(t) => poll'[t] = "sleeping" /\ \A u \in Clients \ {t} : poll'[u] = "none"
    BY <2>2 DEF LoopTop, TypeOK
  <2>4. \A y \in InLine : y \in Processes /\ Waiting(y)
    BY <1>1 DEF InLine, QueueInv
  <2>5. CASE PollStart(t)
    <3>1. /\ owner' = owner /\ waiters' = waiters /\ poll[t] = "created" /\ LoopTop(t)
      BY <2>5 DEF PollStart, lockVars
    <3>2. ~Waiting(t) /\ owner # t
      BY <1>1, <3>1 DEF Waiting, QueueInv
    <3>3. \A y \in Processes : Waiting(y) <=> Waiting(y)'
      BY <1>1, <2>2, <2>3, <3>1 DEF Waiting
    <3>4. (\A i \in 1..Len(waiters) : Waiting(waiters[i]))'
      BY <1>1, <3>1, <3>3 DEF QueueInv, Waiting
    <3> QED BY <1>1, <2>2, <2>3, <3>1, <3>2, <3>4 DEF QueueInv
  <2>6. CASE PollWait(t)
    <3>1. /\ poll[t] = "sleeping" /\ Enqueue(t)
          /\ poll'[t] = "queued" /\ \A u \in Clients \ {t} : poll'[u] = poll[u]
      BY <2>6 DEF PollWait, TypeOK
    <3>2. ~Waiting(t) /\ owner # t /\ Waiting(t)'
      BY <1>1, <3>1 DEF Waiting, QueueInv
    <3> QED BY <1>1, <3>1, <3>2, EnqueueQueue
  <2>7. CASE PollLocked(t)
    <3>1. /\ owner' = t /\ waiters' = waiters /\ owner \in {t, None}
          /\ poll'[t] = "reading" /\ \A u \in Clients \ {t} : poll'[u] = poll[u]
      BY <2>2, <2>7 DEF PollLocked, TypeOK
    <3>2. \A i \in 1..Len(waiters) : waiters[i] # t
      BY <3>1 DEF QueueInv
    <3>3. (\A i \in 1..Len(waiters) : Waiting(waiters[i]))'
      BY <1>1, <3>1, <3>2 DEF QueueInv, Waiting
    <3> QED BY <1>1, <3>1, <3>2, <3>3 DEF QueueInv
  <2>8. CASE PollDone(t) \/ PollFailed(t)
    <3>1. poll[t] = "reading" /\ Release /\ LoopTop(t)
      BY <2>8 DEF PollDone, PollFailed, PollFails
    <3>2. \A y \in InLine : Waiting(y)' /\ y \in Processes
      BY <1>1, <2>2, <2>3, <2>4, <3>1 DEF Waiting
    <3>3. \A u \in Clients : poll'[u] # "cancelled"
      BY <2>3, <3>1
    <3> QED BY <3>1, <3>2, <3>3, ReleaseQueue
  <2> QED BY <1>3, <2>5, <2>6, <2>7, <2>8 DEF PollStep
<1> QED BY <1>2, <1>3

-----------------------------------------------------------------------------
(* Who waits is in line *)

(* What a step of a caller does to the lock: it joins the queue, or has the *)
(* lock, or finds it free, and leaves or keeps it.                          *)
LEMMA CallerMoves ==
    ASSUME TypeOK, LockInv, NEW p \in Callers,
           (\E r \in Requests : Arrive(p, r)) \/ Enter(p) \/ Continue(p)
    PROVE  /\ \A q \in Callers \ {p} : pc'[q] = pc[q]
           /\ \/ Enqueue(p) /\ pc[p] = "idle"
              \/ /\ pc'[p] # "queued" /\ owner \in {p, None}
                 /\ Release \/ (owner' = p /\ waiters' = waiters)
<1>1. ASSUME Return(p), owner \in {p, None}
      PROVE  /\ pc'[p] # "queued" /\ Release
             /\ \A q \in Callers \ {p} : pc'[q] = pc[q]
  <2>1. Release
    BY <1>1 DEF Return
  <2> QED BY <1>1, <2>1, ReturnPoints
<1>2. ASSUME NEW r, NEW point \in Holding, Suspend(p, r, point), owner \in {p, None}
      PROVE  /\ pc'[p] # "queued" /\ owner' = p /\ waiters' = waiters
             /\ \A q \in Callers \ {p} : pc'[q] = pc[q]
  BY <1>2, SuspendPoints DEF Holding
<1>3. {"stopping", "closing", "authenticating", "reading"} \subseteq Holding
  BY DEF Holding, CallerPoints
<1>4. ASSUME NEW r \in Requests, Arrive(p, r)
      PROVE  Enqueue(p) /\ pc[p] = "idle" /\ \A q \in Callers \ {p} : pc'[q] = pc[q]
  BY <1>4 DEF Arrive, TypeOK
<1>5. CASE Enter(p)
  <2>1. ASSUME NEW r \in Requests,
               \/ ConfigureRejected(p, r) \/ ConfigureReused(p, r)
               \/ RefreshRefused(p, r) \/ RemoveMissed(p, r) \/ CloseIdle(p, r)
        PROVE  owner \in {p, None} /\ Return(p)
    BY <2>1 DEF ConfigureRejected, ConfigureReused, RefreshRefused, RemoveMissed, CloseIdle,
                Answer, Reuse, Entering
  <2>2. ASSUME NEW r \in Requests,
               ConfigureStop(p, r) \/ RemoveStop(p, r) \/ CloseStop(p, r)
        PROVE  owner \in {p, None} /\ (Suspend(p, r, "stopping") \/ Suspend(p, r, "closing"))
    BY <2>2 DEF ConfigureStop, RemoveStop, CloseStop, BeginStop, Entering
  <2>3. ASSUME NEW r \in Requests, ConfigureFirst(p, r) \/ RefreshBegin(p, r)
        PROVE  /\ owner \in {p, None}
               /\ Suspend(p, r, "authenticating") \/ Suspend(p, r, "reading")
    BY <2>3 DEF ConfigureFirst, RefreshBegin, Authenticate, Entering
  <2> QED BY <1>1, <1>2, <1>3, <1>5, <2>1, <2>2, <2>3 DEF Enter
<1>6. CASE Continue(p)
  <2>1. owner = p
    BY <1>6, ContinueHolds DEF LockInv
  <2>2. CASE StopPollEnded(p) \/ AuthenticateOk(p) \/ AuthenticateFailed(p) \/ FirstReadFailed(p)
    BY <2>1, <2>2 DEF StopPollEnded, AuthenticateOk, AuthenticateFailed, FirstReadFailed, TypeOK,
                      lockVars
  <2>3. CASE ConfigureReplace(p)
    BY <1>2, <1>3, <2>1, <2>3 DEF ConfigureReplace, Authenticate
  <2>4. CASE \/ ConfigureDiscarded(p) \/ ConfigureDone(p) \/ ConfigureUnwound(p)
             \/ RefreshDone(p) \/ RefreshFailed(p) \/ Stopped(p)
    BY <1>1, <2>1, <2>4 DEF ConfigureDiscarded, ConfigureDone, ConfigureUnwound, RefreshDone,
                            RefreshFailed, Stopped, Answer
  <2> QED BY <1>6, <2>2, <2>3, <2>4 DEF Continue
<1> QED BY <1>4, <1>5, <1>6

(* What a step of a poll task does to it: it may also leave the queue.      *)
LEMMA PollMoves ==
    ASSUME LockInv, NEW t \in Clients, PollStep(t)
    PROVE  /\ pc' = pc
           /\ \/ UNCHANGED <<owner, waiters>>
              \/ Enqueue(t)
              \/ /\ owner \in {t, None}
                 /\ Release \/ (owner' = t /\ waiters' = waiters)
              \/ /\ owner' = owner
                 /\ \E i \in 1..Len(waiters) :
                       waiters[i] = t /\ waiters' = RemoveAt(waiters, i)
BY DEF PollStep, PollStart, PollWait, PollLocked, PollDone, PollFailed, PollFails, PollCancelled,
       callVars, lockVars, LockInv

(* Nobody but the process that leaves gets out of line, except to the lock. *)
LEMMA EnqueueLine ==
    ASSUME TypeOK, NEW x, Enqueue(x)
    PROVE  InLine' = InLine \cup {x} /\ owner' = owner
<1>1. /\ waiters \in Seq(Processes) /\ waiters' = Append(waiters, x) /\ owner' = owner
      /\ Len(waiters') = Len(waiters) + 1 /\ waiters'[Len(waiters) + 1] = x
      /\ \A i \in 1..Len(waiters) : waiters'[i] = waiters[i]
  BY DEF TypeOK, Enqueue
<1> QED BY <1>1 DEF InLine

LEMMA ReleaseLine ==
    ASSUME TypeOK, Release
    PROVE  InLine \subseteq InLine' \cup {owner'}
<1>1. CASE waiters = <<>>
  BY <1>1 DEF InLine
<1>2. CASE waiters # <<>>
  <2>0. waiters \in Seq(Processes) /\ owner' = Head(waiters) /\ waiters' = Tail(waiters)
    BY <1>2 DEF TypeOK, Release
  <2>1. /\ owner' = waiters[1] /\ Len(waiters') = Len(waiters) - 1 /\ Len(waiters) \in Nat
        /\ \A i \in 1..Len(waiters') : waiters'[i] = waiters[i + 1]
    BY <1>2, <2>0
  <2>2. ASSUME NEW i \in 1..Len(waiters), i # 1
        PROVE  waiters[i] \in InLine'
    <3>1. i - 1 \in 1..Len(waiters') /\ waiters'[i - 1] = waiters[(i - 1) + 1] /\ (i - 1) + 1 = i
      BY <2>1, <2>2
    <3> QED BY <3>1 DEF InLine
  <2> QED BY <2>1, <2>2 DEF InLine
<1> QED BY <1>1, <1>2

LEMMA RemoveLine ==
    ASSUME TypeOK, NEW i \in 1..Len(waiters), waiters' = RemoveAt(waiters, i)
    PROVE  InLine \ {waiters[i]} \subseteq InLine'
<1>1. /\ waiters \in Seq(Processes) /\ Len(waiters') = Len(waiters) - 1
      /\ \A j \in 1..Len(waiters') : waiters'[j] = waiters[IF j < i THEN j ELSE j + 1]
  BY RemoveAtElements DEF TypeOK
<1>2. ASSUME NEW k \in 1..Len(waiters), k # i
      PROVE  waiters[k] \in InLine'
  <2>1. PICK j \in 1..Len(waiters') : (IF j < i THEN j ELSE j + 1) = k
    <3>1. CASE k < i
      BY <1>1, <3>1
    <3>2. CASE ~(k < i)
      <4>1. k - 1 \in 1..Len(waiters') /\ ~(k - 1 < i) /\ (k - 1) + 1 = k
        BY <1>1, <1>2, <3>2
      <4> QED BY <4>1
    <3> QED BY <3>1, <3>2
  <2> QED BY <1>1, <2>1 DEF InLine
<1> QED BY <1>2 DEF InLine

(* A caller that waits is in the queue or has just been handed the lock:    *)
(* every step that takes a process out of the queue hands it the lock, or   *)
(* is that of a cancelled task.                                             *)
LEMMA NextLine ==
    ASSUME TypeOK, LockInv, QueueInv, LineInv, [Next]_vars
    PROVE  LineInv'
<1> SUFFICES ASSUME NEW q \in Callers, pc'[q] = "queued"
             PROVE  owner' = q \/ q \in InLine'
  BY DEF LineInv
<1>1. CASE UNCHANGED vars
  BY <1>1 DEF vars, LineInv, InLine
<1>2. q # None /\ q \notin Clients
  BY DifferentProcesses DEF Processes
<1>3. ASSUME NEW p \in Callers, (\E r \in Requests : Arrive(p, r)) \/ Enter(p) \/ Continue(p)
      PROVE  owner' = q \/ q \in InLine'
  <2>1. CASE Enqueue(p)
    BY <1>3, <2>1, CallerMoves, EnqueueLine DEF LineInv
  <2>2. CASE /\ pc'[p] # "queued" /\ owner \in {p, None}
             /\ Release \/ (owner' = p /\ waiters' = waiters)
    <3>1. q # p /\ pc[q] = "queued"
      BY <1>3, <2>2, CallerMoves
    <3>2. q \in InLine
      BY <1>2, <2>2, <3>1 DEF LineInv
    <3> QED BY <2>2, <3>2, ReleaseLine DEF InLine
  <2> QED BY <1>3, <2>1, <2>2, CallerMoves
<1>4. ASSUME NEW t \in Clients, PollStep(t)
      PROVE  owner' = q \/ q \in InLine'
  <2>1. pc[q] = "queued" /\ (owner = q \/ q \in InLine)
    BY <1>4, PollMoves DEF LineInv
  <2>2. CASE UNCHANGED <<owner, waiters>>
    BY <2>1, <2>2 DEF InLine
  <2>3. CASE Enqueue(t)
    BY <2>1, <2>3, EnqueueLine
  <2>4. CASE owner \in {t, None} /\ (Release \/ (owner' = t /\ waiters' = waiters))
    <3>1. q \in InLine
      BY <1>2, <2>1, <2>4
    <3> QED BY <2>4, <3>1, ReleaseLine DEF InLine
  <2>5. ASSUME owner' = owner, NEW i \in 1..Len(waiters),
               waiters[i] = t, waiters' = RemoveAt(waiters, i)
        PROVE  owner' = q \/ q \in InLine'
    BY <1>2, <2>1, <2>5, RemoveLine
  <2> QED BY <1>4, <2>2, <2>3, <2>4, <2>5, PollMoves
<1> QED BY <1>1, <1>3, <1>4 DEF Next, Terminated

-----------------------------------------------------------------------------
(* The requests and the shutdown *)

(* The call that begins or enters is one its caller may make.               *)
LEMMA EntersAllowed ==
    ASSUME RequestInv, NEW p \in Callers, NEW r, Entering(p, r) \/ (pc[p] = "idle" /\ Allowed(p, r))
    PROVE  /\ r.op = "close" <=> p = Lifespan
           /\ p = Lifespan => \A h \in Handlers : pc[h] = "idle"
           /\ p # Lifespan => pc[Lifespan] = "idle"
<1>1. CASE pc[p] = "idle" /\ Allowed(p, r)
  BY <1>1 DEF Allowed
<1>2. CASE pc[p] = "queued" /\ req[p] = r
  BY <1>2 DEF RequestInv, Callers
<1> QED BY <1>1, <1>2 DEF Entering

(* The step that makes a call, or enters its critical section, keeps what   *)
(* is known of the requests.                                                *)
LEMMA CallRequest ==
    ASSUME TypeOK, LockInv, TaskInv, RequestInv, NEW p \in Callers, NEW r \in Requests,
           \/ Arrive(p, r) \/ ConfigureRejected(p, r) \/ ConfigureReused(p, r)
           \/ ConfigureStop(p, r) \/ ConfigureFirst(p, r)
           \/ RefreshRefused(p, r) \/ RefreshBegin(p, r)
           \/ RemoveMissed(p, r) \/ RemoveStop(p, r)
           \/ CloseIdle(p, r) \/ CloseStop(p, r)
    PROVE  RequestInv'
<1>1. Lifespan \in Callers /\ Handlers \subseteq Callers
  BY DifferentProcesses
<1>2. CASE Arrive(p, r)
  <2>1. /\ r.op = "close" <=> p = Lifespan
        /\ p = Lifespan => \A h \in Handlers : pc[h] = "idle"
        /\ p # Lifespan => pc[Lifespan] = "idle"
    BY <1>2, EntersAllowed DEF Arrive
  <2>2. /\ pc[p] = "idle" /\ pc'[p] = "queued" /\ req'[p] = r /\ active' = active
        /\ \A q \in Callers \ {p} : pc'[q] = pc[q] /\ req'[q] = req[q]
    BY <1>2 DEF Arrive, TypeOK
  <2> QED BY <1>1, <2>1, <2>2, NotTheLifespan DEF RequestInv, ActiveConfigId
<1>3. CASE Entering(p, r)
  <2>1. /\ r.op = "close" <=> p = Lifespan
        /\ p = Lifespan => \A h \in Handlers : pc[h] = "idle"
        /\ p # Lifespan => pc[Lifespan] = "idle"
    BY <1>3, EntersAllowed
  <2>2. \A q \in Callers : pc[q] \in {"idle", "queued", "down"}
    BY <1>3, EntersAlone DEF Holding, TypeOK
  <2>3. CASE \/ ConfigureRejected(p, r) \/ ConfigureReused(p, r)
             \/ RefreshRefused(p, r) \/ RemoveMissed(p, r) \/ CloseIdle(p, r)
    <3>1. Return(p)
      BY <2>3 DEF ConfigureRejected, ConfigureReused, RefreshRefused, RemoveMissed, CloseIdle,
                  Answer, Reuse
    <3>2. /\ pc'[p] = (IF p = Lifespan THEN "down" ELSE "idle") /\ req'[p] = None
          /\ \A q \in Callers \ {p} : pc'[q] = pc[q] /\ req'[q] = req[q]
      BY <3>1, ReturnPoints
    <3> QED BY <1>1, <2>1, <2>2, <3>2, NotTheLifespan DEF RequestInv
  <2>4. ASSUME NEW point \in {"stopping", "closing"}, Suspend(p, r, point), active' = active,
               /\ r.op # "refresh"
               /\ r.op = "configure" => ActiveConfigId = r.entry.cfg /\ active.entry.key # r.entry.key
               /\ r.op = "remove" => ActiveConfigId = r.cfg
        PROVE  RequestInv'
    <3>1. /\ pc'[p] = point /\ req'[p] = r
          /\ \A q \in Callers \ {p} : pc'[q] = pc[q] /\ req'[q] = req[q]
      BY <2>4, SuspendPoints
    <3> QED BY <1>1, <2>1, <2>2, <2>4, <3>1, NotTheLifespan DEF RequestInv, ActiveConfigId
  <2>5. BeginStop(p, r) => (Suspend(p, r, "stopping") \/ Suspend(p, r, "closing")) /\ active' = active
    BY DEF BeginStop
  <2>6. CASE ConfigureStop(p, r)
    <3>1. active # None
      BY <2>6, <1>3, EntersAlone, TasksAtRest DEF ConfigureStop, BeginStop, SomethingToStop
    <3> QED BY <2>4, <2>5, <2>6, <3>1 DEF ConfigureStop, SameConfig, SameKey
  <2>7. CASE RemoveStop(p, r) \/ CloseStop(p, r)
    BY <2>4, <2>5, <2>7 DEF RemoveStop, CloseStop
  <2>8. CASE ConfigureFirst(p, r) \/ RefreshBegin(p, r)
    <3>1. \/ r.op = "configure" /\ Suspend(p, r, "authenticating")
          \/ r.op = "refresh" /\ Suspend(p, r, "reading")
      BY <2>8 DEF ConfigureFirst, RefreshBegin, Authenticate
    <3>2. /\ \/ pc'[p] = "authenticating"
             \/ pc'[p] = "reading" /\ r.op = "refresh"
          /\ req'[p] = r
          /\ \A q \in Callers \ {p} : pc'[q] = pc[q] /\ req'[q] = req[q]
      BY <3>1, SuspendPoints
    <3> QED BY <1>1, <2>1, <2>2, <3>2, NotTheLifespan DEF RequestInv
  <2> QED BY <1>2, <2>3, <2>6, <2>7, <2>8
<1> QED BY <1>2, <1>3 DEF ConfigureRejected, ConfigureReused, ConfigureStop, ConfigureFirst,
           RefreshRefused, RefreshBegin, RemoveMissed, RemoveStop, CloseIdle, CloseStop,
           SameConfig, SameKey, Reuse

(* So do the steps of a call after its first await.                         *)
LEMMA ContinueRequest ==
    ASSUME TypeOK, LockInv, CallInv, RequestInv, NEW p \in Callers, Continue(p)
    PROVE  RequestInv'
<1>1. /\ Lifespan \in Callers /\ Handlers \subseteq Callers /\ pc[p] \in Holding
      /\ \A q \in Callers \ {p} : pc[q] \in {"idle", "queued", "down"}
  BY DifferentProcesses, ContinueHolds, CallerIsAlone DEF Holding, TypeOK
<1>2. /\ pc[p] \notin {"idle", "down"}
      /\ p = Lifespan => \A h \in Handlers : pc[h] = "idle"
      /\ p # Lifespan => pc[Lifespan] = "idle"
  BY <1>1 DEF RequestInv, Holding, Callers
<1>3. ASSUME Return(p) PROVE RequestInv'
  <2>1. /\ pc'[p] = (IF p = Lifespan THEN "down" ELSE "idle") /\ req'[p] = None
        /\ \A q \in Callers \ {p} : pc'[q] = pc[q] /\ req'[q] = req[q]
    BY <1>3, ReturnPoints
  <2> QED BY <1>1, <1>2, <2>1, NotTheLifespan DEF RequestInv
<1>4. CASE StopPollEnded(p)
  <2>1. /\ pc[p] = "stopping" /\ pc'[p] = "closing" /\ UNCHANGED <<active, req>>
        /\ \A q \in Callers \ {p} : pc'[q] = pc[q]
    BY <1>4 DEF StopPollEnded, TypeOK
  <2> QED BY <1>1, <1>2, <2>1 DEF RequestInv, ActiveConfigId
<1>5. CASE ConfigureReplace(p)
  <2>1. PICK c \in Clients : Suspend(p, req[p], "authenticating")
    BY <1>5 DEF ConfigureReplace, Authenticate
  <2>2. /\ pc'[p] = "authenticating" /\ req'[p] = req[p]
        /\ \A q \in Callers \ {p} : pc'[q] = pc[q] /\ req'[q] = req[q]
    BY <2>1, SuspendPoints
  <2> QED BY <1>1, <1>2, <2>2 DEF RequestInv
<1>6. CASE AuthenticateOk(p)
  <2>1. fresh[p] \in Clients /\ req[p] \in Requests /\ req[p].op = "configure"
    BY <1>6 DEF AuthenticateOk, CallInv, Opening
  <2>2. /\ active'.entry = req[p].entry /\ pc'[p] = "firstRead" /\ UNCHANGED req
        /\ \A q \in Callers \ {p} : pc'[q] = pc[q]
    BY <1>6, <2>1 DEF AuthenticateOk, TypeOK
  <2> QED BY <1>1, <1>2, <2>2 DEF RequestInv
<1>7. CASE AuthenticateFailed(p) \/ FirstReadFailed(p)
  <2>1. /\ \/ pc'[p] = "discarding"
           \/ pc[p] = "firstRead" /\ pc'[p] = "unwinding"
        /\ UNCHANGED <<active, req>>
        /\ \A q \in Callers \ {p} : pc'[q] = pc[q]
    BY <1>7 DEF AuthenticateFailed, FirstReadFailed, TypeOK
  <2> QED BY <1>1, <1>2, <2>1 DEF RequestInv
<1>8. CASE \/ ConfigureDiscarded(p) \/ ConfigureUnwound(p) \/ Stopped(p)
           \/ ConfigureDone(p) \/ RefreshDone(p) \/ RefreshFailed(p)
  BY <1>3, <1>8 DEF ConfigureDiscarded, ConfigureUnwound, Stopped, ConfigureDone, RefreshDone,
                    RefreshFailed, Answer
<1> QED BY <1>4, <1>5, <1>6, <1>7, <1>8 DEF Continue

(* Poll tasks do not touch the calls.                                       *)
LEMMA PollRequest ==
    ASSUME RequestInv, NEW t \in Clients, PollStep(t)
    PROVE  RequestInv'
<1>1. UNCHANGED <<pc, req, active>>
  BY DEF PollStep, PollStart, PollWait, PollLocked, PollDone, PollFailed, PollFails,
         PollCancelled, callVars
<1> QED BY <1>1 DEF RequestInv, ActiveConfigId

(* Without tasks and handlers in flight, the last release frees the lock.   *)
LEMMA LastRelease ==
    ASSUME TypeOK, QueueInv, LivePollers = {}, owner \in {Lifespan, None}, Release,
           \A h \in Handlers : pc[h] = "idle", pc[Lifespan] = "queued" => owner = Lifespan
    PROVE  owner' = None /\ waiters' = <<>>
<1>1. waiters \in Seq(Processes)
  BY DEF TypeOK
<1>2. \A i \in 1..Len(waiters) : FALSE
  <2> SUFFICES ASSUME NEW i \in 1..Len(waiters) PROVE FALSE
    OBVIOUS
  <2>1. Waiting(waiters[i]) /\ waiters[i] # owner
    BY DEF QueueInv
  <2> QED BY <2>1 DEF Waiting, LivePollers, Callers
<1>3. waiters = <<>>
  BY <1>1, <1>2
<1> QED BY <1>3 DEF Release

(* The call that finds nothing to stop leaves nothing.                      *)
LEMMA CallShutdown ==
    ASSUME Core, TaskInv, QueueInv, RequestInv, ShutdownIsClean, NEW p \in Callers, NEW r \in Requests,
           \/ Arrive(p, r) \/ ConfigureRejected(p, r) \/ ConfigureReused(p, r)
           \/ ConfigureStop(p, r) \/ ConfigureFirst(p, r)
           \/ RefreshRefused(p, r) \/ RefreshBegin(p, r)
           \/ RemoveMissed(p, r) \/ RemoveStop(p, r)
           \/ CloseIdle(p, r) \/ CloseStop(p, r)
    PROVE  ShutdownIsClean'
<1>0. TypeOK /\ LockInv /\ SessionInv
  BY DEF Core
<1>1. Entering(p, r) \/ (pc[p] = "idle" /\ Allowed(p, r) /\ pc'[p] = "queued")
  BY <1>0 DEF ConfigureRejected, ConfigureReused, ConfigureStop, ConfigureFirst,
         RefreshRefused, RefreshBegin, RemoveMissed, RemoveStop, CloseIdle, CloseStop,
         SameConfig, SameKey, Reuse, Arrive, TypeOK
<1>2. /\ r.op = "close" <=> p = Lifespan
      /\ p = Lifespan => \A h \in Handlers : pc[h] = "idle"
      /\ p # Lifespan => pc[Lifespan] = "idle"
      /\ Lifespan \in Callers
  BY <1>1, EntersAllowed, DifferentProcesses
<1>3. \A q \in Callers \ {p} : pc'[q] = pc[q]
  <2>1. \/ Return(p) \/ \E point : Suspend(p, r, point)
        \/ pc' = [pc EXCEPT ![p] = "queued"]
    BY DEF ConfigureRejected, ConfigureReused, ConfigureStop, ConfigureFirst,
         RefreshRefused, RefreshBegin, RemoveMissed, RemoveStop, CloseIdle, CloseStop,
         SameConfig, SameKey, Reuse, Arrive, Answer, BeginStop, Authenticate
  <2> QED BY <1>0, <2>1, ReturnPoints, SuspendPoints DEF TypeOK
<1>4. CASE p # Lifespan
  BY <1>2, <1>3, <1>4 DEF ShutdownIsClean
<1>5. CASE p = Lifespan /\ CloseIdle(p, r)
  <2>1. /\ active = None /\ pollTask = None /\ Entering(p, r) /\ Release
        /\ UNCHANGED <<active, client, poll>>
    BY <1>5 DEF CloseIdle, SomethingToStop, Answer, Return, pollVars
  <2>2. \A q \in Callers : pc[q] \notin Holding
    BY <1>0, <2>1, EntersAlone
  <2>3. LivePollers = {} /\ owner \in {Lifespan, None} /\ (pc[Lifespan] = "queued" => owner = Lifespan)
    BY <1>5, <2>1, <2>2, TasksAtRest DEF Entering
  <2>4. OpenClients = {}
    BY <1>0, <2>1, <2>2 DEF SessionInv, Opening, Holding, CallerPoints
  <2>5. owner' = None /\ waiters' = <<>>
    BY <1>0, <1>2, <1>5, <2>1, <2>3, LastRelease
  <2> QED BY <2>1, <2>3, <2>4, <2>5 DEF ShutdownIsClean, LivePollers, OpenClients
<1>6. CASE p = Lifespan /\ ~CloseIdle(p, r)
  <2>1. CloseStop(p, r) \/ Arrive(p, r)
    BY <1>2, <1>6 DEF ConfigureRejected, ConfigureReused, ConfigureStop, ConfigureFirst,
         RefreshRefused, RefreshBegin, RemoveMissed, RemoveStop
  <2>2. pc'[p] \in {"queued", "stopping", "closing"}
    BY <1>0, <2>1, SuspendPoints DEF CloseStop, BeginStop, Arrive, TypeOK
  <2> QED BY <1>6, <2>2 DEF ShutdownIsClean
<1> QED BY <1>4, <1>5, <1>6

(* The close that had something to stop leaves nothing either.              *)
LEMMA ContinueShutdown ==
    ASSUME Core, TaskInv, QueueInv, RequestInv, NEW p \in Callers, Continue(p)
    PROVE  ShutdownIsClean'
<1>0. TypeOK /\ LockInv /\ CallInv /\ SessionInv
  BY DEF Core
<1>1. /\ Lifespan \in Callers /\ pc[p] \in Holding /\ owner = p
      /\ \A q \in Callers \ {p} : pc[q] \in {"idle", "queued", "down"}
  BY <1>0, DifferentProcesses, ContinueHolds, CallerIsAlone DEF Holding, TypeOK, LockInv
<1>2. CASE p # Lifespan
  <2>1. pc[Lifespan] = "idle"
    BY <1>1, <1>2 DEF RequestInv, Holding, Callers
  <2>2. pc'[Lifespan] = pc[Lifespan]
    BY <1>0, <1>1, <1>2
       DEF Continue, StopPollEnded, ConfigureReplace, AuthenticateOk, AuthenticateFailed,
           ConfigureDiscarded, ConfigureDone, FirstReadFailed, ConfigureUnwound, RefreshDone,
           RefreshFailed, Stopped, Answer, Return, Authenticate, Suspend, TypeOK
  <2> QED BY <2>1, <2>2 DEF ShutdownIsClean
<1>3. CASE p = Lifespan
  <2>1. req[p].op = "close" /\ \A h \in Handlers : pc[h] = "idle"
    BY <1>1, <1>3 DEF RequestInv, Holding
  <2>2. pc[p] \in {"stopping", "closing"}
    BY <1>1, <1>0, <2>1 DEF RequestInv, CallInv, Opening, Holding, CallerPoints
  <2>3. StopPollEnded(p) \/ Stopped(p)
    BY <2>1, <2>2 DEF Continue, ConfigureReplace, AuthenticateOk, AuthenticateFailed,
           ConfigureDiscarded, ConfigureDone, FirstReadFailed, ConfigureUnwound, RefreshDone,
           RefreshFailed
  <2>4. CASE StopPollEnded(p)
    <3>1. pc'[Lifespan] = "closing"
      BY <1>0, <1>3, <2>4 DEF StopPollEnded, TypeOK
    <3> QED BY <3>1 DEF ShutdownIsClean
  <2>5. CASE Stopped(p)
    <3>1. LivePollers = {} /\ UNCHANGED poll /\ DropSession /\ Release
      BY <2>5 DEF Stopped, TaskInv, pollVars, Return
    <3>2. owner' = None /\ waiters' = <<>>
      BY <1>0, <1>1, <1>3, <2>1, <3>1, LastRelease
    <3>3. \A c \in OpenClients : active # None /\ active.client = c
      BY <1>0, <1>1, <2>2 DEF SessionInv, Opening
    <3>4. OpenClients' = {} /\ active' = None
      BY <1>0, <3>1, <3>3 DEF DropSession, AfterClose, OpenClients, TypeOK
    <3> QED BY <3>1, <3>2, <3>4 DEF ShutdownIsClean, LivePollers
  <2> QED BY <2>3, <2>4, <2>5
<1> QED BY <1>2, <1>3

(* After the shutdown nothing is left to take a step.                       *)
LEMMA PollShutdown ==
    ASSUME ShutdownIsClean, NEW t \in Clients, PollStep(t)
    PROVE  ShutdownIsClean'
<1>1. t \in LivePollers /\ pc' = pc
  BY DEF PollStep, PollStart, PollWait, PollLocked, PollDone, PollFailed, PollFails,
         PollCancelled, callVars, LivePollers
<1> QED BY <1>1 DEF ShutdownIsClean

-----------------------------------------------------------------------------
(* The invariant, and what it implies *)

(* The inductive invariant holds initially.                                 *)
LEMMA InitInductive == Init => InductiveInv
<1> SUFFICES ASSUME Init PROVE InductiveInv
  OBVIOUS
<1>1. LivePollers = {} /\ waiters = <<>> /\ owner = None /\ active = None /\ pollTask = None
      /\ \A p \in Callers : pc[p] = "idle" /\ req[p] = None
  BY DEF Init, LivePollers
<1>2. TaskInv /\ QueueInv /\ LineInv
  BY <1>1, DifferentProcesses DEF TaskInv, QueueInv, LineInv, Processes
<1>3. RequestInv /\ ShutdownIsClean
  BY <1>1, DifferentProcesses DEF RequestInv, ShutdownIsClean
<1> QED BY <1>2, <1>3, InitCore DEF InductiveInv

(* Every step keeps it.                                                     *)
LEMMA NextInductive == InductiveInv /\ [Next]_vars => InductiveInv'
<1> SUFFICES ASSUME InductiveInv, [Next]_vars PROVE InductiveInv'
  OBVIOUS
<1>0. /\ Core /\ TypeOK /\ LockInv /\ CallInv
      /\ TaskInv /\ QueueInv /\ LineInv /\ RequestInv /\ ShutdownIsClean
  BY DEF InductiveInv, Core
<1>1. Core' /\ LineInv'
  BY <1>0, NextCore, NextLine
<1>2. CASE UNCHANGED vars
  BY <1>0, <1>1, <1>2 DEF vars, InductiveInv, TaskInv, QueueInv, RequestInv, ShutdownIsClean,
                    LivePollers, Settling, Waiting, ActiveConfigId, OpenClients
<1>3. ASSUME NEW p \in Callers, NEW r \in Requests, Arrive(p, r)
      PROVE  InductiveInv'
  BY <1>0, <1>1, <1>3, CallTask, CallQueue, CallRequest, CallShutdown DEF InductiveInv
<1>4. ASSUME NEW p \in Callers, Enter(p)
      PROVE  InductiveInv'
  BY <1>0, <1>1, <1>4, CallTask, CallQueue, CallRequest, CallShutdown DEF Enter, InductiveInv
<1>5. ASSUME NEW p \in Callers, Continue(p)
      PROVE  InductiveInv'
  BY <1>0, <1>1, <1>5, ContinueTask, ContinueQueue, ContinueRequest, ContinueShutdown
     DEF InductiveInv
<1>6. ASSUME NEW t \in Clients, PollStep(t)
      PROVE  InductiveInv'
  BY <1>0, <1>1, <1>6, PollTask, PollQueue, PollRequest, PollShutdown DEF InductiveInv
<1> QED BY <1>2, <1>3, <1>4, <1>5, <1>6 DEF Next, Terminated

(* The lock, its queue, the calls, the session and the poll tasks keep the  *)
(* inductive invariant.                                                     *)
THEOREM ServiceInvariant == SafetySpec => []InductiveInv
BY InitInductive, NextInductive, PTL DEF SafetySpec

(* A session that nobody is changing has exactly one live poll task, which  *)
(* polls for it; without a session nothing polls.                           *)
THEOREM OnePoller == SafetySpec => []OnePollerPerSession
<1>1. InductiveInv => OnePollerPerSession
  <2> SUFFICES ASSUME InductiveInv PROVE OnePollerPerSession
    OBVIOUS
  <2>1. TypeOK /\ LockInv /\ TaskInv
    BY DEF InductiveInv, Core
  <2>2. ASSUME owner = None
        PROVE  IF active = None
               THEN pollTask = None /\ LivePollers = {}
               ELSE /\ pollTask = active.client /\ LivePollers = {pollTask}
                    /\ poll[pollTask] \in {"sleeping", "queued"} => watch[pollTask] = active.client
    <3>1. \A q \in Callers : pc[q] \notin Holding
      BY <2>1, <2>2, DifferentProcesses DEF LockInv, Processes
    <3>2. /\ pollTask = None => active = None /\ LivePollers = {}
          /\ active = None => pollTask = None
          /\ \A t \in LivePollers : t = pollTask
      BY <2>1, <3>1, TasksAtRest
    <3>3. active # None => pollTask \in LivePollers
      BY <2>1, <3>2 DEF TaskInv, LivePollers, TypeOK
    <3> QED BY <2>1, <3>2, <3>3 DEF TaskInv
  <2> QED BY <2>1, <2>2 DEF TaskInv, OnePollerPerSession
<1> QED BY <1>1, ServiceInvariant, PTL

(* The shutdown leaves no open client, no task and no one waiting.          *)
THEOREM CleanShutdown == SafetySpec => []ShutdownIsClean
<1>1. InductiveInv => ShutdownIsClean
  BY DEF InductiveInv
<1> QED BY <1>1, ServiceInvariant, PTL

-----------------------------------------------------------------------------
(* The service implements SingleSession *)

Account == IF OpenClients = {} THEN None ELSE client[CHOOSE c \in Clients : client[c] # None]

(* The state of the slot: the session's account and configuration, or the   *)
(* account a call is opening, or neither.                                   *)
SlotState ==
    /\ active # None => /\ Account = active.entry.key /\ Account # None
                        /\ ActiveConfigId = active.entry.cfg
                        /\ ActiveConfigId \in Configs /\ ActiveConfigId # None
    /\ active = None => ActiveConfigId = None
    /\ \A p \in Callers : Opening(p) =>
          active = None /\ Account = req[p].entry.key /\ Account \in Keys /\ Account # None
    /\ active = None /\ (\A p \in Callers : ~Opening(p)) => Account = None

(* The account is that of whatever client is open.                          *)
LEMMA AccountOfOpen ==
    ASSUME AtMostOneOpenClient, NEW c \in Clients, client[c] # None
    PROVE  Account = client[c]
<1>1. c \in OpenClients
  BY DEF OpenClients
<1>2. (CHOOSE d \in Clients : client[d] # None) = c
  BY <1>1 DEF AtMostOneOpenClient, OpenClients
<1> QED BY <1>1, <1>2 DEF Account

(* The invariant says what the slot is.                                     *)
LEMMA SlotFromInvariant == InductiveInv => SlotState
<1> SUFFICES ASSUME InductiveInv PROVE SlotState
  OBVIOUS
<1>1. TypeOK /\ CallInv /\ SessionInv /\ AtMostOneOpenClient
  BY CoreOneClient DEF InductiveInv, Core
<1>2. ASSUME active # None
      PROVE  /\ Account = active.entry.key /\ Account # None
             /\ ActiveConfigId = active.entry.cfg
             /\ ActiveConfigId \in Configs /\ ActiveConfigId # None
  <2>1. active.client \in Clients /\ active.entry \in Entries
    BY <1>1, <1>2, SessionFields
  <2>2. /\ active.entry.cfg \in Configs /\ active.entry.cfg # None
        /\ active.entry.key # None
    BY <2>1, EntryFields
  <2>3. client[active.client] = active.entry.key
    BY <1>1, <1>2 DEF SessionInv
  <2>4. Account = client[active.client]
    BY <1>1, <2>1, <2>2, <2>3, AccountOfOpen
  <2> QED BY <1>2, <2>2, <2>3, <2>4 DEF ActiveConfigId
<1>3. ASSUME NEW p \in Callers, Opening(p)
      PROVE  active = None /\ Account = req[p].entry.key /\ Account \in Keys /\ Account # None
  <2>1. /\ active = None /\ fresh[p] \in Clients /\ client[fresh[p]] = req[p].entry.key
        /\ req[p] \in Requests /\ req[p].op = "configure"
    BY <1>1, <1>3 DEF CallInv, Opening
  <2>2. req[p].entry.key \in Keys /\ req[p].entry.key # None
    BY <2>1, RequestFields, EntryFields
  <2>3. Account = client[fresh[p]]
    BY <1>1, <2>1, <2>2, AccountOfOpen
  <2> QED BY <2>1, <2>2, <2>3
<1>4. active = None /\ (\A p \in Callers : ~Opening(p)) => Account = None
  BY <1>1 DEF SessionInv, Account
<1> QED BY <1>2, <1>3, <1>4 DEF SlotState, ActiveConfigId

(* A step that leaves the clients, the session's configuration and what is  *)
(* published alone is no step of the slot.                                  *)
SlotStutters == UNCHANGED <<client, ActiveConfigId, published>>

LEMMA StutterStep ==
    ASSUME SlotStutters
    PROVE  UNCHANGED Slot!vars
BY DEF SlotStutters, Slot!vars, OpenClients

(* Publishing for the session's configuration is a report of its holder.    *)
LEMMA ReportStep ==
    ASSUME SlotState, active # None, NEW status \in {"connected", "disconnected"},
           published' = [published EXCEPT ![ActiveConfigId] = status],
           UNCHANGED <<client, active>>
    PROVE  Slot!Next
<1>1. ActiveConfigId \in Configs
  BY DEF SlotState
<1>2. UNCHANGED <<Account, ActiveConfigId>>
  BY DEF Account, OpenClients, ActiveConfigId
<1>3. PICK c \in Configs : c = ActiveConfigId
  BY <1>1
<1>4. Slot!Report(c)
  BY <1>2, <1>3 DEF Slot!Report, Account
<1> QED BY <1>4 DEF Slot!Next

(* The step that makes a call, or enters its critical section, is no step   *)
(* of the slot, or it opens the first account.                              *)
LEMMA CallSlot ==
    ASSUME InductiveInv, SlotState, SlotState', NEW p \in Callers, NEW r \in Requests,
           \/ Arrive(p, r) \/ ConfigureRejected(p, r) \/ ConfigureReused(p, r)
           \/ ConfigureStop(p, r) \/ ConfigureFirst(p, r)
           \/ RefreshRefused(p, r) \/ RefreshBegin(p, r)
           \/ RemoveMissed(p, r) \/ RemoveStop(p, r)
           \/ CloseIdle(p, r) \/ CloseStop(p, r)
    PROVE  Slot!Next \/ UNCHANGED Slot!vars
<1>0. TypeOK /\ LockInv
  BY DEF InductiveInv, Core
<1>1. CASE ConfigureFirst(p, r)
  <2>1. PICK c \in Clients : Suspend(p, r, "authenticating")
    BY <1>1 DEF ConfigureFirst, Authenticate
  <2>2. /\ active = None /\ active' = None /\ published' = published /\ Entering(p, r)
    BY <1>1 DEF ConfigureFirst, SomethingToStop, outVars
  <2>3. Account = None /\ ActiveConfigId = None /\ ActiveConfigId' = None
    BY <1>0, <2>2, EntersAlone DEF SlotState, Opening, Holding, CallerPoints
  <2>4. Opening(p)' /\ Account' # None /\ Account' \in Keys
    BY <1>0, <2>1, SuspendPoints DEF SlotState, Opening
  <2>5. PICK key \in Keys : key = Account'
    BY <2>4
  <2>6. Slot!Connect(key)
    BY <2>2, <2>3, <2>4, <2>5 DEF Slot!Connect, Account
  <2> QED BY <2>6 DEF Slot!Next
<1>2. CASE ConfigureReused(p, r)
  <2>1. active \in [client : Clients, entry : Entries] /\ active.entry.cfg = r.entry.cfg /\ active # None
    BY <1>0, <1>2, SessionFields DEF ConfigureReused, ActiveConfigId, SameConfig
  <2>2. active' # None /\ active'.entry.cfg = active.entry.cfg
    BY <1>2, <2>1, RequestFields, EntriesAssumption DEF ConfigureReused, Reuse
  <2>3. SlotStutters
    BY <1>2, <2>1, <2>2 DEF ConfigureReused, Reuse, SlotStutters, ActiveConfigId, outVars
  <2> QED BY <2>3, StutterStep
<1>3. CASE ~ConfigureFirst(p, r) /\ ~ConfigureReused(p, r)
  <2>1. UNCHANGED <<client, active, published>>
    BY <1>3 DEF ConfigureRejected, ConfigureStop, RefreshRefused, RefreshBegin, RemoveMissed,
         RemoveStop, CloseIdle, CloseStop, Arrive, Answer, BeginStop, outVars
  <2> QED BY <2>1, StutterStep DEF SlotStutters, ActiveConfigId
<1> QED BY <1>1, <1>2, <1>3

(* A later step of a call replaces, adopts, gives up or reports an account, *)
(* or is no step of the slot.                                               *)
LEMMA ContinueSlot ==
    ASSUME InductiveInv, SlotState, SlotState', NEW p \in Callers, Continue(p)
    PROVE  Slot!Next \/ UNCHANGED Slot!vars
<1>0. TypeOK /\ LockInv /\ CallInv /\ ReportInv /\ TaskInv /\ RequestInv
  BY DEF InductiveInv, Core
<1>1. \A q \in Callers \ {p} : ~Opening(q)
  BY <1>0, ContinueHolds, CallerIsAlone, OtherCalls
<1>2. CASE StopPollEnded(p) \/ AuthenticateFailed(p) \/ FirstReadFailed(p) \/ RefreshFailed(p)
  <2>1. UNCHANGED <<client, active, published>>
    BY <1>2 DEF StopPollEnded, AuthenticateFailed, FirstReadFailed, RefreshFailed, Answer, outVars
  <2> QED BY <2>1, StutterStep DEF SlotStutters, ActiveConfigId
<1>3. CASE ConfigureReplace(p)
  <2>1. PICK c \in Clients : Suspend(p, req[p], "authenticating")
    BY <1>3 DEF ConfigureReplace, Authenticate
  <2>2. /\ active # None /\ active' = None /\ published' = published
        /\ active.entry.key # req[p].entry.key
    BY <1>0, <1>3 DEF ConfigureReplace, TaskInv, RequestInv, outVars
  <2>3. /\ Account # req[p].entry.key /\ ActiveConfigId # None /\ ActiveConfigId' = None
    BY <2>2 DEF SlotState
  <2>4. Account' = req[p].entry.key /\ Account' \in Keys
    BY <1>0, <2>1, SuspendPoints DEF SlotState, Opening
  <2>5. PICK key \in Keys : key = Account'
    BY <2>4
  <2>6. Slot!Connect(key)
    BY <2>2, <2>3, <2>4, <2>5 DEF Slot!Connect, Account
  <2> QED BY <2>6 DEF Slot!Next
<1>4. CASE AuthenticateOk(p)
  <2>1. Opening(p) /\ req[p] \in Requests /\ req[p].op = "configure"
    BY <1>0, <1>4 DEF AuthenticateOk, CallInv, Opening
  <2>2. active = None /\ Account # None /\ ActiveConfigId = None
    BY <2>1 DEF SlotState
  <2>3. active' # None /\ UNCHANGED <<client, published>>
    BY <1>0, <1>4, <2>1, RequestFields, EntriesAssumption
       DEF AuthenticateOk, CallInv, outVars
  <2>4. ActiveConfigId' \in Configs /\ Account' = Account
    BY <2>3 DEF SlotState, Account, OpenClients
  <2>5. PICK c \in Configs : c = ActiveConfigId'
    BY <2>4
  <2>6. Slot!Adopt(c)
    BY <2>2, <2>3, <2>4, <2>5 DEF Slot!Adopt, Account
  <2> QED BY <2>6 DEF Slot!Next
<1>5. CASE ConfigureDiscarded(p) \/ ConfigureUnwound(p) \/ Stopped(p)
  <2>1. Return(p) /\ published' = published /\ active' = None
    BY <1>0, <1>5 DEF ConfigureDiscarded, ConfigureUnwound, Stopped, DropSession, CallInv,
                      Opening, outVars
  <2>2. Account # None
    BY <1>0, <1>5 DEF ConfigureDiscarded, ConfigureUnwound, Stopped, TaskInv, SlotState, Opening
  <2>3. \A q \in Callers : ~Opening(q)'
    BY <1>0, <1>1, <2>1, ReturnPoints DEF Opening
  <2>4. Account' = None /\ ActiveConfigId' = None
    BY <2>1, <2>3 DEF SlotState
  <2>5. Slot!Disconnect
    BY <2>1, <2>2, <2>4 DEF Slot!Disconnect, Account
  <2> QED BY <2>5 DEF Slot!Next
<1>6. CASE ConfigureDone(p) \/ RefreshDone(p)
  <2>1. /\ active # None /\ UNCHANGED <<client, active>>
        /\ published' = [published EXCEPT ![ActiveConfigId] = "connected"]
    BY <1>0, <1>6 DEF ConfigureDone, RefreshDone, PublishReading, CallInv, ReportInv,
                      CallerReading
  <2> QED BY <2>1, ReportStep
<1> QED BY <1>2, <1>3, <1>4, <1>5, <1>6 DEF Continue

(* A step of a poll task reports, or is no step of the slot.                *)
LEMMA PollSlot ==
    ASSUME InductiveInv, SlotState, NEW t \in Clients, PollStep(t)
    PROVE  Slot!Next \/ UNCHANGED Slot!vars
<1>1. CASE PollDone(t)
  <2>1. /\ active # None /\ UNCHANGED <<client, active>>
        /\ published' = [published EXCEPT ![ActiveConfigId] = "connected"]
    BY <1>1 DEF PollDone, PublishReading, InductiveInv, Core, SessionInv, ReportInv
  <2> QED BY <2>1, ReportStep
<1>2. CASE PollFailed(t)
  <2>1. /\ active # None /\ UNCHANGED <<client, active>>
        /\ published' = [published EXCEPT ![ActiveConfigId] = "disconnected"]
    BY <1>2 DEF PollFailed, PollFails, InductiveInv, Core, SessionInv, ReportInv
  <2> QED BY <2>1, ReportStep
<1>3. CASE PollStart(t) \/ PollWait(t) \/ PollLocked(t) \/ PollCancelled(t)
  <2>1. UNCHANGED <<client, active, published>>
    BY <1>3 DEF PollStart, PollWait, PollLocked, PollCancelled, outVars
  <2> QED BY <2>1, StutterStep DEF SlotStutters, ActiveConfigId
<1> QED BY <1>1, <1>2, <1>3 DEF PollStep

(* The service implements the single session: its initial state is that of  *)
(* the slot, and each of its steps connects, adopts, disconnects, reports   *)
(* or does nothing.                                                         *)
THEOREM SlotImplemented == SafetySpec => KeepsSlot
<1>1. Init => Slot!Init
  BY DEF Init, Slot!Init, OpenClients, ActiveConfigId
<1>2. InductiveInv /\ SlotState /\ SlotState' /\ [Next]_vars => [Slot!Next]_(Slot!vars)
  <2> SUFFICES ASSUME InductiveInv, SlotState, SlotState', [Next]_vars
               PROVE  Slot!Next \/ UNCHANGED Slot!vars
    OBVIOUS
  <2>1. CASE UNCHANGED vars
    BY <2>1, StutterStep DEF vars, SlotStutters, ActiveConfigId
  <2>2. ASSUME NEW p \in Callers, (\E r \in Requests : Arrive(p, r)) \/ Enter(p)
        PROVE  Slot!Next \/ UNCHANGED Slot!vars
    BY <2>2, CallSlot DEF Enter
  <2> QED BY <2>1, <2>2, ContinueSlot, PollSlot DEF Next, Terminated
<1> QED BY <1>1, <1>2, SlotFromInvariant, ServiceInvariant, PTL DEF SafetySpec, KeepsSlot, Slot!SafetySpec
=============================================================================
