------------------------- MODULE SenseRoutesProofs -------------------------
(***************************************************************************)
(* Theorems about SenseRuntime and SenseRoutes.  The runtime only          *)
(* restricts what the service does, and the routes what the runtime does,  *)
(* so what is proved of the service holds of both.  When configuration     *)
(* requests arrive one at a time, the registry, the events and the session *)
(* keep the contract with Core; and a sync that reports no failure has     *)
(* converged.                                                              *)
(***************************************************************************)
EXTENDS SenseRoutes, SensePollerProofs

(* The runtime *)

(* What a configuration request carries is a call of the service.           *)
LEMMA ConfigRequests ==
    /\ \A e \in Entries : Configuring(e) \in Requests
    /\ \A c \in Configs : Removing(c) \in Requests
    /\ [op |-> "refresh"] \in Requests /\ [op |-> "close"] \in Requests
BY DEF Configuring, Removing, Requests

(* A step of the runtime is one of the service.                             *)
LEMMA RuntimeStep == [RuntimeNext]_allVars => [Next]_vars
<1> SUFFICES ASSUME [RuntimeNext]_allVars PROVE [Next]_vars
  OBVIOUS
<1>0. Handlers \subseteq Callers /\ Writers \subseteq Callers /\ Lifespan \in Callers
  BY WritersAssumption DEF Callers
<1>1. ASSUME NEW h \in Writers, NEW e \in Entries,
             ApplyBegin(h, e) \/ ApplySucceeds(h, e) \/ ApplyFails(h, e)
      PROVE  Next
  BY <1>0, <1>1, ConfigRequests
     DEF ApplyBegin, ApplySucceeds, ApplyFails, Next, Enter, Continue
<1>2. ASSUME NEW h \in Writers, NEW c \in Configs, RemoveBegin(h, c) \/ RemoveEnds(h, c)
      PROVE  Next
  BY <1>0, <1>2, ConfigRequests DEF RemoveBegin, RemoveEnds, Next, Enter, Continue
<1>3. ASSUME NEW h \in Handlers, Refresh(h) \/ ConfigContinues(h)
      PROVE  Next
  BY <1>0, <1>3, ConfigRequests DEF Refresh, ConfigContinues, Next, Enter, Continue
<1>4. Shutdown => Next
  BY <1>0, ConfigRequests DEF Shutdown, Next, Enter, Continue
<1>5. CASE UNCHANGED allVars
  BY <1>5 DEF allVars
<1> QED BY <1>1, <1>2, <1>3, <1>4, <1>5 DEF RuntimeNext, Next

(* What is proved of the service holds of the service in the runtime.       *)
THEOREM RuntimeIsService == RuntimeSpec => SafetySpec
BY RuntimeStep, PTL DEF RuntimeSpec, SafetySpec, RuntimeInit

-----------------------------------------------------------------------------
(* What the steps of the service do to calls and session, as far as the     *)
(* registry is concerned.                                                   *)

(* A call that waits or suspends keeps its request and leaves the session.  *)
LEMMA CallSuspends ==
    ASSUME TypeOK, NEW p \in Callers, NEW r \in Requests,
           \/ Arrive(p, r) \/ ConfigureStop(p, r) \/ ConfigureFirst(p, r)
           \/ RefreshBegin(p, r) \/ RemoveStop(p, r) \/ CloseStop(p, r)
    PROVE  /\ pc[p] \in {"idle", "queued"} /\ (pc[p] = "queued" => req[p] = r)
           /\ pc'[p] \notin {"firstRead", "unwinding", "idle", "down"} /\ req'[p] = r
           /\ active' = active
           /\ \A q \in Callers \ {p} : pc'[q] = pc[q] /\ req'[q] = req[q]
<1>1. CASE Arrive(p, r)
  BY <1>1 DEF Arrive, TypeOK
<1>2. CASE ~Arrive(p, r)
  <2>1. Entering(p, r) /\ active' = active
    BY <1>2 DEF ConfigureStop, ConfigureFirst, RefreshBegin, RemoveStop, CloseStop, BeginStop
  <2>2. PICK point \in {"stopping", "closing", "authenticating", "reading"} : Suspend(p, r, point)
    BY <1>2 DEF ConfigureStop, ConfigureFirst, RefreshBegin, RemoveStop, CloseStop, BeginStop,
                Authenticate
  <2> QED BY <2>1, <2>2, SuspendPoints DEF Entering
<1> QED BY <1>1, <1>2

(* A call that finds nothing to do is answered in the step that enters it.  *)
LEMMA CallAnswered ==
    ASSUME TypeOK, NEW p \in Callers, NEW r \in Requests,
           \/ ConfigureRejected(p, r) \/ ConfigureReused(p, r)
           \/ RefreshRefused(p, r) \/ RemoveMissed(p, r) \/ CloseIdle(p, r)
    PROVE  /\ Entering(p, r) /\ pc[p] \in {"idle", "queued"} /\ (pc[p] = "queued" => req[p] = r)
           /\ pc'[p] \in {"idle", "down"} /\ req'[p] = None
           /\ \A q \in Callers \ {p} : pc'[q] = pc[q] /\ req'[q] = req[q]
<1>1. Entering(p, r) /\ Return(p)
  BY DEF ConfigureRejected, ConfigureReused, RefreshRefused, RemoveMissed, CloseIdle, Answer, Reuse
<1> QED BY <1>1, ReturnPoints DEF Entering

(* The last step of a call. *)
LEMMA CallEnds ==
    ASSUME TypeOK, NEW p \in Callers,
           \/ ConfigureDiscarded(p) \/ ConfigureDone(p) \/ ConfigureUnwound(p)
           \/ RefreshDone(p) \/ RefreshFailed(p) \/ Stopped(p)
    PROVE  /\ pc'[p] \in {"idle", "down"} /\ req'[p] = None
           /\ \A q \in Callers \ {p} : pc'[q] = pc[q] /\ req'[q] = req[q]
<1>1. Return(p)
  BY DEF ConfigureDiscarded, ConfigureDone, ConfigureUnwound, RefreshDone, RefreshFailed,
         Stopped, Answer
<1> QED BY <1>1, ReturnPoints

(* The steps in between keep the request. *)
LEMMA CallGoesOn ==
    ASSUME TypeOK, NEW p \in Callers,
           \/ StopPollEnded(p) \/ ConfigureReplace(p) \/ FirstReadFailed(p)
           \/ AuthenticateOk(p) \/ AuthenticateFailed(p)
    PROVE  /\ pc[p] \notin {"idle", "down"} /\ pc'[p] \notin {"idle", "down"}
           /\ req' = req
           /\ \A q \in Callers \ {p} : pc'[q] = pc[q]
<1>1. CASE ConfigureReplace(p)
  <2>1. Suspend(p, req[p], "authenticating") /\ pc[p] = "closing"
    BY <1>1 DEF ConfigureReplace, Authenticate
  <2> QED BY <2>1 DEF Suspend, TypeOK
<1> QED BY <1>1 DEF StopPollEnded, FirstReadFailed, AuthenticateOk, AuthenticateFailed, TypeOK

-----------------------------------------------------------------------------
(* One configuration request at a time *)

(* Only writers are in configuration requests: whatever a step does to the  *)
(* call of a handler that is not a writer, its request is a refresh.        *)
LEMMA NextWriters ==
    InductiveInv /\ WritersConfigure /\ [RuntimeNext]_allVars => WritersConfigure'
<1> SUFFICES ASSUME InductiveInv, WritersConfigure, [RuntimeNext]_allVars
             PROVE  WritersConfigure'
  OBVIOUS
<1> USE ConfigRequests
<1>0. TypeOK /\ Handlers \subseteq Callers /\ Writers \subseteq Callers /\ Lifespan \in Callers
  BY WritersAssumption DEF InductiveInv, Core, Callers
<1>1. ASSUME NEW h \in Writers, \A q \in Callers \ {h} : req'[q] = req[q]
      PROVE  WritersConfigure'
  BY <1>0, <1>1 DEF WritersConfigure
<1>2. ASSUME NEW h \in Writers, NEW e \in Entries,
             ApplyBegin(h, e) \/ ApplySucceeds(h, e) \/ ApplyFails(h, e)
      PROVE  WritersConfigure'
  <2>1. h \in Callers /\ \A q \in Callers \ {h} : req'[q] = req[q]
    BY <1>0, <1>2, CallSuspends, CallAnswered, CallEnds
       DEF ApplyBegin, ApplySucceeds, ApplyFails
  <2> QED BY <1>1, <2>1
<1>3. ASSUME NEW h \in Writers, NEW c \in Configs, RemoveBegin(h, c) \/ RemoveEnds(h, c)
      PROVE  WritersConfigure'
  <2>1. h \in Callers /\ \A q \in Callers \ {h} : req'[q] = req[q]
    BY <1>0, <1>3, CallSuspends, CallAnswered, CallEnds DEF RemoveBegin, RemoveEnds
  <2> QED BY <1>1, <2>1
<1>4. ASSUME NEW h \in Handlers, Refresh(h)
      PROVE  WritersConfigure'
  <2>1. req'[h] \in {[op |-> "refresh"], None} /\ \A q \in Callers \ {h} : req'[q] = req[q]
    BY <1>0, <1>4, CallSuspends, CallAnswered, CallEnds DEF Refresh
  <2> QED BY <1>0, <2>1 DEF WritersConfigure
<1>5. CASE (\E h \in Handlers : ConfigContinues(h)) \/ (\E t \in Clients : PollStep(t))
  <2>1. req' = req
    BY <1>0, <1>5, CallGoesOn DEF ConfigContinues, PollStep, PollStart, PollWait, PollLocked,
       PollDone, PollFailed, PollFails, PollCancelled, callVars
  <2> QED BY <2>1 DEF WritersConfigure
<1>6. CASE Shutdown
  <2>1. \A h \in Handlers : req'[h] = req[h]
    BY <1>0, <1>6, NotTheLifespan, CallSuspends, CallAnswered, CallEnds, CallGoesOn DEF Shutdown
  <2> QED BY <2>1 DEF WritersConfigure
<1>7. CASE UNCHANGED vars
  BY <1>7 DEF vars, WritersConfigure
<1> QED BY <1>2, <1>3, <1>4, <1>5, <1>6, <1>7 DEF RuntimeNext, Terminated, allVars

(* With one writer the entry that counts is known without a choice.         *)
StandingIsPrior ==
    \A h \in Handlers, c \in Configs : Applying(h, c) =>
        /\ h \in Writers
        /\ Standing(c) = previous[h]
        /\ \A g \in Handlers, d \in Configs : Applying(g, d) => g = h

StandingIsRegistered ==
    \A c \in Configs : (\A h \in Handlers : ~Applying(h, c)) => Standing(c) = registry[c]

(* Only the writer opens a session, and it does so in its own request.      *)
WriterReads ==
    \A h \in Handlers : FirstReading(h) =>
        h \in Writers /\ (\A g \in Handlers : FirstReading(g) => g = h)
        /\ req[h] \in Requests /\ req[h].op = "configure"

View == StandingIsPrior /\ StandingIsRegistered /\ WriterReads

LEMMA WritersView == OneWriter /\ InductiveInv /\ WritersConfigure => View
<1> SUFFICES ASSUME OneWriter, InductiveInv, WritersConfigure PROVE View
  OBVIOUS
<1>1. \A h \in Handlers, c \in Configs : Applying(h, c) => h \in Writers
  BY DEF Applying, WritersConfigure
<1>2. StandingIsPrior
  <2> SUFFICES ASSUME NEW h \in Handlers, NEW c \in Configs, Applying(h, c)
               PROVE  /\ h \in Writers
                      /\ Standing(c) = previous[h]
                      /\ \A g \in Handlers, d \in Configs : Applying(g, d) => g = h
    BY DEF StandingIsPrior
  <2>1. h \in Writers /\ \A g \in Handlers, d \in Configs : Applying(g, d) => g = h
    BY <1>1 DEF OneWriter
  <2>2. (CHOOSE g \in Handlers : Applying(g, c)) = h
    BY <2>1
  <2> QED BY <2>1, <2>2 DEF Standing
<1>3. StandingIsRegistered
  BY DEF StandingIsRegistered, Standing
<1>4. WriterReads
  <2> SUFFICES ASSUME NEW h \in Handlers, FirstReading(h)
               PROVE  h \in Writers /\ req[h] \in Requests /\ req[h].op = "configure"
    BY DEF WriterReads, OneWriter
  <2>1. h \in Callers /\ req[h] \in Requests /\ req[h].op = "configure"
    BY DEF InductiveInv, Core, CallInv, FirstReading, Callers
  <2> QED BY <2>1, RequestsAssumption DEF WritersConfigure
<1> QED BY <1>2, <1>3, <1>4 DEF View

-----------------------------------------------------------------------------
(* What each step does to the registrations that count, to the session and  *)
(* to the registry.                                                         *)

Unmoved == \A c \in Configs : Standing(c)' = Standing(c)

(* What the writer knows: no other handler is in a configuration request.   *)
LEMMA WriterIsAlone ==
    ASSUME OneWriter, View, NEW h \in Writers
    PROVE  \A g \in Handlers \ {h} : ~FirstReading(g) /\ \A c \in Configs : ~Applying(g, c)
BY DEF OneWriter, View, StandingIsPrior, WriterReads

(* Steps that leave the registry, the local entries and the configuration   *)
(* requests alone.                                                          *)
LEMMA QuietStep ==
    ASSUME RegistryInv, View, View', UNCHANGED runtimeVars,
           \A h \in Handlers, c \in Configs :
              /\ Applying(h, c)' <=> Applying(h, c)
              /\ Applying(h, c) => req'[h] = req[h],
           Held' \in {Held, None}
    PROVE  Unmoved /\ RegistryInv'
<1>1. registry' = registry /\ previous' = previous /\ event' = event
  BY DEF runtimeVars
<1>2. ASSUME NEW c \in Configs
      PROVE  Standing(c)' = Standing(c)
  <2>1. CASE \E h \in Handlers : Applying(h, c)
    <3>1. PICK h \in Handlers : Applying(h, c) /\ Applying(h, c)'
      BY <2>1
    <3> QED BY <1>1, <3>1 DEF View, StandingIsPrior
  <2>2. CASE \A h \in Handlers : ~Applying(h, c)
    BY <1>1, <2>2 DEF View, StandingIsRegistered
  <2> QED BY <2>1, <2>2
<1>3. \A c \in Configs : Held' # None /\ Held'.cfg = c => Standing(c)' = Held'
  BY <1>2 DEF RegistryInv
<1> QED BY <1>1, <1>2, <1>3 DEF RegistryInv, Unmoved

(* apply_config up to the call: the entry is registered, and the one it     *)
(* replaces is what still counts.                                           *)
LEMMA BeginStep ==
    ASSUME OneWriter, InductiveInv, RuntimeTypeOK, RegistryInv, View, View',
           NEW h \in Writers, NEW e \in Entries, ApplyBegin(h, e)
    PROVE  Unmoved /\ Held' = Held /\ RegistryInv'
<1>0. TypeOK /\ RequestInv /\ h \in Callers /\ h \in Handlers /\ Handlers \subseteq Callers
  BY WritersAssumption DEF InductiveInv, Core, Callers
<1>1. /\ pc[h] \in {"idle", "queued"} /\ (pc[h] = "queued" => req[h] = Configuring(e))
      /\ pc'[h] \notin {"firstRead", "unwinding"} /\ req'[h] = Configuring(e)
      /\ active' = active
      /\ \A q \in Callers \ {h} : pc'[q] = pc[q] /\ req'[q] = req[q]
  BY <1>0, ConfigRequests, CallSuspends DEF ApplyBegin
<1>2. /\ Configuring(e).op = "configure" /\ Configuring(e).entry = e /\ Configuring(e) # None
      /\ e.cfg \in Configs
  BY ConfigRequests, RequestsAssumption, EntryFields DEF Configuring
<1>3. /\ \A c \in Configs : Applying(h, c)' <=> c = e.cfg
      /\ \A g \in Handlers \ {h}, c \in Configs : ~Applying(g, c) /\ ~Applying(g, c)'
  BY <1>0, <1>1, <1>2, WriterIsAlone DEF Applying
<1>4. Held' = Held
  BY <1>0, <1>1 DEF Held, FirstReading
<1>5. event' = event
  BY DEF ApplyBegin
<1>6. CASE pc[h] = "idle"
  <2>1. /\ registry' = [registry EXCEPT ![e.cfg] = e]
        /\ previous' = [previous EXCEPT ![h] = registry[e.cfg]]
    BY <1>6 DEF ApplyBegin, Begun, Prior
  <2>2. /\ registry'[e.cfg] = e /\ previous'[h] = registry[e.cfg]
        /\ \A c \in Configs \ {e.cfg} : registry'[c] = registry[c]
    BY <1>0, <1>2, <2>1 DEF RuntimeTypeOK
  <2>3. \A c \in Configs : ~Applying(h, c)
    BY <1>0, <1>6 DEF RequestInv, Applying
  <2>4. Unmoved
    BY <1>0, <1>2, <1>3, <2>2, <2>3 DEF View, StandingIsPrior, StandingIsRegistered, Unmoved
  <2> QED BY <1>0, <1>1, <1>2, <1>3, <1>4, <1>5, <2>2, <2>4 DEF RegistryInv, Unmoved
<1>7. CASE pc[h] = "queued"
  <2>1. registry' = registry
    BY <1>7 DEF ApplyBegin, Begun
  <2>2. previous' = previous
    BY <1>0, <1>7 DEF ApplyBegin, Prior, RuntimeTypeOK
  <2> QED BY <1>0, <1>1, <1>4, <1>5, <1>7, <2>1, <2>2, QuietStep DEF runtimeVars, Applying
<1> QED BY <1>1, <1>6, <1>7

(* The request that is answered was the only one for its configuration.     *)
LEMMA AnswerView ==
    ASSUME OneWriter, View, View', NEW h \in Writers, h \in Handlers, req'[h] = None,
           \A g \in Handlers \ {h} : req'[g] = req[g]
    PROVE  /\ \A g \in Handlers, c \in Configs : ~Applying(g, c)'
           /\ \A c \in Configs : Standing(c)' = registry'[c]
<1>1. \A g \in Handlers \ {h}, c \in Configs : ~Applying(g, c)
  BY WriterIsAlone
<1>2. \A g \in Handlers, c \in Configs : ~Applying(g, c)'
  BY <1>1 DEF Applying
<1> QED BY <1>2 DEF View, StandingIsRegistered

(* apply_config answered: its entry counts, and the session is its own.     *)
LEMMA SucceedStep ==
    ASSUME OneWriter, InductiveInv, RuntimeTypeOK, RegistryInv, View, View',
           NEW h \in Writers, NEW e \in Entries, ApplySucceeds(h, e)
    PROVE  /\ \A c \in Configs : Standing(c)' = IF c = e.cfg THEN e ELSE Standing(c)
           /\ Held' = e
           /\ Held = None \/ (Held.cfg = e.cfg /\ Held.key = e.key)
           /\ RegistryInv'
<1>0. /\ TypeOK /\ LockInv /\ CallInv /\ RequestInv
      /\ h \in Callers /\ h \in Handlers /\ Handlers \subseteq Callers
  BY WritersAssumption DEF InductiveInv, Core, Callers
<1>1. /\ Configuring(e).op = "configure" /\ Configuring(e).entry = e /\ Configuring(e) # None
      /\ e.cfg \in Configs /\ e # None
  BY ConfigRequests, RequestsAssumption, EntryFields, EntriesAssumption DEF Configuring
<1>2. /\ req'[h] = None /\ pc'[h] \in {"idle", "down"}
      /\ pc[h] = "idle" \/ req[h] = Configuring(e)
      /\ \A q \in Callers \ {h} : pc'[q] = pc[q] /\ req'[q] = req[q]
  BY <1>0, ConfigRequests, CallAnswered, CallEnds DEF ApplySucceeds
<1>3. /\ \A g \in Handlers, c \in Configs : ~Applying(g, c)'
      /\ \A c \in Configs : Standing(c)' = registry'[c]
      /\ \A g \in Handlers \ {h} : ~FirstReading(g) /\ \A c \in Configs : ~Applying(g, c)
  BY <1>0, <1>2, AnswerView, WriterIsAlone
<1>4. pc[h] # "idle" => Applying(h, e.cfg)
  BY <1>1, <1>2 DEF Applying
<1>5. registry'[e.cfg] = e /\ \A c \in Configs \ {e.cfg} : registry'[c] = registry[c]
  <2>1. pc[h] # "idle" => registry[e.cfg] = e
    BY <1>0, <1>1, <1>2, <1>4 DEF RegistryInv
  <2>2. registry' = IF pc[h] = "idle" THEN [registry EXCEPT ![e.cfg] = e] ELSE registry
    BY DEF ApplySucceeds, Begun
  <2> QED BY <1>1, <2>1, <2>2 DEF RuntimeTypeOK
<1>6. \A c \in Configs : Standing(c)' = IF c = e.cfg THEN e ELSE Standing(c)
  <2>1. \A c \in Configs \ {e.cfg} : ~Applying(h, c)
    BY <1>0, <1>1, <1>2 DEF RequestInv, Applying
  <2>2. \A c \in Configs \ {e.cfg} : Standing(c) = registry[c]
    BY <1>3, <2>1 DEF View, StandingIsRegistered
  <2> QED BY <1>3, <1>5, <2>2
<1>7. Held' = e /\ (Held = None \/ (Held.cfg = e.cfg /\ Held.key = e.key))
  <2>1. \A g \in Handlers : ~FirstReading(g)'
    BY <1>0, <1>2, <1>3 DEF FirstReading
  <2>2. CASE ConfigureReused(h, Configuring(e))
    <3>1. active # None /\ active \in [client : Clients, entry : Entries]
      BY <1>0, <2>2, SessionFields DEF ConfigureReused, SameConfig
    <3>2. active.entry.cfg = e.cfg /\ active.entry.key = e.key
      BY <1>1, <2>2 DEF ConfigureReused, SameConfig, SameKey, ActiveConfigId
    <3>3. active' # None /\ active'.entry = e
      BY <1>1, <2>2, <3>1, EntriesAssumption DEF ConfigureReused, Reuse
    <3> QED BY <2>1, <3>2, <3>3 DEF Held
  <2>3. CASE ConfigureDone(h) /\ req[h] = Configuring(e)
    <3>1. active # None /\ active' = active /\ active.entry = e /\ FirstReading(h)
      BY <1>0, <1>1, <2>3 DEF ConfigureDone, CallInv, CallerReading, RequestInv, FirstReading
    <3> QED BY <1>0, <2>1, <3>1 DEF Held
  <2> QED BY <2>2, <2>3 DEF ApplySucceeds
<1>8. event'[e.cfg] = "applied" /\ \A c \in Configs \ {e.cfg} : event'[c] = event[c]
  BY <1>1 DEF ApplySucceeds, RuntimeTypeOK
<1>9. RegistryInv'
  <2>1. \A c \in Configs : registry'[c] # None => registry'[c].cfg = c
    BY <1>5 DEF RegistryInv
  <2>2. \A c \in Configs : /\ Held' # None /\ Held'.cfg = c => Standing(c)' = Held'
                           /\ event'[c] = "applied" <=> Standing(c)' # None
    BY <1>1, <1>6, <1>7, <1>8 DEF RegistryInv
  <2> QED BY <1>3, <2>1, <2>2 DEF RegistryInv
<1> QED BY <1>6, <1>7, <1>9

(* apply_config failed: what counted before still does.                     *)
LEMMA FailStep ==
    ASSUME OneWriter, InductiveInv, RuntimeTypeOK, RegistryInv, View, View',
           NEW h \in Writers, NEW e \in Entries, ApplyFails(h, e)
    PROVE  Unmoved /\ Held' = Held /\ RegistryInv'
<1>0. /\ TypeOK /\ LockInv /\ CallInv /\ RequestInv
      /\ h \in Callers /\ h \in Handlers /\ Handlers \subseteq Callers
  BY WritersAssumption DEF InductiveInv, Core, Callers
<1>1. /\ Configuring(e).op = "configure" /\ Configuring(e).entry = e /\ Configuring(e) # None
      /\ e.cfg \in Configs
  BY ConfigRequests, RequestsAssumption, EntryFields DEF Configuring
<1>2. /\ req'[h] = None /\ pc'[h] \in {"idle", "down"}
      /\ pc[h] = "idle" \/ req[h] = Configuring(e)
      /\ \A q \in Callers \ {h} : pc'[q] = pc[q] /\ req'[q] = req[q]
  BY <1>0, ConfigRequests, CallAnswered, CallEnds DEF ApplyFails
<1>3. /\ \A g \in Handlers, c \in Configs : ~Applying(g, c)'
      /\ \A c \in Configs : Standing(c)' = registry'[c]
      /\ \A g \in Handlers \ {h} : ~FirstReading(g) /\ \A c \in Configs : ~Applying(g, c)
  BY <1>0, <1>2, AnswerView, WriterIsAlone
<1>4. event' = event
  BY DEF ApplyFails
<1>5. /\ registry'[e.cfg] = IF pc[h] = "idle" THEN registry[e.cfg] ELSE previous[h]
      /\ \A c \in Configs \ {e.cfg} : registry'[c] = registry[c]
  BY <1>1 DEF ApplyFails, Rollback, Prior, RuntimeTypeOK
<1>6. Unmoved
  <2>1. CASE pc[h] = "idle"
    <3>1. \A c \in Configs : ~Applying(h, c)
      BY <1>0, <2>1 DEF RequestInv, Applying
    <3> QED BY <1>3, <1>5, <2>1, <3>1 DEF View, StandingIsRegistered, Unmoved
  <2>2. CASE pc[h] # "idle"
    <3>1. \A c \in Configs : Applying(h, c) <=> c = e.cfg
      BY <1>1, <1>2, <2>2 DEF Applying
    <3> QED BY <1>0, <1>1, <1>3, <1>5, <2>2, <3>1
            DEF View, StandingIsPrior, StandingIsRegistered, Unmoved
  <2> QED BY <2>1, <2>2
<1>7. Held' = Held
  <2>1. \A g \in Handlers : ~FirstReading(g)'
    BY <1>0, <1>2, <1>3 DEF FirstReading
  <2>2. CASE ConfigureRejected(h, Configuring(e))
    <3>1. active' = active /\ pc[h] \in {"idle", "queued"}
      BY <2>2 DEF ConfigureRejected, Answer, Entering
    <3>2. \A g \in Handlers : ~FirstReading(g)
      BY <1>3, <3>1 DEF FirstReading
    <3> QED BY <2>1, <3>1, <3>2 DEF Held
  <2>3. CASE ConfigureDiscarded(h)
    <3>1. active' = active /\ active = None
      BY <1>0, <2>3 DEF ConfigureDiscarded, CallInv, Opening
    <3> QED BY <3>1 DEF Held
  <2>4. CASE ConfigureUnwound(h)
    <3>1. active' = None /\ FirstReading(h)
      BY <2>4 DEF ConfigureUnwound, DropSession, FirstReading
    <3> QED BY <1>0, <3>1 DEF Held
  <2> QED BY <2>2, <2>3, <2>4 DEF ApplyFails
<1>8. \A c \in Configs : registry'[c] # None => registry'[c].cfg = c
  <2>1. pc[h] # "idle" => Applying(h, e.cfg)
    BY <1>1, <1>2 DEF Applying
  <2>2. pc[h] # "idle" /\ previous[h] # None => previous[h].cfg = e.cfg
    BY <1>0, <1>1, <2>1 DEF RegistryInv
  <2> QED BY <1>1, <1>5, <2>2 DEF RegistryInv
<1>9. \A c \in Configs : /\ Held' # None /\ Held'.cfg = c => Standing(c)' = Held'
                         /\ event'[c] = "applied" <=> Standing(c)' # None
  BY <1>4, <1>6, <1>7 DEF RegistryInv, Unmoved
<1> QED BY <1>3, <1>6, <1>7, <1>8, <1>9 DEF RegistryInv

(* remove_config up to the service's await changes nothing yet.             *)
LEMMA RemoveBeginStep ==
    ASSUME OneWriter, InductiveInv, RegistryInv, View, View',
           NEW h \in Writers, NEW c \in Configs, RemoveBegin(h, c)
    PROVE  Unmoved /\ Held' = Held /\ RegistryInv'
<1>0. /\ TypeOK /\ RequestInv /\ Removing(c) \in Requests /\ Removing(c).op = "remove"
      /\ h \in Callers /\ h \in Handlers /\ Handlers \subseteq Callers
  BY WritersAssumption, ConfigRequests DEF InductiveInv, Core, Callers, Removing
<1>1. /\ pc[h] \in {"idle", "queued"} /\ (pc[h] = "queued" => req[h] = Removing(c))
      /\ pc'[h] \notin {"firstRead", "unwinding"} /\ req'[h] = Removing(c)
      /\ active' = active
      /\ \A q \in Callers \ {h} : pc'[q] = pc[q] /\ req'[q] = req[q]
  BY <1>0, CallSuspends DEF RemoveBegin
<1>2. Held' = Held
  BY <1>0, <1>1 DEF Held, FirstReading
<1>3. req[h] = None \/ req[h].op = "remove"
  BY <1>0, <1>1 DEF RequestInv
<1>4. \A g \in Handlers, d \in Configs :
         (Applying(g, d)' <=> Applying(g, d)) /\ (Applying(g, d) => req'[g] = req[g])
  BY <1>0, <1>1, <1>3 DEF Applying
<1>5. UNCHANGED runtimeVars
  BY DEF RemoveBegin
<1> QED BY <1>2, <1>4, <1>5, QuietStep

(* remove_config answered: the entry no longer counts, and its session, if  *)
(* it had one, is gone.                                                     *)
LEMMA RemoveEndStep ==
    ASSUME OneWriter, InductiveInv, RuntimeTypeOK, RegistryInv, View, View',
           NEW h \in Writers, NEW c \in Configs, RemoveEnds(h, c)
    PROVE  /\ \A d \in Configs : Standing(d)' = IF d = c THEN None ELSE Standing(d)
           /\ Held' = IF Held # None /\ Held.cfg = c THEN None ELSE Held
           /\ RegistryInv'
<1>0. /\ TypeOK /\ LockInv /\ TaskInv /\ RequestInv /\ Removing(c) \in Requests
      /\ Removing(c).op = "remove" /\ Removing(c).cfg = c
      /\ h \in Callers /\ h \in Handlers /\ Handlers \subseteq Callers
  BY WritersAssumption, ConfigRequests DEF InductiveInv, Core, Callers, Removing
<1>1. /\ req'[h] = None /\ pc'[h] \in {"idle", "down"}
      /\ pc[h] \in {"idle", "queued", "closing"}
      /\ pc[h] = "idle" \/ req[h] = Removing(c)
      /\ \A q \in Callers \ {h} : pc'[q] = pc[q] /\ req'[q] = req[q]
  BY <1>0, CallAnswered, CallEnds DEF RemoveEnds, Stopped
<1>2. /\ \A g \in Handlers, d \in Configs : ~Applying(g, d)'
      /\ \A d \in Configs : Standing(d)' = registry'[d]
      /\ \A g \in Handlers \ {h} : ~FirstReading(g) /\ \A d \in Configs : ~Applying(g, d)
  BY <1>0, <1>1, AnswerView, WriterIsAlone
<1>3. \A d \in Configs : Standing(d) = registry[d]
  <2>1. \A d \in Configs : ~Applying(h, d)
    BY <1>0, <1>1 DEF RequestInv, Applying
  <2> QED BY <1>2, <2>1 DEF View, StandingIsRegistered
<1>4. registry'[c] = None /\ \A d \in Configs \ {c} : registry'[d] = registry[d]
  BY DEF RemoveEnds, RuntimeTypeOK
<1>5. \A g \in Handlers : ~FirstReading(g) /\ ~FirstReading(g)'
  BY <1>0, <1>1, <1>2 DEF FirstReading
<1>6. Held' = IF Held # None /\ Held.cfg = c THEN None ELSE Held
  <2>1. CASE RemoveMissed(h, Removing(c))
    <3>1. active' = active /\ ActiveConfigId # c
      BY <1>0, <2>1 DEF RemoveMissed, Answer
    <3> QED BY <1>5, <3>1 DEF Held, ActiveConfigId
  <2>2. CASE Stopped(h) /\ req[h] = Removing(c)
    <3>1. active' = None /\ active # None /\ ActiveConfigId = c
      BY <1>0, <2>2 DEF Stopped, DropSession, TaskInv, RequestInv
    <3> QED BY <1>5, <3>1 DEF Held, ActiveConfigId
  <2> QED BY <2>1, <2>2 DEF RemoveEnds
<1>7. /\ event'[c] # "applied"
      /\ \A d \in Configs \ {c} : event'[d] = event[d]
  <2>1. registry[c] = None => event[c] # "applied"
    BY <1>3 DEF RegistryInv
  <2> QED BY <2>1 DEF RemoveEnds, RuntimeTypeOK
<1>8. \A d \in Configs : Standing(d)' = IF d = c THEN None ELSE Standing(d)
  BY <1>2, <1>3, <1>4
<1>9. RegistryInv'
  <2>1. \A d \in Configs : registry'[d] # None => registry'[d].cfg = d
    BY <1>4 DEF RegistryInv
  <2>2. \A d \in Configs : /\ Held' # None /\ Held'.cfg = d => Standing(d)' = Held'
                           /\ event'[d] = "applied" <=> Standing(d)' # None
    BY <1>6, <1>7, <1>8 DEF RegistryInv
  <2> QED BY <1>2, <2>1, <2>2 DEF RegistryInv
<1> QED BY <1>6, <1>8, <1>9

(* The other steps keep what counts, and keep the session or drop it.       *)
OtherStep ==
    \/ \E h \in Handlers : Refresh(h) \/ ConfigContinues(h)
    \/ Shutdown
    \/ \E t \in Clients : PollStep(t) /\ UNCHANGED runtimeVars
    \/ Terminated /\ UNCHANGED runtimeVars
    \/ UNCHANGED allVars

LEMMA OtherSteps ==
    ASSUME OneWriter, InductiveInv, RegistryInv, View, View', OtherStep
    PROVE  Unmoved /\ Held' \in {Held, None} /\ RegistryInv'
<1>0. /\ TypeOK /\ LockInv /\ CallInv /\ TaskInv /\ RequestInv /\ Handlers \subseteq Callers
      /\ Lifespan \in Callers
  BY DEF InductiveInv, Core, Callers
<1>1. UNCHANGED runtimeVars
  BY DEF OtherStep, Refresh, ConfigContinues, Shutdown, allVars
<1>2. \A g \in Handlers, c \in Configs :
         (Applying(g, c)' <=> Applying(g, c)) /\ (Applying(g, c) => req'[g] = req[g])
  <2>1. ASSUME NEW h \in Handlers, Refresh(h)
        PROVE  /\ \A q \in Handlers \ {h} : req'[q] = req[q]
               /\ req[h] = None \/ req[h].op = "refresh"
               /\ req'[h] = None \/ req'[h].op = "refresh"
    <3>1. \/ pc[h] = "idle" \/ (pc[h] = "queued" /\ req[h] = [op |-> "refresh"]) \/ pc[h] = "reading"
      BY <2>1 DEF Refresh, Arrive, RefreshRefused, RefreshBegin, RefreshDone, RefreshFailed, Entering
    <3> QED BY <1>0, <2>1, <3>1, ConfigRequests, CallSuspends, CallAnswered, CallEnds
            DEF Refresh, RequestInv
  <2>2. CASE ~\E h \in Handlers : Refresh(h)
    <3>1. \A h \in Handlers : req'[h] = req[h]
      BY <1>0, <2>2, NotTheLifespan, ConfigRequests, CallSuspends, CallAnswered, CallEnds,
         CallGoesOn
         DEF OtherStep, ConfigContinues, Shutdown, PollStep, PollStart, PollWait, PollLocked,
             PollDone, PollFailed, PollFails, PollCancelled, callVars, Terminated, allVars, vars
    <3> QED BY <3>1 DEF Applying
  <2> QED BY <2>1, <2>2 DEF Applying
<1>3. Held' \in {Held, None}
  <2>1. CASE active' = None
    BY <2>1 DEF Held
  <2>2. CASE active' = active
    <3>1. \A h \in Handlers : FirstReading(h) => FirstReading(h)'
      <4>1. ASSUME NEW h \in Handlers, Refresh(h)
            PROVE  ~FirstReading(h) /\ \A q \in Handlers \ {h} : pc'[q] = pc[q]
        BY <1>0, <4>1, ConfigRequests, CallSuspends, CallAnswered, CallEnds
           DEF Refresh, RefreshDone, RefreshFailed, FirstReading
      <4>2. ASSUME NEW h \in Handlers, ConfigContinues(h)
            PROVE  /\ FirstReading(h) => FirstReading(h)'
                   /\ \A q \in Handlers \ {h} : pc'[q] = pc[q]
        <5>1. \A q \in Handlers \ {h} : pc'[q] = pc[q]
          BY <1>0, <4>2, CallGoesOn DEF ConfigContinues
        <5>2. FirstReading(h) => FirstReading(h)'
          BY <1>0, <4>2 DEF ConfigContinues, StopPollEnded, ConfigureReplace, FirstReadFailed,
             AuthenticateOk, AuthenticateFailed, FirstReading, TypeOK
        <5> QED BY <5>1, <5>2
      <4>3. CASE Shutdown
        BY <1>0, <4>3, NotTheLifespan, ConfigRequests, CallSuspends, CallAnswered, CallEnds,
           CallGoesOn DEF Shutdown, FirstReading
      <4>4. CASE pc' = pc
        BY <4>4 DEF FirstReading
      <4>5. (\E t \in Clients : PollStep(t)) \/ Terminated \/ UNCHANGED allVars => pc' = pc
        BY DEF PollStep, PollStart, PollWait, PollLocked, PollDone, PollFailed, PollFails,
           PollCancelled, callVars, Terminated, allVars, vars
      <4> QED BY <4>1, <4>2, <4>3, <4>4, <4>5 DEF OtherStep, FirstReading
    <3> QED BY <2>2, <3>1 DEF Held
  <2>3. CASE \E h \in Handlers : AuthenticateOk(h)
    <3>1. PICK h \in Handlers : pc'[h] = "firstRead"
      BY <1>0, <2>3 DEF AuthenticateOk, TypeOK
    <3> QED BY <3>1 DEF Held, FirstReading
  <2>4. active' \in {active, None} \/ \E h \in Handlers : AuthenticateOk(h)
    <3>1. ASSUME NEW h \in Handlers, Refresh(h)
          PROVE  active' = active
      BY <1>0, <3>1, ConfigRequests, CallSuspends
         DEF Refresh, RefreshRefused, RefreshDone, RefreshFailed, Answer
    <3>2. ASSUME NEW h \in Handlers, ConfigContinues(h), ~AuthenticateOk(h)
          PROVE  active' \in {active, None}
      BY <3>2 DEF ConfigContinues, StopPollEnded, ConfigureReplace, FirstReadFailed,
         AuthenticateFailed
    <3>3. CASE Shutdown
      BY <1>0, <3>3, ConfigRequests, CallSuspends
         DEF Shutdown, CloseIdle, StopPollEnded, Stopped, DropSession, Answer
    <3>4. (\E t \in Clients : PollStep(t)) \/ Terminated \/ UNCHANGED allVars => active' = active
      BY DEF PollStep, PollStart, PollWait, PollLocked, PollDone, PollFailed, PollFails,
         PollCancelled, Terminated, allVars, vars
    <3> QED BY <3>1, <3>2, <3>3, <3>4 DEF OtherStep
  <2> QED BY <2>1, <2>2, <2>3, <2>4
<1> QED BY <1>1, <1>2, <1>3, QuietStep

-----------------------------------------------------------------------------
(* The invariant, and what it implies *)

(* The registry, the local entries and the events keep their types.         *)
LEMMA RuntimeTypes ==
    ASSUME RuntimeTypeOK, TypeOK', [RuntimeNext]_allVars
    PROVE  RuntimeTypeOK'
<1>1. ASSUME NEW h \in Writers, NEW e \in Entries,
             ApplyBegin(h, e) \/ ApplySucceeds(h, e) \/ ApplyFails(h, e)
      PROVE  RuntimeTypeOK'
  <2>1. e.cfg \in Configs /\ h \in Handlers
    BY EntryFields, WritersAssumption
  <2>2. Begun(h, e) \in [Configs -> Entries \cup {None}] /\ Prior(h, e) \in Entries \cup {None}
    BY <2>1 DEF Begun, Prior, RuntimeTypeOK
  <2> QED BY <1>1, <2>1, <2>2 DEF ApplyBegin, ApplySucceeds, ApplyFails, Rollback, RuntimeTypeOK
<1>2. ASSUME NEW h \in Writers, NEW c \in Configs, RemoveBegin(h, c) \/ RemoveEnds(h, c)
      PROVE  RuntimeTypeOK'
  BY <1>2 DEF RemoveBegin, RemoveEnds, RuntimeTypeOK, runtimeVars
<1>3. UNCHANGED runtimeVars => RuntimeTypeOK'
  BY DEF RuntimeTypeOK, runtimeVars
<1> QED BY <1>1, <1>2, <1>3 DEF RuntimeNext, Refresh, ConfigContinues, Shutdown, allVars

(* The steps of the runtime: a configuration request is accepted, removed   *)
(* or has no effect on what counts.                                         *)
Accepts(e) ==
    /\ \A c \in Configs : Standing(c)' = IF c = e.cfg THEN e ELSE Standing(c)
    /\ Held' = e
    /\ Held = None \/ (Held.cfg = e.cfg /\ Held.key = e.key)

Forgets(c) ==
    /\ \A d \in Configs : Standing(d)' = IF d = c THEN None ELSE Standing(d)
    /\ Held' = IF Held # None /\ Held.cfg = c THEN None ELSE Held

LEMMA RegistryStep ==
    ASSUME OneWriter, InductiveInv, RuntimeTypeOK, RegistryInv, View, View',
           [RuntimeNext]_allVars
    PROVE  /\ RegistryInv'
           /\ \/ \E e \in Entries : Accepts(e)
              \/ \E c \in Configs : Forgets(c)
              \/ Unmoved /\ Held' \in {Held, None}
<1>1. ASSUME NEW h \in Writers, NEW e \in Entries,
             ApplyBegin(h, e) \/ ApplySucceeds(h, e) \/ ApplyFails(h, e)
      PROVE  RegistryInv' /\ (Accepts(e) \/ (Unmoved /\ Held' = Held))
  BY <1>1, BeginStep, SucceedStep, FailStep DEF Accepts
<1>2. ASSUME NEW h \in Writers, NEW c \in Configs, RemoveBegin(h, c) \/ RemoveEnds(h, c)
      PROVE  RegistryInv' /\ (Forgets(c) \/ (Unmoved /\ Held' = Held))
  BY <1>2, RemoveBeginStep, RemoveEndStep DEF Forgets
<1>3. OtherStep => RegistryInv' /\ Unmoved /\ Held' \in {Held, None}
  BY OtherSteps
<1> QED BY <1>1, <1>2, <1>3 DEF RuntimeNext, OtherStep

(* The invariant holds initially. *)
LEMMA InitRuntime == RuntimeInit => RuntimeInv
<1> SUFFICES ASSUME RuntimeInit PROVE RuntimeInv
  OBVIOUS
<1>1. TypeOK /\ Handlers \subseteq Callers
  BY InitTypeOK DEF RuntimeInit, Callers
<1>2. \A h \in Handlers, c \in Configs : ~Applying(h, c) /\ req[h] = None
  BY <1>1 DEF RuntimeInit, Init, Applying
<1>3. Held = None /\ \A c \in Configs : Standing(c) = None
  BY <1>2 DEF RuntimeInit, Init, Held, Standing
<1>4. RuntimeTypeOK
  BY <1>1 DEF RuntimeInit, RuntimeTypeOK
<1>5. RegistryInv
  BY <1>2, <1>3 DEF RuntimeInit, RegistryInv
<1>6. WritersConfigure
  BY <1>1 DEF RuntimeInit, Init, WritersConfigure
<1> QED BY <1>4, <1>5, <1>6 DEF RuntimeInv

(* Every step keeps it, when requests arrive one at a time. *)
LEMMA NextRuntime ==
    OneWriter /\ InductiveInv /\ InductiveInv' /\ RuntimeInv /\ [RuntimeNext]_allVars => RuntimeInv'
<1>1. OneWriter /\ InductiveInv /\ WritersConfigure => View
  BY WritersView
<1>2. (OneWriter /\ InductiveInv /\ WritersConfigure => View)'
  BY <1>1, PTL
<1> QED BY <1>1, <1>2, NextWriters, RuntimeTypes, RegistryStep
        DEF OneWriter, RuntimeInv, InductiveInv, Core

(* Types of the registry, requests of writers only, and the agreement of    *)
(* registry, session and events.                                            *)
THEOREM RuntimeInvariant == OneWriter /\ RuntimeSpec => []RuntimeInv
<1>1. OneWriter => OneWriter'
  BY DEF OneWriter
<1> QED BY <1>1, InitRuntime, NextRuntime, RuntimeIsService, ServiceInvariant, PTL DEF RuntimeSpec

(* Every variable of the runtime has its type.                              *)
THEOREM RuntimeTypeCorrect == OneWriter /\ RuntimeSpec => []RuntimeTypeOK
<1>1. RuntimeInv => RuntimeTypeOK
  BY DEF RuntimeInv
<1> QED BY <1>1, RuntimeInvariant, PTL

(* Without a configuration request in flight, what is registered counts.    *)
LEMMA SettledView ==
    ASSUME Settled, View
    PROVE  /\ \A c \in Configs : Standing(c) = registry[c]
           /\ \A h \in Handlers : ~FirstReading(h)
<1>1. \A h \in Handlers : ~ConfigRequestInFlight(h)
  BY DEF Settled, Callers
<1>2. \A h \in Handlers, c \in Configs : ~Applying(h, c)
  BY <1>1 DEF Applying, ConfigRequestInFlight
<1>3. \A h \in Handlers : ~FirstReading(h)
  BY <1>1, RequestsAssumption DEF View, WriterReads, ConfigRequestInFlight
<1> QED BY <1>2, <1>3 DEF View, StandingIsRegistered

(* Between configuration requests a session is held only for a registered   *)
(* configuration, with exactly its entry.                                   *)
THEOREM SessionRegistered == OneWriter /\ RuntimeSpec => []SessionIsRegistered
<1>1. InductiveInv /\ RuntimeInv /\ View => SessionIsRegistered
  <2> SUFFICES ASSUME InductiveInv, RuntimeInv, View, Settled, active # None
               PROVE  registry[active.entry.cfg] = active.entry
    BY DEF SessionIsRegistered
  <2>1. active.entry \in Entries /\ active.entry.cfg \in Configs /\ active.entry # None
    BY SessionFields, EntryFields, EntriesAssumption DEF InductiveInv, Core
  <2>2. Held = active.entry
    BY SettledView DEF Held
  <2> QED BY <2>1, <2>2, SettledView DEF RuntimeInv, RegistryInv
<1>2. OneWriter /\ InductiveInv /\ RuntimeInv => View
  BY WritersView DEF RuntimeInv
<1>3. OneWriter => OneWriter'
  BY DEF OneWriter
<1> QED BY <1>1, <1>2, <1>3, RuntimeInvariant, RuntimeIsService, ServiceInvariant, PTL

(* Between configuration requests the last event of a configuration says    *)
(* whether it is registered.                                                *)
THEOREM EventsMatch == OneWriter /\ RuntimeSpec => []EventsMatchRegistry
<1>1. RuntimeInv /\ View => EventsMatchRegistry
  BY SettledView DEF EventsMatchRegistry, RuntimeInv, RegistryInv
<1>2. OneWriter /\ InductiveInv /\ RuntimeInv => View
  BY WritersView DEF RuntimeInv
<1>3. OneWriter => OneWriter'
  BY DEF OneWriter
<1> QED BY <1>1, <1>2, <1>3, RuntimeInvariant, RuntimeIsService, ServiceInvariant, PTL

-----------------------------------------------------------------------------
(* The runtime implements ConfigContract *)

(* A step of the runtime accepts, removes, drops the session or does        *)
(* nothing, as the contract has it.                                         *)
LEMMA ContractStep ==
    ASSUME \/ \E e \in Entries : Accepts(e)
           \/ \E c \in Configs : Forgets(c)
           \/ Unmoved /\ Held' \in {Held, None}
    PROVE  [Contract!Next]_(Contract!vars)
<1> DEFINE standing == [c \in Configs |-> Standing(c)]
<1> HIDE DEF Held, Standing
<1>1. ASSUME NEW e \in Entries, Accepts(e)
      PROVE  Contract!Accept(e)
  <2>1. standing' = [standing EXCEPT ![e.cfg] = e]
    BY <1>1 DEF Accepts
  <2> QED BY <1>1, <2>1 DEF Accepts, Contract!Accept
<1>2. ASSUME NEW c \in Configs, Forgets(c)
      PROVE  Contract!Deconfigure(c)
  <2>1. standing' = [standing EXCEPT ![c] = None]
    BY <1>2 DEF Forgets
  <2> QED BY <1>2, <2>1 DEF Forgets, Contract!Deconfigure
<1>3. ASSUME Unmoved, Held' \in {Held, None}
      PROVE  Contract!Drop \/ UNCHANGED Contract!vars
  <2>1. standing' = standing
    BY <1>3 DEF Unmoved
  <2> QED BY <1>3, <2>1 DEF Contract!Drop, Contract!vars
<1> QED BY <1>1, <1>2, <1>3 DEF Contract!Next

(* Every configuration request is atomic: what the contract does in one     *)
(* step, the runtime does over several, with the polls and refreshes of     *)
(* others in between.                                                       *)
THEOREM ContractImplemented == OneWriter /\ RuntimeSpec => ImplementsContract
<1>1. RuntimeInit => Contract!Init
  <2> SUFFICES ASSUME RuntimeInit PROVE Contract!Init
    OBVIOUS
  <2>1. \A h \in Handlers, c \in Configs : ~Applying(h, c)
    BY DEF RuntimeInit, Init, Applying, Callers
  <2>2. Held = None /\ \A c \in Configs : Standing(c) = None
    BY <2>1 DEF RuntimeInit, Init, Held, Standing
  <2> QED BY <2>2 DEF Contract!Init
<1>2. OneWriter /\ InductiveInv /\ RuntimeInv => View
  BY WritersView DEF RuntimeInv
<1>3. OneWriter /\ InductiveInv /\ RuntimeInv /\ View /\ View' /\ [RuntimeNext]_allVars
        => [Contract!Next]_(Contract!vars)
  BY RegistryStep, ContractStep DEF RuntimeInv
<1>4. OneWriter => OneWriter'
  BY DEF OneWriter
<1> QED BY <1>1, <1>2, <1>3, <1>4, RuntimeInvariant, RuntimeIsService, ServiceInvariant, PTL
        DEF RuntimeSpec, ImplementsContract, Contract!Spec

-----------------------------------------------------------------------------
(* The routes *)

(* A step of the routes is one of the runtime.                              *)
LEMMA RoutesStep == [RoutesNext]_routeVars => [RuntimeNext]_allVars
<1> SUFFICES ASSUME [RoutesNext]_routeVars PROVE [RuntimeNext]_allVars
  OBVIOUS
<1>0. Writers \subseteq Handlers /\ Readers \subseteq Handlers
  BY WritersAssumption DEF Readers
<1>1. ASSUME NEW h \in Writers, ConfigRoute(h)
      PROVE  RuntimeNext
  BY <1>0, <1>1 DEF ConfigRoute, Configure, Deconfigure, RuntimeNext
<1>2. SyncWork => [RuntimeNext]_allVars
  BY <1>0 DEF SyncWork, SyncApplies, SyncRemoves, SyncEnd, RuntimeNext
<1>3. ASSUME NEW h \in Readers,
             \/ \E c \in Configs : Telemetry(h, c)
             \/ Command(h) \/ StateRefresh(h) \/ Answered(h)
      PROVE  RuntimeNext
  BY <1>0, <1>3 DEF Telemetry, Command, StateRefresh, Answered, Ask, RuntimeNext
<1>4. \A t \in Clients : PollOf(t) => RuntimeNext
  BY DEF PollOf, RuntimeNext
<1>5. CASE UNCHANGED routeVars
  BY <1>5 DEF routeVars
<1>6. \A s \in Snapshots : SyncBegin(s) => UNCHANGED allVars
  BY DEF SyncBegin
<1> QED BY <1>1, <1>2, <1>3, <1>4, <1>5, <1>6 DEF RoutesNext, RuntimeNext

(* What is proved of the runtime holds of the runtime behind the routes.    *)
THEOREM RoutesAreRuntime == RoutesSpec => RuntimeSpec
BY RoutesStep, PTL DEF RoutesSpec, RuntimeSpec, RoutesInit

-----------------------------------------------------------------------------
(* POST /config/sync *)

(* A reading route changes neither the session nor a configuration request. *)
LEMMA ReaderStep ==
    ASSUME TypeOK, RequestInv, NEW h \in Handlers, Refresh(h)
    PROVE  /\ UNCHANGED <<runtimeVars, active>> /\ Held' = Held /\ pc'[Lifespan] = pc[Lifespan]
           /\ \A g \in Handlers : req'[g] = req[g] \/ req'[g] = None \/ req'[g].op = "refresh"
<1>0. Handlers \subseteq Callers /\ h \in Callers /\ h # Lifespan /\ Lifespan \in Callers
  BY NotTheLifespan DEF Callers
<1>1. /\ req'[h] = None \/ req'[h] = [op |-> "refresh"]
      /\ ~FirstReading(h) /\ ~FirstReading(h)'
      /\ \A q \in Callers \ {h} : pc'[q] = pc[q] /\ req'[q] = req[q]
  BY <1>0, ConfigRequests, CallSuspends, CallAnswered, CallEnds
     DEF Refresh, RefreshDone, RefreshFailed, FirstReading
<1>2. UNCHANGED <<runtimeVars, active>>
  BY <1>0, ConfigRequests, CallSuspends DEF Refresh, RefreshRefused, RefreshDone, RefreshFailed, Answer
<1>3. Held' = Held
  BY <1>0, <1>1, <1>2 DEF Held, FirstReading
<1> QED BY <1>0, <1>1, <1>2, <1>3

(* Nor does a poll.                                                         *)
LEMMA PollKeeps ==
    ASSUME NEW t \in Clients, PollStep(t)
    PROVE  UNCHANGED <<pc, req, active>> /\ Held' = Held
<1>1. UNCHANGED <<pc, req, active>>
  BY DEF PollStep, PollStart, PollWait, PollLocked, PollDone, PollFailed, PollFails,
         PollCancelled, callVars
<1> QED BY <1>1 DEF Held, FirstReading

(* So the sync is where it was.                                              *)
LEMMA SyncUnchanged ==
    ASSUME SyncInv, sync' = sync, registry' = registry, Held' = Held,
           pc'[Lifespan] = pc[Lifespan],
           \A g \in Handlers : req'[g] = req[g] \/ req'[g] = None \/ req'[g].op = "refresh"
    PROVE  SyncInv'
<1>1. Registered' = Registered
  BY DEF Registered
<1> HIDE DEF Held, Registered
<1> QED BY <1>1 DEF SyncInv, Ids

(* A sync begins with everything to do and nothing in flight.               *)
LEMMA SyncBeginStep ==
    ASSUME WritersConfigure, RequestInv, NEW s \in Snapshots, SyncBegin(s)
    PROVE  SyncInv'
<1>1. /\ sync' = [want |-> s, apply |-> s, remove |-> Registered \ Ids(s), failed |-> FALSE]
      /\ UNCHANGED <<registry, pc, req>> /\ pc[Lifespan] = "idle" /\ s \subseteq Entries
  BY SnapshotsAssumption DEF SyncBegin, allVars, vars, runtimeVars
<1>2. \A h \in Handlers : req[h] = None \/ req[h].op = "refresh"
  BY DEF SyncBegin, Quiet, WritersConfigure, RequestInv, Callers
<1>3. Registered' = Registered /\ Registered \subseteq Configs
  BY <1>1 DEF Registered
<1> HIDE DEF Registered
<1> QED BY <1>1, <1>2, <1>3 DEF SyncInv, Ids

(* What is in flight is the one writer's.                                   *)
LEMMA OthersRefresh ==
    ASSUME OneWriter, WritersConfigure, NEW h \in Writers
    PROVE  \A g \in Handlers \ {h} : req[g] = None \/ req[g].op = "refresh"
BY DEF OneWriter, WritersConfigure

(* A configuration of the snapshot is begun, accepted or refused.           *)
LEMMA SyncApplyStep ==
    ASSUME OneWriter, InductiveInv, RuntimeInv, View, View', SyncInv,
           NEW h \in Writers, NEW e \in Entries, SyncApplies(h, e)
    PROVE  SyncInv'
<1>0. /\ TypeOK /\ RuntimeTypeOK /\ RegistryInv /\ WritersConfigure
      /\ h \in Handlers /\ h \in Callers /\ Handlers \subseteq Callers /\ h # Lifespan
      /\ Lifespan \in Callers /\ e.cfg \in Configs
  BY WritersAssumption, NotTheLifespan, EntryFields
     DEF InductiveInv, Core, RuntimeInv, Callers
<1>1. /\ sync # None /\ e \in sync.apply /\ e \in sync.want
      /\ sync \in [want : Snapshots, apply : SUBSET Entries, remove : SUBSET Configs,
                   failed : BOOLEAN]
      /\ \A d \in sync.want : d.cfg = e.cfg => d = e
  BY SnapshotsAssumption DEF SyncInv, SyncApplies
<1>2. \A g \in Handlers \ {h} : req[g] = None \/ req[g].op = "refresh"
  BY <1>0, OthersRefresh
<1>3. Configuring(e).op = "configure" /\ Configuring(e).entry = e /\ Configuring(e) \in Requests
  BY ConfigRequests DEF Configuring
<1>4. CASE ApplyBegin(h, e) /\ UNCHANGED sync
  <2>1. /\ req'[h] = Configuring(e) /\ pc'[Lifespan] = pc[Lifespan]
        /\ \A g \in Handlers \ {h} : req'[g] = req[g]
    BY <1>0, <1>3, <1>4, CallSuspends DEF ApplyBegin
  <2>2. Held' = Held
    BY <1>0, <1>4, BeginStep
  <2>3. Registered' \subseteq Registered \cup {e.cfg}
    BY <1>0, <1>4 DEF ApplyBegin, Begun, Registered, RuntimeTypeOK
  <2> HIDE DEF Held, Registered
  <2> QED BY <1>1, <1>2, <1>3, <1>4, <2>1, <2>2, <2>3 DEF SyncInv, Ids
<1>5. CASE ApplySucceeds(h, e) /\ sync' = [sync EXCEPT !.apply = @ \ {e}]
  <2>1. /\ req'[h] = None /\ pc'[Lifespan] = pc[Lifespan]
        /\ \A g \in Handlers \ {h} : req'[g] = req[g]
    BY <1>0, <1>3, <1>5, CallAnswered, CallEnds DEF ApplySucceeds
  <2>2. Held' = e /\ (Held = None \/ Held.cfg = e.cfg)
    BY <1>0, <1>5, SucceedStep
  <2>3. Registered' \subseteq Registered \cup {e.cfg}
    BY <1>0, <1>5 DEF ApplySucceeds, Begun, Registered, RuntimeTypeOK
  <2>4. /\ sync'.want = sync.want /\ sync'.apply = sync.apply \ {e} /\ sync'.remove = sync.remove
        /\ sync'.failed = sync.failed
        /\ sync' \in [want : Snapshots, apply : SUBSET Entries, remove : SUBSET Configs,
                      failed : BOOLEAN]
    BY <1>1, <1>5
  <2>5. ~sync.failed => \A d \in sync.want \ sync'.apply : Held' = d
    <3> SUFFICES ASSUME ~sync.failed, NEW d \in sync.want, d \notin sync.apply
                 PROVE  FALSE
      BY <1>1, <2>2, <2>4
    <3>1. Held = d /\ d # None
      BY <1>1, SnapshotsAssumption, EntriesAssumption DEF SyncInv
    <3> QED BY <1>1, <2>2, <3>1
  <2> HIDE DEF Held, Registered
  <2> QED BY <1>1, <1>2, <2>1, <2>3, <2>4, <2>5 DEF SyncInv, Ids
<1>6. CASE /\ ApplyFails(h, e)
           /\ \/ sync' = [sync EXCEPT !.apply = @ \ {e}, !.failed = TRUE]
              \/ sync' = [sync EXCEPT !.apply = {}, !.remove = {}, !.failed = TRUE]
  <2>1. /\ req'[h] = None /\ pc'[Lifespan] = pc[Lifespan]
        /\ \A g \in Handlers \ {h} : req'[g] = req[g]
    BY <1>0, <1>3, <1>6, CallAnswered, CallEnds DEF ApplyFails
  <2>2. /\ sync'.want = sync.want /\ sync'.apply \subseteq sync.apply
        /\ sync'.remove \subseteq sync.remove /\ sync'.failed
        /\ sync' \in [want : Snapshots, apply : SUBSET Entries, remove : SUBSET Configs,
                      failed : BOOLEAN]
    BY <1>1, <1>6
  <2> QED BY <1>1, <1>2, <2>1, <2>2 DEF SyncInv, Ids
<1> QED BY <1>4, <1>5, <1>6 DEF SyncApplies

(* A configuration that is not in the snapshot is removed.                  *)
LEMMA SyncRemoveStep ==
    ASSUME OneWriter, InductiveInv, RuntimeInv, View, View', SyncInv,
           NEW h \in Writers, NEW c \in Configs, SyncRemoves(h, c)
    PROVE  SyncInv'
<1>0. /\ TypeOK /\ RuntimeTypeOK /\ RegistryInv /\ WritersConfigure
      /\ h \in Handlers /\ h \in Callers /\ Handlers \subseteq Callers /\ h # Lifespan
      /\ Lifespan \in Callers
  BY WritersAssumption, NotTheLifespan DEF InductiveInv, Core, RuntimeInv, Callers
<1>1. /\ sync # None /\ c \in sync.remove /\ c \notin Ids(sync.want)
      /\ sync \in [want : Snapshots, apply : SUBSET Entries, remove : SUBSET Configs,
                   failed : BOOLEAN]
  BY DEF SyncInv, SyncRemoves
<1>2. \A g \in Handlers \ {h} : req[g] = None \/ req[g].op = "refresh"
  BY <1>0, OthersRefresh
<1>3. Removing(c).op = "remove" /\ Removing(c).cfg = c /\ Removing(c) \in Requests
  BY ConfigRequests DEF Removing
<1>4. CASE RemoveBegin(h, c) /\ UNCHANGED sync
  <2>1. /\ req'[h] = Removing(c) /\ pc'[Lifespan] = pc[Lifespan]
        /\ \A g \in Handlers \ {h} : req'[g] = req[g]
    BY <1>0, <1>3, <1>4, CallSuspends DEF RemoveBegin
  <2>2. Held' = Held
    BY <1>0, <1>4, RemoveBeginStep
  <2>3. Registered' = Registered
    BY <1>4 DEF RemoveBegin, Registered, runtimeVars
  <2> HIDE DEF Held, Registered
  <2> QED BY <1>1, <1>2, <1>3, <1>4, <2>1, <2>2, <2>3 DEF SyncInv, Ids
<1>5. CASE RemoveEnds(h, c) /\ sync' = [sync EXCEPT !.remove = @ \ {c}]
  <2>1. /\ req'[h] = None /\ pc'[Lifespan] = pc[Lifespan]
        /\ \A g \in Handlers \ {h} : req'[g] = req[g]
    BY <1>0, <1>3, <1>5, CallAnswered, CallEnds DEF RemoveEnds
  <2>2. Held' = IF Held # None /\ Held.cfg = c THEN None ELSE Held
    BY <1>0, <1>5, RemoveEndStep
  <2>3. Registered' \subseteq Registered \ {c}
    BY <1>0, <1>5 DEF RemoveEnds, Registered, RuntimeTypeOK
  <2>4. /\ sync'.want = sync.want /\ sync'.apply = sync.apply /\ sync'.remove = sync.remove \ {c}
        /\ sync'.failed = sync.failed
        /\ sync' \in [want : Snapshots, apply : SUBSET Entries, remove : SUBSET Configs,
                      failed : BOOLEAN]
    BY <1>1, <1>5
  <2>5. ~sync.failed => \A d \in sync.want \ sync.apply : Held' = d
    BY <1>1, <2>2 DEF SyncInv, Ids
  <2> HIDE DEF Held, Registered
  <2> QED BY <1>1, <1>2, <2>1, <2>3, <2>4, <2>5 DEF SyncInv, Ids
<1> QED BY <1>4, <1>5 DEF SyncRemoves

(* A request of the sync goes on: when one configuration of the snapshot    *)
(* has been accepted, no other can be replacing its session.                *)
LEMMA SyncContinueStep ==
    ASSUME OneWriter, InductiveInv, RuntimeInv, View, SyncInv,
           NEW h \in Writers, ConfigContinues(h), UNCHANGED sync
    PROVE  SyncInv'
<1>0. /\ TypeOK /\ CallInv /\ TaskInv /\ RequestInv /\ WritersConfigure
      /\ h \in Handlers /\ h \in Callers /\ Handlers \subseteq Callers /\ h # Lifespan
      /\ Lifespan \in Callers
  BY WritersAssumption, NotTheLifespan DEF InductiveInv, Core, RuntimeInv, Callers
<1>1. /\ req' = req /\ registry' = registry /\ pc'[Lifespan] = pc[Lifespan]
      /\ \A q \in Callers \ {h} : pc'[q] = pc[q]
  BY <1>0, CallGoesOn DEF ConfigContinues, runtimeVars
<1>2. Registered' = Registered
  BY <1>1 DEF Registered
<1>3. ASSUME sync # None, ~sync.failed, NEW e \in sync.want, e \notin sync.apply, Held = e
      PROVE  Held' = e
  <2>1. /\ e \in Entries /\ e # None /\ active # None /\ active.entry = e
        /\ \A g \in Handlers : ~FirstReading(g)
    BY <1>3, SnapshotsAssumption, EntriesAssumption DEF SyncInv, Held
  <2>2. ~AuthenticateOk(h) /\ ~AuthenticateFailed(h) /\ ~FirstReadFailed(h)
    BY <1>0, <2>1 DEF AuthenticateOk, AuthenticateFailed, FirstReadFailed, CallInv, Opening,
                      FirstReading
  <2>3. ~ConfigureReplace(h)
    <3> SUFFICES ASSUME ConfigureReplace(h) PROVE FALSE
      OBVIOUS
    <3>1. /\ req[h].op = "configure" /\ req[h] \in Requests /\ req[h] # None
          /\ ActiveConfigId = req[h].entry.cfg
      BY <1>0, RequestsAssumption DEF ConfigureReplace, CallInv, RequestInv
    <3>2. req[h].entry \in sync.apply /\ req[h].entry \in sync.want
      BY <1>0, <1>3, <3>1 DEF SyncInv
    <3>3. req[h].entry = e
      BY <1>3, <2>1, <3>1, <3>2, SnapshotsAssumption DEF SyncInv, ActiveConfigId
    <3> QED BY <1>3, <3>2, <3>3
  <2>4. StopPollEnded(h) /\ active' = active /\ pc'[h] = "closing"
    BY <1>0, <2>2, <2>3 DEF ConfigContinues, StopPollEnded, TypeOK
  <2> QED BY <1>0, <1>1, <2>1, <2>4 DEF Held, FirstReading
<1> HIDE DEF Held, Registered
<1> QED BY <1>1, <1>2, <1>3 DEF SyncInv, Ids

(* Every step of the routes keeps the invariant of the sync.                *)
LEMMA NextSync ==
    /\ OneWriter /\ InductiveInv /\ RuntimeInv /\ View /\ View' /\ SyncInv
    /\ [RoutesNext]_routeVars
    => SyncInv'
<1> SUFFICES ASSUME OneWriter, InductiveInv, RuntimeInv, View, View', SyncInv,
                    [RoutesNext]_routeVars
             PROVE  SyncInv'
  OBVIOUS
<1>0. /\ TypeOK /\ RequestInv /\ WritersConfigure
      /\ Writers \subseteq Handlers /\ Readers \subseteq Handlers
  BY WritersAssumption DEF InductiveInv, Core, RuntimeInv, Readers
<1>1. sync' = None => SyncInv'
  BY DEF SyncInv
<1>2. ASSUME NEW h \in Handlers, Refresh(h), UNCHANGED sync
      PROVE  SyncInv'
  BY <1>0, <1>2, ReaderStep, SyncUnchanged DEF runtimeVars
<1>3. ASSUME NEW h \in Readers,
             \/ \E c \in Configs : Telemetry(h, c)
             \/ Command(h) \/ StateRefresh(h) \/ Answered(h)
      PROVE  SyncInv'
  BY <1>0, <1>2, <1>3 DEF Telemetry, Command, StateRefresh, Answered, Ask
<1>4. ASSUME NEW t \in Clients, PollOf(t)
      PROVE  SyncInv'
  BY <1>4, PollKeeps, SyncUnchanged DEF PollOf, runtimeVars
<1>5. CASE UNCHANGED allVars /\ UNCHANGED sync
  <2>1. Held' = Held
    BY <1>5 DEF Held, FirstReading, allVars, vars
  <2> QED BY <1>5, <2>1, SyncUnchanged DEF allVars, vars, runtimeVars
<1>6. CASE SyncWork
  <2>1. (\E h \in Writers, e \in Entries : SyncApplies(h, e)) => SyncInv'
    BY SyncApplyStep
  <2>2. (\E h \in Writers, c \in Configs : SyncRemoves(h, c)) => SyncInv'
    BY SyncRemoveStep
  <2>3. (\E h \in Writers : sync # None /\ ConfigContinues(h) /\ UNCHANGED sync) => SyncInv'
    BY SyncContinueStep
  <2>4. SyncEnd => SyncInv'
    BY <1>1 DEF SyncEnd
  <2> QED BY <1>6, <2>1, <2>2, <2>3, <2>4 DEF SyncWork
<1>7. ASSUME NEW s \in Snapshots, SyncBegin(s)
      PROVE  SyncInv'
  BY <1>0, <1>7, SyncBeginStep
<1>8. CASE \/ \E h \in Writers : ConfigRoute(h)
           \/ sync = None /\ Shutdown /\ UNCHANGED <<sync, asked>>
  BY <1>1, <1>8 DEF ConfigRoute
<1>9. CASE Terminated /\ UNCHANGED <<runtimeVars, sync, asked>>
  BY <1>5, <1>9 DEF Terminated, allVars
<1> QED BY <1>3, <1>4, <1>5, <1>6, <1>7, <1>8, <1>9 DEF RoutesNext, routeVars

(* What is left of a sync, what is in flight for it, and what it has done.  *)
LEMMA SyncInvariant ==
    OneWriter /\ RoutesSpec => [](InductiveInv /\ RuntimeInv /\ View /\ SyncInv)
<1>1. RoutesInit => SyncInv
  BY DEF RoutesInit, SyncInv
<1>2. OneWriter /\ InductiveInv /\ RuntimeInv => View
  BY WritersView DEF RuntimeInv
<1>3. OneWriter => OneWriter'
  BY DEF OneWriter
<1> QED BY <1>1, <1>2, <1>3, NextSync, RoutesAreRuntime, RuntimeIsService, RuntimeInvariant,
           ServiceInvariant, PTL DEF RoutesSpec

(* When the sync is done, no configuration request is in flight.            *)
LEMMA DoneIsSettled ==
    ASSUME InductiveInv, RuntimeInv, SyncInv, SyncDone
    PROVE  Settled
<1>1. TypeOK /\ RequestInv /\ WritersConfigure /\ pc[Lifespan] = "idle" /\ Lifespan \in Callers
  BY DEF InductiveInv, Core, RuntimeInv, SyncInv, SyncDone, Callers
<1>2. \A h \in Handlers : req[h] = None \/ req[h].op = "refresh"
  BY <1>1 DEF SyncDone, Quiet, WritersConfigure, RequestInv, Callers
<1>3. req[Lifespan] = None
  BY <1>1 DEF RequestInv
<1> QED BY <1>2, <1>3 DEF Settled, ConfigRequestInFlight, Callers

(* A sync that reports no failure has made the registry that of the         *)
(* snapshot, and a snapshot of more than one configuration never passes.    *)
THEOREM SyncMakesRegistry == OneWriter /\ RoutesSpec => []SyncConverges
<1>1. InductiveInv /\ RuntimeInv /\ View /\ SyncInv => SyncConverges
  <2> SUFFICES ASSUME InductiveInv, RuntimeInv, View, SyncInv, SyncDone, ~sync.failed
               PROVE  /\ Registered = Ids(sync.want)
                      /\ \A e \in sync.want : registry[e.cfg] = e
                      /\ \A d, e \in sync.want : d = e
    BY DEF SyncConverges, SyncedOk
  <2>1. /\ sync.apply = {} /\ sync.remove = {} /\ sync.want \subseteq Entries
        /\ Registered \subseteq Ids(sync.want)
        /\ \A e \in sync.want : Held = e
    BY SnapshotsAssumption DEF SyncDone, SyncInv
  <2>2. \A e \in sync.want : e # None /\ e.cfg \in Configs /\ registry[e.cfg] = e
    BY <2>1, DoneIsSettled, SettledView, EntryFields, EntriesAssumption DEF RuntimeInv, RegistryInv
  <2>3. Ids(sync.want) \subseteq Registered
    BY <2>2 DEF Registered, Ids
  <2> QED BY <2>1, <2>2, <2>3
<1> QED BY <1>1, SyncInvariant, PTL

(* The session is then that of the snapshot, and nothing polls for any      *)
(* other configuration.                                                     *)
THEOREM SyncMakesSession == OneWriter /\ RoutesSpec => []SyncedSessionIsWanted
<1>1. InductiveInv /\ RuntimeInv /\ View /\ SyncInv => SyncedSessionIsWanted
  <2> SUFFICES ASSUME InductiveInv, RuntimeInv, View, SyncInv, SyncDone, ~sync.failed
               PROVE  IF sync.want = {} THEN active = None /\ LivePollers = {}
                      ELSE active # None /\ active.entry \in sync.want
    BY DEF SyncedSessionIsWanted, SyncedOk
  <2>1. /\ sync.apply = {} /\ sync.remove = {} /\ sync.want \subseteq Entries
        /\ Registered \subseteq Ids(sync.want)
        /\ \A e \in sync.want : Held = e
    BY SnapshotsAssumption DEF SyncDone, SyncInv
  <2>2. CASE sync.want = {}
    <3>1. \A c \in Configs : registry[c] = None
      BY <2>1, <2>2 DEF Ids, Registered
    <3>2. active = None
      <4> SUFFICES ASSUME active # None PROVE FALSE
        OBVIOUS
      <4>1. active.entry \in Entries /\ active.entry.cfg \in Configs /\ active.entry # None
        BY SessionFields, EntryFields, EntriesAssumption DEF InductiveInv, Core
      <4>2. Held = active.entry
        BY DoneIsSettled, SettledView DEF Held
      <4> QED BY <3>1, <4>1, <4>2, DoneIsSettled, SettledView DEF RuntimeInv, RegistryInv
    <3>3. LivePollers = {}
      BY <3>2, ProcessesAssumption DEF InductiveInv, TaskInv, LivePollers
    <3> QED BY <2>2, <3>2, <3>3
  <2>3. CASE sync.want # {}
    <3>1. PICK e \in sync.want : Held = e /\ e # None
      BY <2>1, <2>3, EntriesAssumption
    <3> QED BY <2>3, <3>1 DEF Held
  <2> QED BY <2>2, <2>3
<1> QED BY <1>1, SyncInvariant, PTL


-----------------------------------------------------------------------------
(* The routes that answer with a reading *)

(* A newcomer goes behind everyone who waits.                               *)
LEMMA AheadEnqueue ==
    ASSUME TypeOK, NEW x, NEW y, NEW z, Enqueue(z)
    PROVE  /\ Ahead(x, y) => Ahead(x, y)'
           /\ owner = x \/ x \in InLine => Ahead(x, z)'
<1>1. /\ waiters \in Seq(Processes) /\ waiters' = Append(waiters, z) /\ owner' = owner
      /\ Len(waiters) \in Nat
      /\ Len(waiters') = Len(waiters) + 1 /\ waiters'[Len(waiters) + 1] = z
      /\ \A i \in 1..Len(waiters) : waiters'[i] = waiters[i]
  BY DEF TypeOK, Enqueue
<1>2. InLine' = InLine \cup {z}
  BY EnqueueLine
<1>3. ASSUME NEW i \in 1..Len(waiters), NEW j \in 1..Len(waiters), i < j,
             waiters[i] = x, waiters[j] = y
      PROVE  Ahead(x, y)'
  BY <1>1, <1>3 DEF Ahead
<1>4. ASSUME NEW i \in 1..Len(waiters), waiters[i] = x
      PROVE  Ahead(x, z)'
  <2>1. i \in 1..Len(waiters') /\ Len(waiters) + 1 \in 1..Len(waiters') /\ i < Len(waiters) + 1
    BY <1>1
  <2> QED BY <1>1, <1>4, <2>1 DEF Ahead
<1> QED BY <1>1, <1>2, <1>3, <1>4 DEF Ahead, InLine

(* The release keeps the order of those who wait.                           *)
LEMMA AheadRelease ==
    ASSUME TypeOK, NEW x, NEW y, Release, owner # x, Ahead(x, y)
    PROVE  Ahead(x, y)'
<1>1. PICK i \in 1..Len(waiters), j \in 1..Len(waiters) : i < j /\ waiters[i] = x /\ waiters[j] = y
  BY DEF Ahead
<1>2. waiters \in Seq(Processes) /\ waiters # <<>>
  BY <1>1 DEF TypeOK
<1>3. owner' = Head(waiters) /\ waiters' = Tail(waiters)
  BY <1>2 DEF Release
<1>4. /\ owner' = waiters[1] /\ Len(waiters') = Len(waiters) - 1 /\ Len(waiters) \in Nat
      /\ \A k \in 1..Len(waiters') : waiters'[k] = waiters[k + 1]
  BY <1>2, <1>3
<1>5. j - 1 \in 1..Len(waiters') /\ waiters'[j - 1] = y
  <2>1. j - 1 \in 1..Len(waiters') /\ (j - 1) + 1 = j
    BY <1>1, <1>4
  <2> QED BY <1>1, <1>4, <2>1
<1>6. CASE i = 1
  BY <1>1, <1>4, <1>5, <1>6 DEF Ahead, InLine
<1>7. CASE i # 1
  <2>1. i - 1 \in 1..Len(waiters') /\ (i - 1) + 1 = i /\ i - 1 < j - 1
    BY <1>1, <1>4, <1>7
  <2> QED BY <1>1, <1>4, <1>5, <2>1 DEF Ahead
<1> QED BY <1>6, <1>7

(* So does the task that leaves the queue.                                  *)
LEMMA AheadRemove ==
    ASSUME TypeOK, NEW x, NEW y, NEW k \in 1..Len(waiters), waiters[k] \notin {x, y},
           waiters' = RemoveAt(waiters, k), owner' = owner, Ahead(x, y)
    PROVE  Ahead(x, y)'
<1>1. /\ waiters \in Seq(Processes) /\ Len(waiters') = Len(waiters) - 1 /\ Len(waiters) \in Nat
      /\ \A n \in 1..Len(waiters') : waiters'[n] = waiters[IF n < k THEN n ELSE n + 1]
  BY RemoveAtElements DEF TypeOK
<1>2. CASE owner = x /\ y \in InLine
  BY <1>2, RemoveLine DEF Ahead
<1>3. ASSUME NEW i \in 1..Len(waiters), i # k
      PROVE  \E n \in 1..Len(waiters') : /\ n = IF i < k THEN i ELSE i - 1
                                         /\ waiters'[n] = waiters[i]
  <2>1. CASE i < k
    <3>1. i \in 1..Len(waiters')
      BY <1>1, <2>1
    <3> QED BY <1>1, <2>1, <3>1
  <2>2. CASE ~(i < k)
    <3>1. i - 1 \in 1..Len(waiters') /\ ~(i - 1 < k) /\ (i - 1) + 1 = i
      BY <1>1, <1>3, <2>2
    <3> QED BY <1>1, <2>2, <3>1
  <2> QED BY <2>1, <2>2
<1>4. ASSUME NEW i \in 1..Len(waiters), NEW j \in 1..Len(waiters), i < j,
             waiters[i] = x, waiters[j] = y
      PROVE  Ahead(x, y)'
  <2>1. i # k /\ j # k
    BY <1>4
  <2>2. PICK m \in 1..Len(waiters') : m = (IF i < k THEN i ELSE i - 1) /\ waiters'[m] = x
    BY <1>3, <1>4, <2>1
  <2>3. PICK n \in 1..Len(waiters') : n = (IF j < k THEN j ELSE j - 1) /\ waiters'[n] = y
    BY <1>3, <1>4, <2>1
  <2>4. m < n
    BY <1>1, <1>4, <2>1, <2>2, <2>3
  <2> QED BY <2>2, <2>3, <2>4 DEF Ahead
<1> QED BY <1>2, <1>4 DEF Ahead

(* While a caller waits, those behind it stay behind it, and wait too.      *)
LEMMA AheadKept ==
    ASSUME InductiveInv, [Next]_vars, NEW x \in Callers, NEW y \in Callers, Ahead(x, y),
           pc[x] = "queued", pc'[x] = "queued", pc[y] = "queued"
    PROVE  Ahead(x, y)' /\ pc'[y] = "queued"
<1>0. TypeOK /\ LockInv /\ QueueInv
  BY DEF InductiveInv, Core
<1>1. /\ x \notin Clients /\ y \notin Clients
      /\ owner # None /\ owner # y /\ waiters \in Seq(Processes)
  <2>1. waiters \in Seq(Processes)
    BY <1>0 DEF TypeOK
  <2>2. owner # None
    BY <1>0, <2>1, DifferentProcesses DEF Ahead, QueueInv, Processes
  <2>3. owner # y
    BY <1>0 DEF Ahead, QueueInv, InLine
  <2> QED BY <2>1, <2>2, <2>3, DifferentProcesses
<1>2. owner' = owner /\ waiters' = waiters => Ahead(x, y)'
  BY DEF Ahead, InLine
<1>3. ASSUME owner # x, waiters' = waiters PROVE Ahead(x, y)'
  BY <1>3 DEF Ahead
<1>4. ASSUME NEW p \in Callers, (\E r \in Requests : Arrive(p, r)) \/ Enter(p) \/ Continue(p)
      PROVE  Ahead(x, y)' /\ pc'[y] = "queued"
  <2>1. CASE Enqueue(p) /\ pc[p] = "idle"
    <3>1. p # y
      BY <2>1
    <3> QED BY <1>0, <1>4, <2>1, <3>1, CallerMoves, AheadEnqueue
  <2>2. CASE /\ pc'[p] # "queued" /\ owner \in {p, None}
             /\ Release \/ (owner' = p /\ waiters' = waiters)
    <3>1. owner = p /\ p # x /\ p # y
      BY <1>1, <2>2
    <3> QED BY <1>0, <1>3, <1>4, <2>2, <3>1, CallerMoves, AheadRelease
  <2> QED BY <1>0, <1>4, <2>1, <2>2, CallerMoves
<1>5. ASSUME NEW t \in Clients, PollStep(t)
      PROVE  Ahead(x, y)' /\ pc'[y] = "queued"
  <2>1. pc' = pc
    BY <1>0, <1>5, PollMoves
  <2>2. CASE UNCHANGED <<owner, waiters>>
    BY <1>2, <2>1, <2>2
  <2>3. CASE Enqueue(t)
    BY <1>0, <2>1, <2>3, AheadEnqueue
  <2>4. CASE owner \in {t, None} /\ (Release \/ (owner' = t /\ waiters' = waiters))
    <3>1. owner # x
      BY <1>1, <2>4
    <3> QED BY <1>0, <1>3, <2>1, <2>4, <3>1, AheadRelease
  <2>5. ASSUME owner' = owner, NEW i \in 1..Len(waiters),
               waiters[i] = t, waiters' = RemoveAt(waiters, i)
        PROVE  Ahead(x, y)' /\ pc'[y] = "queued"
    BY <1>0, <1>1, <2>1, <2>5, AheadRemove
  <2> QED BY <1>0, <1>5, <2>2, <2>3, <2>4, <2>5, PollMoves
<1>6. CASE UNCHANGED vars
  BY <1>2, <1>6 DEF vars
<1> QED BY <1>4, <1>5, <1>6 DEF Next, Terminated


(* The configuration of the session is registered, also while a request of  *)
(* its own is in flight.                                                    *)
LEMMA HolderIsRegistered ==
    ASSUME InductiveInv, RuntimeInv, View, active # None
    PROVE  ActiveConfigId \in Registered
<1>0. TypeOK /\ CallInv /\ RequestInv /\ RegistryInv /\ Handlers \subseteq Callers
  BY DEF InductiveInv, Core, RuntimeInv, Callers
<1>1. /\ active.entry \in Entries /\ ActiveConfigId = active.entry.cfg /\ ActiveConfigId \in Configs
      /\ active.entry # None
  BY <1>0, SessionFields, EntryFields, EntriesAssumption DEF ActiveConfigId
<1>2. ASSUME NEW h \in Handlers, req[h] \in Requests, req[h].op = "configure",
             req[h].entry.cfg = ActiveConfigId
      PROVE  registry[ActiveConfigId] # None
  <2>1. Applying(h, ActiveConfigId) /\ req[h].entry \in Entries
    BY <1>2, RequestsAssumption, RequestFields DEF Applying
  <2> QED BY <1>0, <1>1, <2>1, EntriesAssumption DEF RegistryInv
<1>3. CASE \E h \in Handlers : FirstReading(h)
  <2>1. PICK h \in Handlers : FirstReading(h)
    BY <1>3
  <2>2. active.entry = req[h].entry /\ req[h] \in Requests /\ req[h].op = "configure"
    BY <1>0, <2>1 DEF FirstReading, RequestInv, CallInv
  <2>3. registry[ActiveConfigId] # None
    BY <1>1, <1>2, <2>2
  <2> QED BY <1>1, <2>3 DEF Registered
<1>4. CASE ~\E h \in Handlers : FirstReading(h)
  <2>1. Held = active.entry /\ Standing(ActiveConfigId) = active.entry
    BY <1>0, <1>1, <1>4 DEF Held, RegistryInv
  <2>2. CASE \E h \in Handlers : Applying(h, ActiveConfigId)
    <3>1. PICK h \in Handlers : Applying(h, ActiveConfigId)
      BY <2>2
    <3>2. pc[h] \notin {"idle", "down"}
      BY <1>0, <3>1 DEF Applying, RequestInv
    <3>3. req[h] \in Requests
      BY <1>0, <3>2 DEF CallInv
    <3>4. registry[ActiveConfigId] # None
      BY <1>2, <3>1, <3>3 DEF Applying
    <3> QED BY <1>1, <3>4 DEF Registered
  <2>3. CASE ~\E h \in Handlers : Applying(h, ActiveConfigId)
    BY <1>1, <2>1, <2>3 DEF View, StandingIsRegistered, Registered
  <2> QED BY <2>2, <2>3
<1> QED BY <1>3, <1>4

(* While the lock is taken, only a configuration that arrives, and waits,   *)
(* registers what was not registered.                                       *)
LEMMA RegisteredGrows ==
    ASSUME InductiveInv, RuntimeInv, owner # None, [RuntimeNext]_allVars
    PROVE  \/ Registered' \subseteq Registered
           \/ \E w \in Writers, e \in Entries :
                 Arrive(w, Configuring(e)) /\ Registered' = Registered \cup {e.cfg}
<1>0. /\ TypeOK /\ CallInv /\ RequestInv /\ RegistryInv /\ RuntimeTypeOK
      /\ Writers \subseteq Handlers /\ Handlers \subseteq Callers
  BY WritersAssumption DEF InductiveInv, Core, RuntimeInv, Callers
<1>1. ASSUME NEW w \in Writers, NEW e \in Entries, ApplyBegin(w, e)
      PROVE  \/ Registered' \subseteq Registered
             \/ Arrive(w, Configuring(e)) /\ Registered' = Registered \cup {e.cfg}
  <2>1. CASE pc[w] = "idle"
    <3>1. Arrive(w, Configuring(e))
      BY <1>1, <2>1 DEF ApplyBegin, ConfigureStop, ConfigureFirst, Entering
    <3>2. registry' = [registry EXCEPT ![e.cfg] = e]
      BY <1>1, <2>1 DEF ApplyBegin, Begun
    <3>3. e # None /\ e.cfg \in Configs
      BY EntryFields, EntriesAssumption
    <3> QED BY <1>0, <3>1, <3>2, <3>3 DEF Registered, RuntimeTypeOK
  <2>2. CASE pc[w] # "idle"
    BY <1>1, <2>2 DEF ApplyBegin, Begun, Registered
  <2> QED BY <2>1, <2>2
<1>2. ASSUME NEW w \in Writers, NEW e \in Entries, ApplySucceeds(w, e)
      PROVE  Registered' \subseteq Registered
  <2>1. pc[w] # "idle"
    BY <1>2 DEF ApplySucceeds, ConfigureReused, Reuse, ConfigureDone, Entering
  <2> QED BY <1>2, <2>1 DEF ApplySucceeds, Begun, Registered
<1>3. ASSUME NEW w \in Writers, NEW e \in Entries, ApplyFails(w, e)
      PROVE  Registered' \subseteq Registered
  <2>1. pc[w] # "idle" /\ req[w] = Configuring(e)
    BY <1>3 DEF ApplyFails, ConfigureRejected, ConfigureDiscarded, ConfigureUnwound, Entering
  <2>2. Applying(w, e.cfg)
    BY <2>1, ConfigRequests, RequestsAssumption DEF Applying, Configuring
  <2>3. registry[e.cfg] = req[w].entry /\ req[w].entry = e /\ e # None /\ e.cfg \in Configs
    BY <1>0, <2>1, <2>2, EntryFields, EntriesAssumption DEF RegistryInv, Configuring
  <2>4. registry' = [registry EXCEPT ![e.cfg] = previous[w]]
    BY <1>3, <2>1 DEF ApplyFails, Rollback, Prior
  <2> QED BY <1>0, <2>3, <2>4 DEF Registered, RuntimeTypeOK
<1>4. ASSUME NEW w \in Writers, NEW c \in Configs, RemoveBegin(w, c) \/ RemoveEnds(w, c)
      PROVE  Registered' \subseteq Registered
  BY <1>0, <1>4 DEF RemoveBegin, RemoveEnds, runtimeVars, Registered, RuntimeTypeOK
<1>5. UNCHANGED runtimeVars => Registered' \subseteq Registered
  BY DEF runtimeVars, Registered
<1> QED BY <1>1, <1>2, <1>3, <1>4, <1>5
        DEF RuntimeNext, Refresh, ConfigContinues, Shutdown, Terminated, allVars

(* No session begins while the configuration requests wait.                 *)
LEMMA NobodyOpens ==
    ASSUME InductiveInv, WritersConfigure, active = None, [Next]_vars,
           \A w \in Writers : pc[w] = "queued"
    PROVE  active' = None
<1>0. TypeOK /\ CallInv /\ RequestInv /\ Lifespan \in Callers
  BY DEF InductiveInv, Core, Callers
<1>1. ASSUME NEW p \in Callers, AuthenticateOk(p)
      PROVE  FALSE
  <2>1. pc[p] = "authenticating" /\ req[p] \in Requests /\ req[p].op = "configure"
    BY <1>0, <1>1 DEF AuthenticateOk, CallInv, Opening
  <2>2. p \in Handlers
    BY <1>0, <2>1 DEF RequestInv, Callers
  <2> QED BY <2>1, <2>2, RequestsAssumption DEF WritersConfigure
<1>2. ASSUME NEW p \in Callers, (\E r \in Requests : Arrive(p, r)) \/ Enter(p)
      PROVE  active' = None
  BY <1>2 DEF Arrive, Enter, ConfigureRejected, ConfigureReused, ConfigureStop, ConfigureFirst,
         RefreshRefused, RefreshBegin, RemoveMissed, RemoveStop, CloseIdle, CloseStop, BeginStop,
         Answer, SameConfig
<1>3. ASSUME NEW p \in Callers, Continue(p)
      PROVE  active' = None
  BY <1>1, <1>3 DEF Continue, StopPollEnded, ConfigureReplace, AuthenticateFailed,
         ConfigureDiscarded, ConfigureDone, FirstReadFailed, ConfigureUnwound, RefreshDone,
         RefreshFailed, Stopped, Answer, DropSession
<1>4. ASSUME NEW t \in Clients, PollStep(t)
      PROVE  active' = None
  BY <1>4, PollKeeps
<1> QED BY <1>2, <1>3, <1>4 DEF Next, Terminated, vars


(* A route that waits for a configuration goes on doing so: while it is in  *)
(* line, nobody registers another without waiting behind it.                *)
LEMMA ServedKept ==
    ASSUME OneWriter, InductiveInv, RuntimeInv, View, [RuntimeNext]_allVars,
           \A c, d \in Registered' : c = d,
           NEW h \in Handlers, pc[h] = "queued", pc'[h] = "queued", NEW c \in Configs, ServedFor(h, c)
    PROVE  ServedFor(h, c)'
<1>0. /\ TypeOK /\ QueueInv /\ LineInv /\ WritersConfigure /\ [Next]_vars
      /\ h \in Callers /\ Writers \subseteq Callers
  BY WritersAssumption, RuntimeStep DEF InductiveInv, Core, RuntimeInv, Callers
<1>1. CASE active = None /\ \A w \in Writers : pc[w] = "queued" /\ Ahead(h, w)
  <2>1. active' = None
    BY <1>0, <1>1, NobodyOpens
  <2>2. \A w \in Writers : pc'[w] = "queued" /\ Ahead(h, w)'
    BY <1>0, <1>1, AheadKept
  <2> QED BY <2>1, <2>2 DEF ServedFor
<1>2. CASE Registered \subseteq {c}
  <2>1. owner # None /\ (owner = h \/ h \in InLine)
    BY <1>0, DifferentProcesses, NotTheLifespan DEF LineInv, QueueInv, InLine
  <2>2. CASE Registered' \subseteq {c}
    BY <2>2 DEF ServedFor
  <2>3. CASE ~(Registered' \subseteq {c})
    <3>1. PICK w \in Writers, e \in Entries :
             Arrive(w, Configuring(e)) /\ Registered' = Registered \cup {e.cfg}
      BY <1>2, <2>1, <2>3, RegisteredGrows
    <3>2. Registered = {}
      BY <1>2, <2>3, <3>1
    <3>3. active = None
      BY <3>2, HolderIsRegistered
    <3>4. active' = active /\ pc'[w] = "queued" /\ Enqueue(w)
      BY <1>0, <3>1 DEF Arrive, TypeOK
    <3>5. Ahead(h, w)'
      BY <1>0, <2>1, <3>4, AheadEnqueue
    <3>6. \A v \in Writers : pc'[v] = "queued" /\ Ahead(h, v)'
      BY <3>4, <3>5 DEF OneWriter
    <3> QED BY <3>3, <3>4, <3>6 DEF ServedFor
  <2> QED BY <2>2, <2>3
<1> QED BY <1>1, <1>2 DEF ServedFor

(* A reading that has begun is of the same session until it ends.           *)
LEMMA ReadingKept ==
    ASSUME InductiveInv, InductiveInv', [Next]_vars,
           NEW h \in Handlers, pc[h] = "reading", pc'[h] = "reading"
    PROVE  ActiveConfigId' = ActiveConfigId
<1>1. Core /\ active # None /\ active' # None
  BY DEF InductiveInv, Core, CallInv, CallerReading, Callers
<1>2. CASE UNCHANGED vars
  BY <1>2 DEF vars, ActiveConfigId
<1>3. CASE Next
  BY <1>1, <1>3, SessionSteps DEF ActiveConfigId
<1> QED BY <1>2, <1>3

(* What AskedInv says of one route.                                         *)
AskedFor(h) ==
    asked[h] # None =>
       /\ pc[h] = "reading" => asked[h] = ActiveConfigId
       /\ pc[h] = "queued" => ServedFor(h, asked[h])

(* The steps of the others leave it so.                                     *)
LEMMA AskedKept ==
    ASSUME OneWriter, InductiveInv, InductiveInv', RuntimeInv, View, [RuntimeNext]_allVars,
           asked \in [Readers -> Configs \cup {None}], \A c, d \in Registered' : c = d,
           NEW h \in Readers, pc'[h] = pc[h], asked'[h] = asked[h], AskedFor(h)
    PROVE  AskedFor(h)'
<1>0. h \in Handlers /\ [Next]_vars
  BY RuntimeStep DEF Readers
<1> SUFFICES ASSUME asked[h] # None, pc[h] \in {"reading", "queued"}
             PROVE  /\ pc[h] = "reading" => asked[h] = ActiveConfigId'
                    /\ pc[h] = "queued" => ServedFor(h, asked[h])'
  BY DEF AskedFor
<1>1. CASE pc[h] = "reading"
  BY <1>0, <1>1, ReadingKept DEF AskedFor
<1>2. CASE pc[h] = "queued"
  <2>1. PICK c \in Configs : c = asked[h]
    OBVIOUS
  <2>2. ServedFor(h, c)
    BY <1>2, <2>1 DEF AskedFor
  <2>3. ServedFor(h, c)'
    BY <1>0, <1>2, <2>2, ServedKept
  <2> QED BY <1>2, <2>1, <2>3
<1> QED BY <1>1, <1>2

(* A reading route is asked for the configuration of the session, or for    *)
(* the only one that is registered.                                         *)
LEMMA AskStep ==
    ASSUME InductiveInv, RuntimeInv, View, asked \in [Readers -> Configs \cup {None}],
           \A c, d \in Registered : c = d,
           NEW h \in Readers, NEW c \in Configs, c \in Registered, Ask(h, c)
    PROVE  AskedFor(h)'
<1>0. TypeOK /\ h \in Handlers /\ h \in Callers
  BY DEF InductiveInv, Core, Readers, Callers
<1>1. /\ pc[h] = "idle" /\ asked'[h] = (IF pc'[h] = "idle" THEN None ELSE c)
      /\ registry' = registry
  BY DEF Ask, Refresh, runtimeVars
<1>2. Registered \subseteq {c} /\ Registered' = Registered
  BY <1>1 DEF Registered
<1>3. CASE pc'[h] = "reading"
  <2>1. active # None /\ active' = active
    BY <1>0, <1>1, <1>3, ConfigRequests, CallAnswered
       DEF Ask, Refresh, RefreshBegin, RefreshDone, RefreshFailed, Arrive, TypeOK
  <2>2. ActiveConfigId \in Registered /\ ActiveConfigId' = ActiveConfigId
    BY <2>1, HolderIsRegistered DEF ActiveConfigId
  <2> QED BY <1>1, <1>2, <1>3, <2>2 DEF AskedFor
<1>4. CASE pc'[h] # "reading"
  <2>1. asked'[h] # None => asked'[h] = c
    BY <1>1
  <2>2. ServedFor(h, c)'
    BY <1>2 DEF ServedFor
  <2> QED BY <1>4, <2>1, <2>2 DEF AskedFor
<1> QED BY <1>3, <1>4

(* When its turn comes, the session it finds, if any, is the one.           *)
LEMMA AnsweredStep ==
    ASSUME InductiveInv, RuntimeInv, View, asked \in [Readers -> Configs \cup {None}],
           NEW h \in Readers, Answered(h), AskedFor(h)
    PROVE  AskedFor(h)'
<1>0. TypeOK /\ h \in Handlers /\ h \in Callers
  BY DEF InductiveInv, Core, Readers, Callers
<1>1. pc[h] # "idle" /\ asked'[h] = (IF pc'[h] = "idle" THEN None ELSE asked[h])
  BY DEF Answered
<1>2. h # Lifespan /\ [op |-> "refresh"] \in Requests
  BY <1>0, NotTheLifespan, ConfigRequests
<1>3. CASE RefreshBegin(h, [op |-> "refresh"])
  <2>1. pc[h] = "queued" /\ active # None /\ active' = active
    BY <1>1, <1>3 DEF RefreshBegin, Entering
  <2>2. pc'[h] = "reading"
    BY <1>0, <1>3, SuspendPoints DEF RefreshBegin
  <2>3. ActiveConfigId \in Registered /\ ActiveConfigId' = ActiveConfigId
    BY <2>1, HolderIsRegistered DEF ActiveConfigId
  <2>4. asked[h] # None => Registered \subseteq {asked[h]}
    BY <2>1 DEF AskedFor, ServedFor
  <2> QED BY <1>1, <2>2, <2>3, <2>4 DEF AskedFor
<1>4. CASE \/ RefreshRefused(h, [op |-> "refresh"]) \/ RefreshDone(h) \/ RefreshFailed(h)
  <2>1. Return(h)
    BY <1>4 DEF RefreshRefused, RefreshDone, RefreshFailed, Answer
  <2>2. pc'[h] = "idle"
    BY <1>0, <1>2, <2>1, ReturnPoints
  <2> QED BY <1>1, <2>2 DEF AskedFor
<1>5. ~Arrive(h, [op |-> "refresh"])
  BY <1>1 DEF Arrive
<1> QED BY <1>3, <1>4, <1>5 DEF Answered, Refresh


(* A step of a configuration request, of the lifespan or of a poll task     *)
(* leaves the reading routes where they are.                                *)
LEMMA OthersStay ==
    ASSUME InductiveInv, NEW h \in Readers,
           \/ \E w \in Writers : Configure(w) \/ Deconfigure(w) \/ ConfigContinues(w)
           \/ \E t \in Clients : PollStep(t)
           \/ Shutdown
    PROVE  pc'[h] = pc[h]
<1>0. /\ TypeOK /\ h \in Callers /\ h \notin Writers /\ h # Lifespan
      /\ Writers \subseteq Callers /\ Lifespan \in Callers
  BY WritersAssumption, NotTheLifespan DEF InductiveInv, Core, Readers, Callers
<1>1. ASSUME NEW w \in Writers, NEW e \in Entries,
             ApplyBegin(w, e) \/ ApplySucceeds(w, e) \/ ApplyFails(w, e)
      PROVE  pc'[h] = pc[h]
  BY <1>0, <1>1, ConfigRequests, CallSuspends, CallAnswered, CallEnds
     DEF ApplyBegin, ApplySucceeds, ApplyFails
<1>2. ASSUME NEW w \in Writers, NEW c \in Configs, RemoveBegin(w, c) \/ RemoveEnds(w, c)
      PROVE  pc'[h] = pc[h]
  BY <1>0, <1>2, ConfigRequests, CallSuspends, CallAnswered, CallEnds DEF RemoveBegin, RemoveEnds
<1>3. ASSUME NEW w \in Writers, ConfigContinues(w)
      PROVE  pc'[h] = pc[h]
  BY <1>0, <1>3, CallGoesOn DEF ConfigContinues
<1>4. ASSUME Shutdown
      PROVE  pc'[h] = pc[h]
  BY <1>0, <1>4, ConfigRequests, CallSuspends, CallAnswered, CallEnds, CallGoesOn DEF Shutdown
<1> QED BY <1>1, <1>2, <1>3, <1>4, PollKeeps DEF Configure, Deconfigure

(* A step of one reading route leaves the others.                           *)
LEMMA ReadersStay ==
    ASSUME InductiveInv, NEW g \in Readers, NEW h \in Readers \ {g}, Refresh(g)
    PROVE  pc'[h] = pc[h]
<1>1. TypeOK /\ g \in Callers /\ h \in Callers
  BY DEF InductiveInv, Core, Readers, Callers
<1> QED BY <1>1, ConfigRequests, CallSuspends, CallAnswered, CallEnds DEF Refresh

(* Every step keeps what the reading routes are asked for.                  *)
LEMMA NextAsked ==
    /\ OneWriter /\ InductiveInv /\ InductiveInv' /\ RuntimeInv /\ View /\ AskedInv
    /\ [RoutesNext]_routeVars
    => AskedInv'
<1> SUFFICES ASSUME OneWriter, InductiveInv, InductiveInv', RuntimeInv, View, AskedInv,
                    [RoutesNext]_routeVars
             PROVE  AskedInv'
  OBVIOUS
<1>0. [RuntimeNext]_allVars /\ asked \in [Readers -> Configs \cup {None}] /\ kept \in BOOLEAN
  BY RoutesStep DEF AskedInv
<1>1. CASE UNCHANGED routeVars
  <2>1. UNCHANGED <<asked, kept, pc, active, registry, owner, waiters>>
    BY <1>1 DEF routeVars, allVars, vars, runtimeVars
  <2> QED BY <2>1 DEF AskedInv, Registered, ServedFor, Ahead, InLine, ActiveConfigId
<1>2. ASSUME RoutesNext
      PROVE  AskedInv'
  <2>1. kept' \in BOOLEAN /\ (kept' => kept /\ \A c, d \in Registered' : c = d)
    BY <1>2 DEF RoutesNext, Counted
  <2>2. ASSUME NEW h \in Readers
        PROVE  \/ \E c \in Configs : Telemetry(h, c)
               \/ Command(h) \/ StateRefresh(h) \/ Answered(h)
               \/ pc'[h] = pc[h] /\ asked' [h] = asked[h]
    <3>1. CASE UNCHANGED asked /\ (UNCHANGED allVars \/ UNCHANGED vars)
      BY <3>1 DEF allVars, vars
    <3>2. CASE /\ UNCHANGED asked
               /\ \/ \E w \in Writers : Configure(w) \/ Deconfigure(w) \/ ConfigContinues(w)
                  \/ \E t \in Clients : PollStep(t)
                  \/ Shutdown
      BY <3>2, OthersStay
    <3>3. ASSUME NEW g \in Readers,
                 \/ \E c \in Configs : Telemetry(g, c)
                 \/ Command(g) \/ StateRefresh(g) \/ Answered(g),
                 g # h
          PROVE  pc'[h] = pc[h] /\ asked'[h] = asked[h]
      BY <1>0, <3>3, ReadersStay DEF Telemetry, Command, StateRefresh, Answered, Ask
    <3>4. SyncWork => /\ UNCHANGED asked
                      /\ \/ UNCHANGED allVars
                         \/ \E w \in Writers : Configure(w) \/ Deconfigure(w) \/ ConfigContinues(w)
      BY DEF SyncWork, SyncApplies, SyncRemoves, SyncEnd, Configure, Deconfigure
    <3>5. \A s \in Snapshots : SyncBegin(s) => UNCHANGED <<allVars, asked>>
      BY DEF SyncBegin
    <3> QED BY <1>2, <3>1, <3>2, <3>3, <3>4, <3>5
            DEF RoutesNext, ConfigRoute, PollOf, Terminated
  <2>3. asked' \in [Readers -> Configs \cup {None}]
    <3>1. ASSUME NEW h \in Readers, NEW c \in Configs \cup {None}, Ask(h, c)
          PROVE  asked' \in [Readers -> Configs \cup {None}]
      BY <1>0, <3>1 DEF Ask
    <3>2. active # None => ActiveConfigId \in Configs
      BY SessionFields, EntryFields DEF InductiveInv, Core, ActiveConfigId
    <3> QED BY <1>0, <1>2, <3>1, <3>2
            DEF RoutesNext, ConfigRoute, SyncBegin, SyncWork, Telemetry, Command, StateRefresh,
                Answered, PollOf
  <2>4. ASSUME kept', NEW h \in Readers
        PROVE  AskedFor(h)'
    <3>1. AskedFor(h) /\ (\A c, d \in Registered : c = d) /\ (\A c, d \in Registered' : c = d)
      BY <2>1, <2>4 DEF AskedInv, AskedFor
    <3>2. ASSUME NEW c \in Configs, Telemetry(h, c)
          PROVE  AskedFor(h)'
      BY <1>0, <3>1, <3>2, AskStep DEF Telemetry, Registered
    <3>3. CASE StateRefresh(h)
      BY <1>0, <3>1, <3>3, HolderIsRegistered, AskStep DEF StateRefresh, Registered
    <3>4. CASE Command(h)
      BY <1>0, <3>4 DEF Command, Ask, AskedFor
    <3>5. CASE Answered(h)
      BY <1>0, <3>1, <3>5, AnsweredStep
    <3>6. CASE pc'[h] = pc[h] /\ asked' [h] = asked[h]
      BY <1>0, <3>1, <3>6, AskedKept
    <3> QED BY <2>2, <3>2, <3>3, <3>4, <3>5, <3>6
  <2> QED BY <2>1, <2>3, <2>4 DEF AskedInv, AskedFor
<1> QED BY <1>1, <1>2

(* What each reading route in flight was asked for, with the configurations *)
(* that wait before and behind it.                                          *)
LEMMA AskedInvariant == OneWriter /\ RoutesSpec => []AskedInv
<1>1. RoutesInit => AskedInv
  <2> SUFFICES ASSUME RoutesInit PROVE AskedInv
    OBVIOUS
  <2>1. Registered = {} /\ kept \in BOOLEAN /\ asked = [h \in Readers |-> None]
    BY DEF RoutesInit, RuntimeInit, Registered
  <2> QED BY <2>1 DEF AskedInv
<1>2. OneWriter /\ InductiveInv /\ RuntimeInv => View
  BY WritersView DEF RuntimeInv
<1>3. OneWriter => OneWriter'
  BY DEF OneWriter
<1> QED BY <1>1, <1>2, <1>3, NextAsked, RoutesAreRuntime, RuntimeIsService, RuntimeInvariant,
           ServiceInvariant, PTL DEF RoutesSpec

(* While Core keeps to one configuration, a route that was asked for one    *)
(* answers with the reading of that one, or is refused.                     *)
THEOREM AnswersMatch == OneWriter /\ RoutesSpec => []AnswersAreTheirs
<1>1. AskedInv => AnswersAreTheirs
  BY DEF AskedInv, AnswersAreTheirs
<1> QED BY <1>1, AskedInvariant, PTL
=============================================================================
