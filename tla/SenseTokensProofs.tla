------------------------- MODULE SenseTokensProofs -------------------------
(***************************************************************************)
(* Theorems about SenseTokens: the loss of the tokens of a client whose    *)
(* trends are overdue, once reported, is reported until the client is      *)
(* given up.                                                               *)
(***************************************************************************)
EXTENDS SenseTokens, SensePollerProofs

(* Revoking tokens only restricts what the service does.                    *)
LEMMA ServiceSteps == ServiceStep => Next
<1>1. Succeeds => Next
  BY DEF Succeeds, Next, Continue, PollStep
<1>2. ASSUME NEW p \in Callers,
             \/ StopPollEnded(p) \/ ConfigureReplace(p) \/ Stopped(p)
             \/ AuthenticateOk(p) \/ AuthenticateFailed(p) \/ ConfigureDiscarded(p)
             \/ FirstReadFailed(p) \/ ConfigureUnwound(p) \/ RefreshFailed(p)
      PROVE  Next
  BY <1>2 DEF Next, Continue
<1>3. ASSUME NEW t \in Clients,
             PollStart(t) \/ PollWait(t) \/ PollLocked(t) \/ PollFailed(t) \/ PollCancelled(t)
      PROVE  Next
  BY <1>3 DEF Next, PollStep
<1>4. OtherSteps => Next
  BY <1>2, <1>3 DEF OtherSteps, Next
<1> QED BY <1>1, <1>4 DEF ServiceStep

(* What is revoked while the service runs leaves the service alone.         *)
LEMMA TokenStep == [TokenNext]_tokenVars => [Next]_vars
BY ServiceSteps DEF TokenNext, Revoke, Overdue, tokenVars

(* So what is proved of the service holds of it, whatever Sense revokes.    *)
LEMMA TokensCore == TokenSpec => []Core
<1>1. TokenSpec => SafetySpec
  BY TokenStep, PTL DEF TokenSpec, TokenInit, SafetySpec
<1> QED BY <1>1, CoreInvariant, PTL

-----------------------------------------------------------------------------
(* What the loss of tokens leaves of a session *)

(* A step by which a session survives publishes nothing of it, unless a     *)
(* read of it succeeds or a poll of it fails.                               *)
LEMMA Unreported ==
    ASSUME Core, OtherSteps, active # None
    PROVE  published' = published \/ published' = [published EXCEPT ![ActiveConfigId] = "disconnected"]
<1>1. ASSUME NEW p \in Callers, (\E r \in Requests : Arrive(p, r)) \/ Enter(p)
      PROVE  published' = published
  BY <1>1 DEF Arrive, Enter, ConfigureRejected, ConfigureReused, ConfigureStop, ConfigureFirst,
     RefreshRefused, RefreshBegin, RemoveMissed, RemoveStop, CloseIdle, CloseStop, BeginStop,
     Answer, Reuse, outVars
<1>2. ASSUME NEW p \in Callers,
             \/ StopPollEnded(p) \/ ConfigureReplace(p) \/ Stopped(p)
             \/ AuthenticateOk(p) \/ AuthenticateFailed(p) \/ ConfigureDiscarded(p)
             \/ FirstReadFailed(p) \/ ConfigureUnwound(p) \/ RefreshFailed(p)
      PROVE  published' = published
  BY <1>2 DEF StopPollEnded, ConfigureReplace, Stopped, AuthenticateOk, AuthenticateFailed,
     ConfigureDiscarded, FirstReadFailed, ConfigureUnwound, RefreshFailed, Answer, outVars
<1>3. ASSUME NEW t \in Clients, PollStart(t) \/ PollWait(t) \/ PollLocked(t) \/ PollCancelled(t)
      PROVE  published' = published
  BY <1>3 DEF PollStart, PollWait, PollLocked, PollCancelled, outVars
<1>4. ASSUME NEW t \in Clients, PollFailed(t)
      PROVE  published' = [published EXCEPT ![ActiveConfigId] = "disconnected"]
  BY <1>4 DEF PollFailed, PollFails, Core, SessionInv, ReportInv
<1> QED BY <1>1, <1>2, <1>3, <1>4 DEF OtherSteps, Terminated, vars

(* A session that ends has its client closed, in the same step.             *)
LEMMA EndedIsClosed ==
    ASSUME Core, Next, active # None, active' = None
    PROVE  client'[active.client] = None
<1>1. active.client \in Clients /\ client \in [Clients -> Keys \cup {None}]
  BY SessionFields DEF Core, TypeOK
<1>2. ASSUME NEW p \in Callers, NEW r \in Requests, ConfigureReused(p, r)
      PROVE  active' # None
  <2>1. active' = [active EXCEPT !.entry = r.entry] /\ r.entry \in Entries
    BY <1>2, RequestFields DEF ConfigureReused, Reuse
  <2>2. active' \in [client : Clients, entry : Entries]
    BY <2>1, SessionFields DEF Core
  <2> QED BY <2>2, EntriesAssumption
<1>3. ASSUME NEW p \in Callers, (\E r \in Requests : Arrive(p, r)) \/ Enter(p)
      PROVE  active' # None
  BY <1>2, <1>3 DEF Arrive, Enter, ConfigureRejected, ConfigureStop, ConfigureFirst,
     RefreshRefused, RefreshBegin, RemoveMissed, RemoveStop, CloseIdle, CloseStop, BeginStop, Answer
<1>4. ASSUME NEW p \in Callers, ConfigureReplace(p)
      PROVE  client'[active.client] = None
  <2>1. PICK c \in Clients : /\ c # active.client
                            /\ client' = [AfterClose EXCEPT ![c] = req[p].entry.key]
    BY <1>4 DEF ConfigureReplace, Authenticate, Unused
  <2> QED BY <1>1, <2>1 DEF AfterClose
<1>5. ASSUME NEW p \in Callers, AuthenticateOk(p)
      PROVE  FALSE
  BY <1>5 DEF AuthenticateOk, Core, CallInv, Opening
<1>6. ASSUME NEW p \in Callers, Stopped(p) \/ ConfigureUnwound(p)
      PROVE  client'[active.client] = None
  BY <1>1, <1>6 DEF Stopped, ConfigureUnwound, DropSession, AfterClose
<1>7. ASSUME NEW p \in Callers, Continue(p)
      PROVE  client'[active.client] = None
  BY <1>4, <1>5, <1>6, <1>7
     DEF Continue, StopPollEnded, AuthenticateFailed, ConfigureDiscarded, ConfigureDone,
         FirstReadFailed, RefreshDone, RefreshFailed, Answer
<1>8. ASSUME NEW t \in Clients, PollStep(t)
      PROVE  active' # None
  BY <1>8 DEF PollStep, PollStart, PollWait, PollLocked, PollDone, PollFailed, PollCancelled, PollFails
<1> QED BY <1>3, <1>7, <1>8 DEF Next, Terminated, vars

(* The loss of the tokens of a client is reported until that client is      *)
(* given up: a step that leaves the client open keeps its session and the   *)
(* configuration that holds it; a read of it under way is bound to fail,    *)
(* and one begun by the step is too, because its trends are overdue.        *)
LEMMA LossStays ==
    ASSUME Core, TokenNext, NEW c \in Clients, LostForGood(c), c \in revoked'
    PROVE  LostForGood(c)'
<1>1. CASE ServiceStep
  <2>1. /\ Next /\ active # None /\ active.client = c
        /\ c \in overdue /\ (Reading => doomed)
    BY <1>1, ServiceSteps DEF LostForGood, LossShows
  <2>2. Succeeds => Reading
    BY DEF Succeeds, Reading, CallerReading, ConfigureDone, RefreshDone, PollDone
  <2>3. client'[c] # None /\ OtherSteps
    BY <1>1, <2>1, <2>2 DEF ServiceStep, Succeeds
  <2>4. active' # None
    BY <2>1, <2>3, EndedIsClosed
  <2>5. active'.client = c /\ ActiveConfigId' = ActiveConfigId
    BY <2>1, <2>4, SessionSteps DEF ActiveConfigId
  <2>6. ActiveConfigId \in Configs /\ published \in [Configs -> {"absent", "connected", "disconnected"}]
    BY <2>1, SessionFields, EntryFields DEF Core, TypeOK, ActiveConfigId
  <2>7. published'[ActiveConfigId] = "disconnected"
    BY <2>1, <2>3, <2>6, Unreported DEF LostForGood, LossShows
  <2>8. LossShows(c)'
    BY <2>4, <2>5, <2>7 DEF LossShows
  <2>9. c \in overdue'
    BY <1>1, <2>1 DEF ServiceStep
  <2>10. Reading' => doomed'
    BY <1>1, <2>1, <2>5, <2>9 DEF ServiceStep, BoundToFail
  <2> QED BY <2>8, <2>9, <2>10 DEF LostForGood
<1>2. CASE \E d \in Clients : Revoke(d) \/ Overdue(d)
  <2>1. UNCHANGED <<vars, doomed>> /\ overdue \subseteq overdue'
    BY <1>2 DEF Revoke, Overdue
  <2>2. LossShows(c)' = LossShows(c) /\ Reading' = Reading
    BY <2>1 DEF vars, LossShows, ActiveConfigId, Reading, CallerReading
  <2> QED BY <2>1, <2>2 DEF LostForGood
<1> QED BY <1>1, <1>2 DEF TokenNext

(* A session whose tokens are gone and whose trends are overdue never comes *)
(* to look repaired: not by a refresh, not by a poll, and not by submitting *)
(* its credentials again.                                                   *)
THEOREM LossIsLasting == TokenSpec => LossStaysSeen
<1>1. Core /\ [TokenNext]_tokenVars
        => [\A c \in Clients :
               LostForGood(c) => c \notin revoked' \/ LostForGood(c)']_tokenVars
  BY LossStays
<1> QED BY <1>1, TokensCore, PTL DEF TokenSpec, LossStaysSeen
=============================================================================
