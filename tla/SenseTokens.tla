---------------------------- MODULE SenseTokens ----------------------------
(***************************************************************************)
(* The service with tokens that Sense revokes: it neither accepts them nor *)
(* renews them (an access token that only expires is renewed by the        *)
(* library, docs/sense-library-research.md).  Only a client that           *)
(* authenticates anew is free of that.                                     *)
(*                                                                         *)
(* Reads do not fail at once.  The library answers update_realtime from    *)
(* memory within a minute of its last attempt, without a call, so a read   *)
(* that does not ask for the trends may succeed, and be reported as        *)
(* connected, with tokens that are gone.  One that asks for them calls     *)
(* Sense and fails.  Trends that fail do not move last_trend_poll, so once *)
(* they are older than any interval the schema allows every read asks.     *)
(***************************************************************************)
EXTENDS SenseService

VARIABLES
    revoked,   \* the open clients whose tokens Sense no longer accepts
    overdue,   \* those whose trends are older than the longest trend interval
    doomed     \* whether the read in flight was begun bound to fail

tokenVars == <<vars, revoked, overdue, doomed>>

TokenInit == Init /\ revoked = {} /\ overdue = {} /\ doomed = FALSE

Reading == \/ \E p \in Callers : CallerReading(p)
           \/ \E t \in Clients : poll[t] = "reading"

(* A read of client c begun now calls Sense without good tokens: the trends *)
(* are due, or it is the first read, which forces them and finds nothing in *)
(* memory.                                                                  *)
BoundToFail(c) ==
    \/ c \in overdue
    \/ c \in revoked /\ \E p \in Callers : pc[p] = "firstRead"

(* The steps of SenseService!Next: a read bound to fail does not succeed.   *)
Succeeds ==
    /\ ~doomed
    /\ \/ \E p \in Callers : ConfigureDone(p) \/ RefreshDone(p)
       \/ \E t \in Clients : PollDone(t)

OtherSteps ==
    \/ \E p \in Callers, r \in Requests : Arrive(p, r)
    \/ \E p \in Callers :
          \/ Enter(p)
          \/ StopPollEnded(p) \/ ConfigureReplace(p) \/ Stopped(p)
          \/ AuthenticateOk(p) \/ AuthenticateFailed(p) \/ ConfigureDiscarded(p)
          \/ FirstReadFailed(p) \/ ConfigureUnwound(p) \/ RefreshFailed(p)
    \/ \E t \in Clients :
          PollStart(t) \/ PollWait(t) \/ PollLocked(t) \/ PollFailed(t) \/ PollCancelled(t)
    \/ Terminated

(* A closed client takes its tokens with it.  Whether a read is bound to    *)
(* fail is settled when it begins.                                          *)
ServiceStep ==
    /\ Succeeds \/ OtherSteps
    /\ revoked' = {c \in revoked : client'[c] # None}
    /\ overdue' = overdue \cap revoked'
    /\ doomed' = (Reading' /\ IF Reading THEN doomed ELSE BoundToFail(active.client)')

Revoke(c) ==
    /\ client[c] # None /\ c \notin revoked
    /\ revoked' = revoked \cup {c}
    /\ UNCHANGED <<vars, overdue, doomed>>

(* The trends of c, which cannot be fetched any more, grow too old.         *)
Overdue(c) ==
    /\ c \in revoked \ overdue
    /\ overdue' = overdue \cup {c}
    /\ UNCHANGED <<vars, revoked, doomed>>

TokenNext == ServiceStep \/ \E c \in Clients : Revoke(c) \/ Overdue(c)

(* As for the service, and time passes.                                     *)
TokenSpec ==
    /\ TokenInit /\ [][TokenNext]_tokenVars
    /\ Fairness
    /\ \A c \in Clients : WF_tokenVars(Overdue(c))

-----------------------------------------------------------------------------
(* Properties *)

(* The loss of the tokens of client c shows: its configuration, which holds *)
(* the session, is reported as disconnected.                                *)
LossShows(c) ==
    /\ active # None /\ active.client = c
    /\ published[ActiveConfigId] = "disconnected"

(* It shows, and no read that could still answer from memory is under way   *)
(* or will be.                                                              *)
LostForGood(c) ==
    LossShows(c) /\ c \in overdue /\ (Reading => doomed)

(* "Failures must remain observable" (docs/sense-library-research.md): a    *)
(* client whose tokens are gone is given up in the end, or its              *)
(* configuration is shown as disconnected for good, whatever is answered    *)
(* from memory and whatever requests are made of the service meanwhile.     *)
TokenLossIsSeen ==
    \A c \in Clients : c \in revoked ~> c \notin revoked \/ LostForGood(c)

(* And it remains so: once its trends are overdue, a session whose tokens   *)
(* are gone does not come to look repaired by refreshing it, by polling it  *)
(* or by submitting the same credentials again, which configure answers     *)
(* with the client it has.  Only giving that client up ends it.  (Earlier   *)
(* it may: a refresh answered from memory publishes connected.)             *)
LossStaysSeen ==
    [][\A c \in Clients : LostForGood(c) => c \notin revoked' \/ LostForGood(c)']_tokenVars
=============================================================================
