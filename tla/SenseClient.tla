---------------------------- MODULE SenseClient ----------------------------
(***************************************************************************)
(* One SenseEnergyClient (sense_client.py) with its SenseExtendedApi       *)
(* (extended_api.py), from its construction by configure to its close: the *)
(* aiohttp session it opens, the awaits of a read, and the best-effort     *)
(* snapshot of the undocumented endpoints.                                 *)
(*                                                                         *)
(* The service calls it under its lock, one call at a time: authenticate   *)
(* once, close if that fails, reads, close.  A value fetched from Sense is *)
(* the number of the read that fetched it, 0 stands for none.              *)
(***************************************************************************)
EXTENDS Naturals

CONSTANT MaxReads   \* bound of the reads of a client, for model checking

ASSUME ReadsAssumption == MaxReads \in Nat

PowerSlots == {"always_on_power_w", "other_power_w"}
Slots == {"appliances", "timeline_events"} \cup PowerSlots
Required == {"realtime", "trends", "monitor"}

(* The order in which a read awaits them.                                   *)
Turn == [realtime |-> 1, trends |-> 2, monitor |-> 3, appliances |-> 4,
         always_on_power_w |-> 5, other_power_w |-> 6, timeline_events |-> 7]

(* What an endpoint may answer: what the parser looks for; nothing, in the  *)
(* known shape; a response the parser accepts but recognises nothing in;    *)
(* an error, or a response the parser refuses.                              *)
Answers == {"good", "empty", "changed", "fails"}

VARIABLES
    pc,        \* where the object is in its life, and the await of a call
    mfaCode,   \* whether the configuration carries an MFA code
    http,      \* the aiohttp session: "none", "open" or "closed"
    sense,     \* whether self._sense and self._extended are set
    monitor,   \* whether the library has the monitor's data
    fetched,   \* the realtime and trend data the library holds
    snapshot,  \* self._snapshot of the extended API
    parts,     \* the locals of SenseExtendedApi.refresh
    todo,      \* the awaits left in the read in flight
    trends,    \* its include_trends
    reads,     \* the reads begun
    outcome,   \* how the last read ended, "none" while it is in flight
    reading,   \* what the last read returned, nothing if it did not
    refused,   \* history: a required call of the read failed
    malformed, \* history: a value the library gave it could not be converted
    limited,   \* history: the library's rate limit answered its realtime call
    lastGood   \* history: what the last usable answer of each endpoint was

authVars == <<pc, mfaCode, http, sense>>
readVars == <<monitor, fetched, snapshot, parts, todo, trends, reads, outcome,
              reading, refused, malformed, limited, lastGood>>
vars == <<authVars, readVars>>

NoSlots == [s \in Slots |-> 0]
NoReading == [realtime |-> 0, trends |-> 0, extended |-> NoSlots, buckets |-> {}, standIns |-> {}]

Init ==
    /\ pc = "new" /\ http = "none" /\ sense = FALSE
    /\ mfaCode \in BOOLEAN
    /\ monitor = FALSE
    /\ fetched = [realtime |-> 0, trends |-> 0]
    /\ snapshot = NoSlots /\ parts = NoSlots /\ lastGood = NoSlots
    /\ todo = {} /\ trends = FALSE /\ reads = 0
    /\ outcome = "none" /\ refused = FALSE /\ malformed = FALSE /\ limited = FALSE
    /\ reading = NoReading

-----------------------------------------------------------------------------
(* authenticate and close *)

Authenticate ==
    /\ pc = "new"
    /\ http' = "open" /\ sense' = TRUE
    /\ pc' = "authenticating"
    /\ UNCHANGED <<mfaCode, readVars>>

(* MUTANT of MfaRequired: the missing code is a state of the client.        *)
MfaReported ==
    /\ pc = "authenticating"
    /\ pc' = IF mfaCode THEN "validating" ELSE "mfa required"
    /\ UNCHANGED <<mfaCode, http, sense, readVars>>

(* Without a code the client closes itself before it asks for one.          *)
MfaRequired ==
    /\ pc = "authenticating"
    /\ pc' = IF mfaCode THEN "validating" ELSE "rejecting"
    /\ UNCHANGED <<mfaCode, http, sense, readVars>>

Authenticated ==
    /\ pc \in {"authenticating", "validating"}
    /\ pc' = "idle"
    /\ UNCHANGED <<mfaCode, http, sense, readVars>>

(* Sense rejects the password or the code: the client closes itself.        *)
Rejected ==
    /\ pc \in {"authenticating", "validating"}
    /\ pc' = "rejecting"
    /\ UNCHANGED <<mfaCode, http, sense, readVars>>

(* Any other error leaves the session open to the caller.                   *)
AuthenticateErrs ==
    /\ pc \in {"authenticating", "validating"}
    /\ pc' = "raised"
    /\ UNCHANGED <<mfaCode, http, sense, readVars>>

RejectClosed ==
    /\ pc = "rejecting"
    /\ http' = "closed" /\ sense' = FALSE
    /\ pc' = "raised"
    /\ UNCHANGED <<mfaCode, readVars>>

(* MUTANT of Close: the client is believed to have closed itself.           *)
CloseIfUsable ==
    /\ pc \in {"raised", "idle"}
    /\ pc' = IF pc = "idle" THEN "closing" ELSE "closed"
    /\ sense' = (sense /\ pc = "idle")
    /\ UNCHANGED <<mfaCode, http, readVars>>

(* The service closes after a failure and at the end of the session; closing *)
(* a client that closed itself does not suspend.                             *)
Close ==
    /\ pc \in {"raised", "idle"}
    /\ pc' = IF http = "open" THEN "closing" ELSE "closed"
    /\ sense' = (sense /\ http = "open")
    /\ UNCHANGED <<mfaCode, http, readVars>>

Closed ==
    /\ pc = "closing"
    /\ http' = "closed" /\ sense' = FALSE
    /\ pc' = "closed"
    /\ UNCHANGED <<mfaCode, readVars>>

-----------------------------------------------------------------------------
(* read *)

Awaits(includeTrends) ==
    {"realtime"} \cup (IF includeTrends THEN {"trends"} \cup Slots ELSE {})
                 \cup (IF monitor THEN {} ELSE {"monitor"})

Read(includeTrends) ==
    /\ pc = "idle" /\ sense /\ reads < MaxReads
    /\ pc' = "reading"
    /\ trends' = includeTrends
    /\ todo' = Awaits(includeTrends)
    /\ reads' = reads + 1 /\ reading' = NoReading
    /\ refused' = FALSE /\ malformed' = FALSE /\ limited' = FALSE /\ outcome' = "none"
    /\ UNCHANGED <<mfaCode, http, sense, monitor, fetched, snapshot, parts, lastGood>>

Awaiting(point) ==
    /\ pc = "reading" /\ point \in todo
    /\ \A other \in todo : Turn[point] <= Turn[other]

(* The read ends by an exception; the data fetched so far stays. *)
Raise ==
    /\ pc' = "idle" /\ todo' = {} /\ outcome' = "raised"
    /\ UNCHANGED <<reading, malformed>>

(* What the library has is converted into the reading.  A power no endpoint *)
(* ever answered is that of the bucket's device, if the library lists it.   *)
Return ==
    \E buckets \in SUBSET PowerSlots :
        /\ outcome' = "returned"
        /\ reading' = [realtime |-> fetched'.realtime, trends |-> fetched'.trends,
                       extended |-> snapshot', buckets |-> buckets,
                       standIns |-> {s \in buckets : snapshot'[s] = 0}]
        /\ UNCHANGED malformed

(* A value of the library's is no number: the read raises all the same.     *)
ConversionFails ==
    /\ outcome' = "raised" /\ malformed' = TRUE
    /\ UNCHANGED reading

(* The read goes on to its next await, or ends: the snapshot is replaced as *)
(* a whole if it was refreshed.                                             *)
Advance(point) ==
    /\ todo' = todo \ {point}
    /\ snapshot' = IF todo' = {} /\ trends THEN parts' ELSE snapshot
    /\ IF todo' = {}
       THEN pc' = "idle" /\ (Return \/ ConversionFails)
       ELSE UNCHANGED <<pc, outcome, reading, malformed>>

Fetched(call) ==
    /\ Awaiting(call)
    /\ monitor' = (monitor \/ call = "monitor")
    /\ fetched' = IF call = "monitor" THEN fetched ELSE [fetched EXCEPT ![call] = reads]
    /\ UNCHANGED parts
    /\ Advance(call)
    /\ UNCHANGED <<mfaCode, http, sense, trends, reads, refused, limited, lastGood>>

(* Within a minute of its last attempt the library keeps the realtime data  *)
(* it has and says nothing.                                                 *)
RateLimited ==
    /\ Awaiting("realtime") /\ fetched.realtime > 0
    /\ limited' = TRUE
    /\ UNCHANGED <<monitor, fetched, parts>>
    /\ Advance("realtime")
    /\ UNCHANGED <<mfaCode, http, sense, trends, reads, refused, lastGood>>

(* MUTANT of Refused: a required call is best effort too.                   *)
RefusedIsSkipped(call) ==
    /\ Awaiting(call)
    /\ refused' = TRUE
    /\ UNCHANGED <<monitor, fetched, parts>>
    /\ Advance(call)
    /\ UNCHANGED <<mfaCode, http, sense, trends, reads, limited, lastGood>>

Refused(call) ==
    /\ Awaiting(call)
    /\ refused' = TRUE
    /\ Raise
    /\ UNCHANGED <<mfaCode, http, sense, monitor, fetched, snapshot, parts, trends, reads, limited,
                   lastGood>>

(* MUTANT of BestEffort: nothing found is a value like any other.           *)
BestEffortParsed(slot, answer) ==
    CASE answer = "good" -> reads
      [] answer = "fails" -> snapshot[slot]
      [] OTHER -> 0

(* _best_effort: the fallback on an error and on None, which only the power *)
(* parser returns; a list parser that recognises no entry returns none.     *)
BestEffort(slot, answer) ==
    CASE answer = "good" -> reads
      [] answer # "good" /\ (answer = "fails" \/ slot \in PowerSlots) -> snapshot[slot]
      [] OTHER -> 0

Remember(slot, answer) ==
    lastGood' = CASE answer = "good" -> [lastGood EXCEPT ![slot] = reads]
                  [] answer = "empty" /\ slot \notin PowerSlots -> [lastGood EXCEPT ![slot] = 0]
                  [] OTHER -> lastGood

(* MUTANT of Extended: the exception of an endpoint ends the read.          *)
ExtendedRaises(slot, answer) ==
    /\ Awaiting(slot)
    /\ UNCHANGED <<monitor, fetched>>
    /\ IF answer = "fails"
       THEN Raise /\ UNCHANGED <<snapshot, parts>>
       ELSE parts' = [parts EXCEPT ![slot] = BestEffort(slot, answer)] /\ Advance(slot)
    /\ Remember(slot, answer)
    /\ UNCHANGED <<mfaCode, http, sense, trends, reads, refused, limited>>

Extended(slot, answer) ==
    /\ Awaiting(slot)
    /\ parts' = [parts EXCEPT ![slot] = BestEffort(slot, answer)]
    /\ UNCHANGED <<monitor, fetched>>
    /\ Advance(slot)
    /\ Remember(slot, answer)
    /\ UNCHANGED <<mfaCode, http, sense, trends, reads, refused, limited>>

(* A read is cancelled in any of its awaits, and the client closed next.    *)
(* The client allows for it; its service never does it, for it reads, and   *)
(* cancels the poll task, with its lock held.                               *)
Cancelled ==
    /\ pc = "reading"
    /\ pc' = "raised" /\ todo' = {} /\ outcome' = "cancelled"
    /\ UNCHANGED <<mfaCode, http, sense, monitor, fetched, snapshot, parts, trends, reads,
                   reading, refused, malformed, limited, lastGood>>

(* A closed client is dropped. *)
Dropped == pc = "closed" /\ UNCHANGED vars

Next ==
    \/ Authenticate \/ MfaRequired \/ Authenticated \/ Rejected \/ AuthenticateErrs
    \/ RejectClosed \/ Close \/ Closed
    \/ \E includeTrends \in BOOLEAN : Read(includeTrends)
    \/ \E call \in Required : Fetched(call) \/ Refused(call)
    \/ RateLimited \/ Cancelled
    \/ \E slot \in Slots, answer \in Answers : Extended(slot, answer)
    \/ Dropped

Spec == Init /\ [][Next]_vars

-----------------------------------------------------------------------------
(* Properties *)

(* Every variable has its type.                                             *)
TypeOK ==
    /\ pc \in {"new", "authenticating", "validating", "rejecting", "raised", "idle", "reading",
               "closing", "closed"}
    /\ http \in {"none", "open", "closed"}
    /\ {mfaCode, sense, monitor, trends, refused, malformed, limited} \subseteq BOOLEAN
    /\ reads \in 0..MaxReads
    /\ fetched \in [{"realtime", "trends"} -> 0..reads]
    /\ {snapshot, parts, lastGood} \subseteq [Slots -> 0..reads]
    /\ todo \subseteq Required \cup Slots
    /\ outcome \in {"none", "raised", "cancelled", "returned"}
    /\ reading \in [realtime : 0..reads, trends : 0..reads, extended : [Slots -> 0..reads],
                    buckets : SUBSET PowerSlots, standIns : SUBSET PowerSlots]

(* Whatever way authentication failed or a read ended, the client the       *)
(* service lets go of has no session open; the one it keeps has, with the   *)
(* library object that read needs.                                          *)
NothingLeftOpen ==
    /\ pc = "closed" => http = "closed" /\ ~sense
    /\ pc \in {"idle", "reading"} => http = "open" /\ sense

(* "Failures there never disconnect normal monitoring" (README.md): a read  *)
(* raises only if one of the calls of the public library failed, or gave    *)
(* what is no number.                                                       *)
ExtensionNeverFails == outcome = "raised" => refused \/ malformed

(* A reading is of this read: the realtime data unless the library has just *)
(* tried, the trends when they were asked for; and no extended value is     *)
(* newer than the trends.                                                   *)
ReadingIsCurrent ==
    outcome = "returned" =>
        /\ reading.realtime = reads \/ limited
        /\ trends => reading.trends = reads
        /\ \A s \in Slots : reading.extended[s] <= reading.trends

(* "Retain the last good extended snapshot when an endpoint fails"          *)
(* (docs/sense-library-research.md), for the two power values: neither a    *)
(* failing endpoint, nor one that changed its shape, loses them; and the    *)
(* device of the bucket stands in for exactly those that never answered.    *)
PowerIsKept ==
    outcome = "returned" =>
        /\ \A s \in PowerSlots : reading.extended[s] = lastGood[s]
        /\ reading.standIns = {s \in reading.buckets : lastGood[s] = 0}

(* "Preserve the last good value when an unofficial endpoint changes"       *)
(* (extended_api.py:97), for the lists too.                                 *)
LastGoodIsKept ==
    outcome = "returned" => \A s \in Slots : reading.extended[s] = lastGood[s]
=============================================================================
