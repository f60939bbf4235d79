---------------------------- MODULE PollCadence ----------------------------
(***************************************************************************)
(* When the session of the service is read, and when a reading includes    *)
(* the slower daily trends (_poll_loop and _refresh_locked of service.py,  *)
(* with the intervals of schemas.py).  Time is discrete; a session is      *)
(* held throughout, and SenseService says when it is.                      *)
(*                                                                         *)
(* The event loop is prompt: a task that is due runs before time passes,   *)
(* and a read takes at most MaxRead.                                       *)
(***************************************************************************)
EXTENDS Integers, Sequences, FiniteSets

CONSTANTS
    Handlers,   \* requests that can be in flight at a time
    MinPoll, MaxPoll,   \* the poll_interval_seconds the schema accepts
    MaxTrend,   \* the largest trend_interval_seconds it accepts
    Settings,   \* pairs of intervals a configuration may carry
    MaxRead,    \* how long a read of the Sense cloud takes at most
    MaxTime,    \* bound of the clock, for model checking
    None

ASSUME CadenceAssumption ==
    /\ MinPoll \in Nat \ {0} /\ MaxPoll \in Nat /\ MaxTrend \in Nat
    /\ Settings \subseteq [poll : MinPoll..MaxPoll, trend : 0..MaxTrend]
    /\ MaxRead \in Nat /\ MaxTime \in Nat
    /\ IsFiniteSet(Handlers) /\ "poll" \notin Handlers

Readers == Handlers \cup {"poll"}
Calls == [by : Readers, force : BOOLEAN]
Reads == [by : Readers, start : Nat, trends : BOOLEAN, due : BOOLEAN]

ASSUME NoneAssumption == None \notin Nat \cup Reads

VARIABLES
    now,         \* monotonic()
    config,      \* the intervals of active.config
    lastTrend,   \* active.last_trend_poll
    wake,        \* when the poll task's sleep ends, None when it does not sleep
    queue,       \* the calls waiting for the lock
    read,        \* the read in flight under the lock, None when it is free
    polled,      \* history: when the poll task last began a read
    trended,     \* history: when the read began that last read the trends
    failed,      \* history: when a read last failed
    overdue      \* history: since when trends that were due have not been read

vars == <<now, config, lastTrend, wake, queue, read, polled, trended, failed, overdue>>

(* configure has read the session, trends included, and created the task.   *)
Init ==
    /\ now \in 0..MaxRead
    /\ lastTrend = 0 /\ polled = now /\ trended = 0 /\ failed = 0
    /\ config \in Settings
    /\ wake = now + config.poll
    /\ queue = <<>>
    /\ read = None /\ overdue = None

TrendsDue == now - lastTrend >= config.trend

(* The start of _refresh_locked: the decision is taken before the read. *)
Begin(call) ==
    /\ read' = [by |-> call.by, start |-> now, trends |-> call.force \/ TrendsDue, due |-> TrendsDue]
    /\ polled' = IF call.by = "poll" THEN now ELSE polled

(* A call that finds the lock free reads at once, another waits its turn. *)
Enter(call) ==
    IF read = None /\ queue = <<>>
    THEN Begin(call) /\ UNCHANGED queue
    ELSE queue' = Append(queue, call) /\ UNCHANGED <<read, polled>>

Pending(x) ==
    \/ read # None /\ read.by = x
    \/ \E i \in 1..Len(queue) : queue[i].by = x

(* The refresh command and GET /state force the trends, telemetry does not. *)
Refresh(h, force) ==
    /\ ~Pending(h)
    /\ Enter([by |-> h, force |-> force])
    /\ UNCHANGED <<now, config, lastTrend, wake, trended, failed, overdue>>

Wake ==
    /\ wake = now
    /\ wake' = None
    /\ Enter([by |-> "poll", force |-> FALSE])
    /\ UNCHANGED <<now, config, lastTrend, trended, failed, overdue>>

TakeTurn ==
    /\ read = None /\ queue # <<>>
    /\ Begin(Head(queue))
    /\ queue' = Tail(queue)
    /\ UNCHANGED <<now, config, lastTrend, wake, trended, failed, overdue>>

(* MUTANTS of Sleep: a failed poll is retried without sleeping; it ends the *)
(* loop.                                                                    *)
SleepUnlessFailed(ok) ==
    wake' = IF read.by # "poll" THEN wake ELSE IF ok THEN now + config.poll ELSE now
SleepIfRead(ok) ==
    wake' = IF read.by # "poll" THEN wake ELSE IF ok THEN now + config.poll ELSE None

(* The poll task sleeps again after each of its reads, whatever the outcome. *)
Sleep(ok) == wake' = IF read.by = "poll" THEN now + config.poll ELSE wake

(* MUTANTS of Stamp: any reading counts as one of the trends; a trend read   *)
(* counts before it succeeded; the time the trends are next due is stored.   *)
StampAlways(ok) == lastTrend' = IF ok THEN read.start ELSE lastTrend
StampBeforeRead(ok) == lastTrend' = IF read.trends THEN read.start ELSE lastTrend
StampNextDue(ok) == lastTrend' = IF ok /\ read.trends THEN read.start + config.trend ELSE lastTrend

(* Only trends that were read move the time stamp, to when the read began.  *)
Stamp(ok) == lastTrend' = IF ok /\ read.trends THEN read.start ELSE lastTrend

ReadEnds(ok) ==
    /\ read # None
    /\ Stamp(ok)
    /\ Sleep(ok)
    /\ read' = None
    /\ trended' = IF ok /\ read.trends THEN read.start ELSE trended
    /\ failed' = IF ok THEN failed ELSE now
    /\ overdue' = IF ok /\ read.trends THEN None ELSE IF ~ok /\ read.due THEN now ELSE overdue
    /\ UNCHANGED <<now, config, queue, polled>>

(* configure with the same credentials replaces active.config; a sleep that  *)
(* has begun keeps its length.                                               *)
Reconfigure(s) ==
    /\ read = None
    /\ config' = s
    /\ overdue' = None
    /\ UNCHANGED <<now, lastTrend, wake, queue, read, polled, trended, failed>>

Tick ==
    /\ now < MaxTime
    /\ wake # now
    /\ IF read = None THEN queue = <<>> ELSE now < read.start + MaxRead
    /\ now' = now + 1
    /\ UNCHANGED <<config, lastTrend, wake, queue, read, polled, trended, failed, overdue>>

Next ==
    \/ \E h \in Handlers, force \in BOOLEAN : Refresh(h, force)
    \/ \E ok \in BOOLEAN : ReadEnds(ok)
    \/ \E s \in Settings : Reconfigure(s)
    \/ Wake \/ TakeTurn \/ Tick

Spec == Init /\ [][Next]_vars

-----------------------------------------------------------------------------
(* Properties *)

(* Every variable has its type.                                             *)
TypeOK ==
    /\ now \in Nat /\ config \in Settings
    /\ {lastTrend, polled, trended, failed} \subseteq 0..now
    /\ wake \in Nat \cup {None}
    /\ queue \in Seq(Calls)
    /\ read \in {None} \cup Reads /\ (read # None => read.start <= now)
    /\ overdue \in 0..now \cup {None}

(* The poll task never sleeps and waits at a time, and never stops.         *)
PollTaskIsLive == (wake = None) <=> Pending("poll")

(* "Polls realtime data no more often than once per minute" (README.md):    *)
(* failures, refreshes and new intervals included.                          *)
PollsAreSpaced ==
    [][read = None /\ read' # None /\ read'.by = "poll" => now - polled >= MinPoll]_vars

(* What the poll task can wait for: the read in flight and those queued.    *)
MaxWait == Cardinality(Handlers) * MaxRead

LastTried == IF trended >= failed THEN trended ELSE failed

(* Trends are never older than the longest intervals allow, counted from    *)
(* the last failure if there was one: an unforced reading, a refresh or a   *)
(* new configuration does not put them off further.                         *)
TrendsAreFresh ==
    now - LastTried <= MaxTrend + MaxPoll + MaxWait + 2 * MaxRead

(* Trends that were due when a read failed are read, or fail again, by the  *)
(* next poll: a failure does not put them off by a whole trend interval.    *)
FailedTrendsAreRetried ==
    overdue # None => now - overdue <= MaxPoll + MaxWait + MaxRead

(* The inductive invariant behind the properties above.  A caller waits or  *)
(* reads once at a time, and the poll task sleeps or is one of the callers. *)
CallersOnce ==
    /\ \A i, j \in 1..Len(queue) : queue[i].by = queue[j].by => i = j
    /\ read # None => \A i \in 1..Len(queue) : queue[i].by # read.by

(* The task does not wake, nor wait for the lock, before its time.          *)
SpacedInv ==
    /\ wake # None => wake >= polled + MinPoll
    /\ \A i \in 1..Len(queue) : queue[i].by = "poll" => now >= polled + MinPoll

(* Nothing outlasts its bound, and what a read decided is still so: neither *)
(* the interval nor the time stamp moves while it is in flight.             *)
ClockInv ==
    /\ lastTrend = trended
    /\ wake # None => wake \in now..now + MaxPoll
    /\ read # None => /\ now <= read.start + MaxRead
                      /\ trended <= read.start
                      /\ read.due => read.trends /\ TrendsDue

(* The next read of the poll task begins within MaxWait of t.               *)
Turns(n) == n * MaxRead

NextPollBy(t) ==
    /\ wake # None => wake <= t
    /\ \A i \in 1..Len(queue) : queue[i].by = "poll" =>
          IF read = None THEN now + Turns(i - 1) <= t + MaxWait
          ELSE read.start + Turns(i) <= t + MaxWait
    /\ read # None /\ read.by = "poll" => read.start <= t + MaxWait

(* A read of the poll task that left the trends out began when they were    *)
(* not due.                                                                 *)
FreshInv ==
    /\ NextPollBy(LastTried + MaxTrend + MaxRead + MaxPoll)
    /\ read # None /\ read.by = "poll" => read.trends \/ read.start <= LastTried + MaxTrend

(* Trends that were due when a read failed stay due until they are read.    *)
RetryInv ==
    overdue # None =>
       /\ NextPollBy(overdue + MaxPoll)
       /\ TrendsDue /\ (read # None => read.due)

CadenceInv == TypeOK /\ CallersOnce /\ PollTaskIsLive /\ SpacedInv /\ ClockInv /\ FreshInv /\ RetryInv
=============================================================================
