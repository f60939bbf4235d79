------------------------- MODULE PollCadenceProofs -------------------------
(***************************************************************************)
(* Theorems about PollCadence for every number of requests, every bound of *)
(* the intervals and of a read, and a clock without a bound of interest.   *)
(***************************************************************************)
EXTENDS PollCadence, FiniteSetTheorems, TLAPS

(* The elements of a queue that grows, or shrinks at its head.              *)
LEMMA QueueGrows ==
    ASSUME NEW s \in Seq(Calls), NEW x \in Calls
    PROVE  /\ Append(s, x) \in Seq(Calls) /\ Len(s) \in Nat
           /\ Len(Append(s, x)) = Len(s) + 1 /\ Append(s, x)[Len(s) + 1] = x
           /\ \A i \in 1..Len(s) : Append(s, x)[i] = s[i] /\ s[i] \in Calls
OBVIOUS

LEMMA QueueShrinks ==
    ASSUME NEW s \in Seq(Calls), s # <<>>
    PROVE  /\ Tail(s) \in Seq(Calls) /\ Len(Tail(s)) = Len(s) - 1 /\ Len(s) \in Nat \ {0}
           /\ Head(s) = s[1] /\ Head(s) \in Calls
           /\ \A i \in 1..Len(s)-1 : Tail(s)[i] = s[i + 1]
OBVIOUS

(* A read that begins.                                                      *)
LEMMA Begun ==
    ASSUME TypeOK, NEW call \in Calls, Begin(call)
    PROVE  /\ read' \in Reads /\ read' # None /\ read'.by = call.by /\ read'.start = now
           /\ read'.due <=> TrendsDue
           /\ read'.trends <=> call.force \/ TrendsDue
           /\ polled' = IF call.by = "poll" THEN now ELSE polled
<1> DEFINE t == call.force \/ TrendsDue
           d == TrendsDue
<1>1. read' = [by |-> call.by, start |-> now, trends |-> t, due |-> d]
  BY DEF Begin
<1>2. call.by \in Readers /\ now \in Nat /\ t \in BOOLEAN /\ d \in BOOLEAN
  BY DEF TypeOK, Calls, TrendsDue
<1>3. (t <=> call.force \/ TrendsDue) /\ (d <=> TrendsDue)
  OBVIOUS
<1> HIDE DEF t, d
<1>4. read' \in Reads /\ read' # None
  BY <1>1, <1>2, NoneAssumption DEF Reads
<1>5. read'.by = call.by /\ read'.start = now /\ read'.trends = t /\ read'.due = d
  BY <1>1
<1>6. polled' = IF call.by = "poll" THEN now ELSE polled
  BY DEF Begin
<1> QED BY <1>3, <1>4, <1>5, <1>6, Zenon

(* The calls that the tasks make.                                           *)
LEMMA NewCalls ==
    /\ \A h \in Handlers, force \in BOOLEAN :
          /\ [by |-> h, force |-> force] \in Calls
          /\ [by |-> h, force |-> force].by = h /\ h # "poll"
    /\ [by |-> "poll", force |-> FALSE] \in Calls
    /\ [by |-> "poll", force |-> FALSE].by = "poll"
BY CadenceAssumption DEF Calls, Readers

-----------------------------------------------------------------------------
(* Types *)

LEMMA InitTypes == Init => TypeOK
<1> SUFFICES ASSUME Init PROVE TypeOK
  OBVIOUS
<1>1. config \in [poll : MinPoll..MaxPoll, trend : 0..MaxTrend] /\ now \in Nat
  BY CadenceAssumption DEF Init
<1>2. wake \in Nat
  BY <1>1, CadenceAssumption DEF Init
<1> QED BY <1>1, <1>2 DEF Init, TypeOK

(* A call that enters keeps the types of the queue and of the read.         *)
LEMMA EnterTypes ==
    ASSUME TypeOK, NEW call \in Calls, Enter(call), now' = now
    PROVE  /\ queue' \in Seq(Calls) /\ polled' \in 0..now
           /\ read' \in {None} \cup Reads /\ (read' # None => read'.start <= now)
BY Begun, QueueGrows DEF Enter, TypeOK

LEMMA NextTypes ==
    ASSUME TypeOK, [Next]_vars
    PROVE  TypeOK'
<1>0. now \in Nat /\ config \in [poll : MinPoll..MaxPoll, trend : 0..MaxTrend]
  BY CadenceAssumption DEF TypeOK
<1>1. ASSUME NEW h \in Handlers, NEW force \in BOOLEAN, Refresh(h, force)
      PROVE  TypeOK'
  BY <1>1, NewCalls, EnterTypes DEF Refresh, TypeOK
<1>2. CASE Wake
  BY <1>2, NewCalls, EnterTypes DEF Wake, TypeOK
<1>3. CASE TakeTurn
  <2>1. Head(queue) \in Calls /\ queue' \in Seq(Calls)
    BY <1>3, QueueShrinks DEF TakeTurn, TypeOK
  <2> QED BY <1>3, <2>1, Begun DEF TakeTurn, TypeOK
<1>4. ASSUME NEW ok \in BOOLEAN, ReadEnds(ok)
      PROVE  TypeOK'
  <2>1. read.start \in 0..now /\ read' = None /\ UNCHANGED <<now, config, queue, polled>>
    BY <1>4 DEF ReadEnds, TypeOK, Reads
  <2>2. wake' \in Nat \cup {None}
    BY <1>0, <1>4, CadenceAssumption DEF ReadEnds, Sleep, TypeOK
  <2>3. {lastTrend', trended', failed'} \subseteq 0..now /\ overdue' \in 0..now \cup {None}
    BY <1>0, <1>4, <2>1 DEF ReadEnds, Stamp, TypeOK
  <2> QED BY <2>1, <2>2, <2>3 DEF TypeOK
<1>5. ASSUME NEW s \in Settings, Reconfigure(s)
      PROVE  TypeOK'
  BY <1>5 DEF Reconfigure, TypeOK
<1>6. CASE Tick
  <2>1. now' = now + 1 /\ now' \in Nat /\ 0..now \subseteq 0..now'
    BY <1>0, <1>6 DEF Tick
  <2> QED BY <1>0, <1>6, <2>1 DEF Tick, TypeOK, Reads
<1>7. CASE UNCHANGED vars
  BY <1>7 DEF vars, TypeOK
<1> QED BY <1>1, <1>2, <1>3, <1>4, <1>5, <1>6, <1>7 DEF Next


-----------------------------------------------------------------------------
(* The callers of the lock *)

(* A call joins those that wait, or the one that reads.                     *)
LEMMA EnterCallers ==
    ASSUME TypeOK, CallersOnce, NEW call \in Calls, ~Pending(call.by), Enter(call)
    PROVE  CallersOnce' /\ \A x : Pending(x)' <=> Pending(x) \/ x = call.by
<1>1. CASE read = None /\ queue = <<>>
  <2>1. queue' = <<>> /\ read' # None /\ read'.by = call.by
    BY <1>1, Begun DEF Enter
  <2> QED BY <1>1, <2>1 DEF CallersOnce, Pending
<1>2. CASE ~(read = None /\ queue = <<>>)
  <2>1. /\ read' = read /\ Len(queue) \in Nat /\ Len(queue') = Len(queue) + 1
        /\ queue'[Len(queue) + 1] = call /\ \A i \in 1..Len(queue) : queue'[i] = queue[i]
    BY <1>2, QueueGrows DEF Enter, TypeOK
  <2>2. CallersOnce'
    BY <2>1 DEF CallersOnce, Pending
  <2>3. ASSUME NEW x PROVE Pending(x)' <=> Pending(x) \/ x = call.by
    <3>1. \A i \in 1..Len(queue') : i \in 1..Len(queue) \/ i = Len(queue) + 1
      BY <2>1
    <3>2. 1..Len(queue) \subseteq 1..Len(queue') /\ Len(queue) + 1 \in 1..Len(queue')
      BY <2>1
    <3> QED BY <2>1, <3>1, <3>2 DEF Pending
  <2> QED BY <2>2, <2>3
<1> QED BY <1>1, <1>2

(* Whose turn it is reads, and waits no more.                               *)
LEMMA TurnCallers ==
    ASSUME TypeOK, CallersOnce, TakeTurn
    PROVE  CallersOnce' /\ \A x : Pending(x)' <=> Pending(x)
<1>1. /\ Len(queue) \in Nat \ {0} /\ Len(queue') = Len(queue) - 1 /\ read = None
      /\ read' # None /\ read'.by = queue[1].by
      /\ \A i \in 1..Len(queue') : queue'[i] = queue[i + 1]
  BY QueueShrinks, Begun DEF TakeTurn, TypeOK
<1>2. CallersOnce'
  BY <1>1 DEF CallersOnce
<1>3. ASSUME NEW x PROVE Pending(x)' <=> Pending(x)
  <2>1. \A i \in 1..Len(queue) : i = 1 \/ (i - 1 \in 1..Len(queue') /\ queue'[i - 1] = queue[i])
    BY <1>1
  <2>2. \A i \in 1..Len(queue') : i + 1 \in 1..Len(queue) /\ queue'[i] = queue[i + 1]
    BY <1>1
  <2>3. 1 \in 1..Len(queue)
    BY <1>1
  <2> QED BY <1>1, <2>1, <2>2, <2>3 DEF Pending
<1> QED BY <1>2, <1>3

(* A read that ends leaves those that wait.                                 *)
LEMMA EndCallers ==
    ASSUME TypeOK, CallersOnce, NEW ok \in BOOLEAN, ReadEnds(ok)
    PROVE  CallersOnce' /\ \A x : Pending(x)' <=> Pending(x) /\ x # read.by
<1>1. read # None /\ read' = None /\ queue' = queue
  BY DEF ReadEnds
<1> QED BY <1>1 DEF CallersOnce, Pending

LEMMA NextCallers ==
    ASSUME TypeOK, CallersOnce, PollTaskIsLive, [Next]_vars
    PROVE  CallersOnce' /\ PollTaskIsLive'
<1>1. ASSUME NEW h \in Handlers, NEW force \in BOOLEAN, Refresh(h, force)
      PROVE  CallersOnce' /\ PollTaskIsLive'
  BY <1>1, NewCalls, EnterCallers DEF Refresh, PollTaskIsLive
<1>2. CASE Wake
  <2>1. ~Pending("poll") /\ wake' = None
    BY <1>2, NoneAssumption DEF Wake, TypeOK, PollTaskIsLive
  <2> QED BY <1>2, <2>1, NewCalls, EnterCallers DEF Wake, PollTaskIsLive
<1>3. CASE TakeTurn
  BY <1>3, TurnCallers DEF TakeTurn, PollTaskIsLive
<1>4. ASSUME NEW ok \in BOOLEAN, ReadEnds(ok)
      PROVE  CallersOnce' /\ PollTaskIsLive'
  <2>1. read.by = "poll" => Pending("poll") /\ now + config.poll # None
    BY <1>4, CadenceAssumption, NoneAssumption DEF ReadEnds, Pending, TypeOK
  <2>2. wake' = IF read.by = "poll" THEN now + config.poll ELSE wake
    BY <1>4 DEF ReadEnds, Sleep
  <2> QED BY <1>4, <2>1, <2>2, EndCallers DEF PollTaskIsLive
<1>5. ASSUME \/ \E s \in Settings : Reconfigure(s)
             \/ Tick \/ UNCHANGED vars
      PROVE  CallersOnce' /\ PollTaskIsLive'
  <2>1. UNCHANGED <<wake, queue, read>>
    BY <1>5 DEF Reconfigure, Tick, vars
  <2> QED BY <2>1 DEF CallersOnce, PollTaskIsLive, Pending
<1> QED BY <1>1, <1>2, <1>3, <1>4, <1>5 DEF Next

(* Each request waits or reads once at a time.                              *)
LEMMA FewWait ==
    ASSUME TypeOK, CallersOnce
    PROVE  /\ Cardinality(Handlers) \in Nat
           /\ Len(queue) <= Cardinality(Handlers) + 1
           /\ ~Pending("poll") =>
                 Len(queue) + (IF read = None THEN 0 ELSE 1) <= Cardinality(Handlers)
<1>1. /\ Cardinality(Handlers) \in Nat /\ IsFiniteSet(Handlers) /\ IsFiniteSet(Readers)
      /\ Cardinality(Readers) = Cardinality(Handlers) + 1
  BY FS_CardinalityType, FS_AddElement, CadenceAssumption DEF Readers
<1>2. Len(queue) \in Nat /\ \A i \in 1..Len(queue) : queue[i].by \in Readers
  <2>1. Len(queue) \in Nat /\ \A i \in 1..Len(queue) : queue[i] \in Calls
    BY DEF TypeOK
  <2> QED BY <2>1 DEF Calls
<1>3. read # None => read.by \in Readers
  BY DEF TypeOK, Reads
<1>4. ASSUME NEW S, IsFiniteSet(S), \A i \in 1..Len(queue) : queue[i].by \in S
      PROVE  Len(queue) <= Cardinality(S)
  <2> DEFINE f == [i \in 1..Len(queue) |-> queue[i].by]
  <2>1. f \in Injection(1..Len(queue), S)
    BY <1>4 DEF Injection, IsInjective, CallersOnce
  <2>2. Cardinality(1..Len(queue)) = Len(queue)
    <3>1. Cardinality(1..Len(queue)) = IF 1 > Len(queue) THEN 0 ELSE Len(queue) - 1 + 1
      BY <1>2, FS_Interval
    <3> QED BY <1>2, <3>1
  <2> QED BY <1>4, <2>1, <2>2, FS_Injection
<1>5. ASSUME ~Pending("poll") PROVE \A i \in 1..Len(queue) : queue[i].by \in Handlers
  BY <1>2, <1>5 DEF Pending, Readers
<1>6. ASSUME ~Pending("poll"), read # None PROVE Len(queue) + 1 <= Cardinality(Handlers)
  <2> DEFINE f == [i \in 0..Len(queue) |-> IF i = 0 THEN read.by ELSE queue[i].by]
  <2>1. read.by \in Handlers
    BY <1>3, <1>6 DEF Pending, Readers
  <2>2. f \in [0..Len(queue) -> Handlers]
    BY <1>2, <1>5, <1>6, <2>1
  <2>3. \A i, j \in 0..Len(queue) : f[i] = f[j] => i = j
    BY <1>2, <1>6 DEF CallersOnce
  <2>4. f \in Injection(0..Len(queue), Handlers)
    BY <2>2, <2>3 DEF Injection, IsInjective
  <2>5. Cardinality(0..Len(queue)) = Len(queue) + 1
    BY <1>2, FS_Interval
  <2> QED BY <1>1, <2>4, <2>5, FS_Injection
<1> QED BY <1>1, <1>2, <1>4, <1>5, <1>6


-----------------------------------------------------------------------------
(* Time *)

(* The numbers of the state.                                                *)
LEMMA Times ==
    ASSUME TypeOK
    PROVE  /\ now \in Nat /\ lastTrend \in 0..now /\ polled \in 0..now
           /\ trended \in 0..now /\ failed \in 0..now
           /\ config.poll \in Nat /\ config.poll >= MinPoll /\ config.poll <= MaxPoll
           /\ config.trend \in Nat /\ config.trend <= MaxTrend
           /\ wake # None => wake \in Nat
           /\ overdue # None => overdue \in 0..now
           /\ read # None => read \in Reads /\ read.start \in 0..now
           /\ MinPoll \in Nat /\ MaxPoll \in Nat /\ MaxTrend \in Nat /\ MaxRead \in Nat
           /\ Len(queue) \in Nat
<1>1. config \in [poll : MinPoll..MaxPoll, trend : 0..MaxTrend]
  BY CadenceAssumption DEF TypeOK
<1> QED BY <1>1, CadenceAssumption DEF TypeOK, Reads

(* The poll task neither wakes nor begins a read before its time.           *)
LEMMA NextSpaced ==
    ASSUME TypeOK, CallersOnce, PollTaskIsLive, SpacedInv, [Next]_vars
    PROVE  /\ SpacedInv'
           /\ read = None /\ read' # None /\ read'.by = "poll" => now - polled >= MinPoll
<1> DEFINE Spaced == read = None /\ read' # None /\ read'.by = "poll" => now - polled >= MinPoll
<1>1. ASSUME NEW h \in Handlers, NEW force \in BOOLEAN, Refresh(h, force)
      PROVE  SpacedInv' /\ Spaced
  <2> DEFINE call == [by |-> h, force |-> force]
  <2>1. call \in Calls /\ call.by # "poll" /\ UNCHANGED <<now, wake>> /\ Enter(call)
    BY <1>1, NewCalls DEF Refresh
  <2> HIDE DEF call
  <2>2. CASE read = None /\ queue = <<>>
    BY <2>1, <2>2, Begun DEF Enter, SpacedInv
  <2>3. CASE ~(read = None /\ queue = <<>>)
    <3>1. /\ UNCHANGED <<read, polled>> /\ Len(queue) \in Nat /\ Len(queue') = Len(queue) + 1
          /\ queue'[Len(queue) + 1] = call /\ \A i \in 1..Len(queue) : queue'[i] = queue[i]
      BY <2>1, <2>3, QueueGrows DEF Enter, TypeOK
    <3> QED BY <2>1, <3>1 DEF SpacedInv
  <2> QED BY <2>2, <2>3
<1>2. CASE Wake
  <2> DEFINE call == [by |-> "poll", force |-> FALSE]
  <2>1. call \in Calls /\ now' = now /\ wake' = None /\ wake = now /\ Enter(call)
    BY <1>2, NewCalls DEF Wake
  <2> HIDE DEF call
  <2>2. now >= polled + MinPoll
    BY <2>1, Times, NoneAssumption DEF SpacedInv
  <2>3. Spaced
    BY <2>2, Times
  <2>4. CASE read = None /\ queue = <<>>
    BY <2>1, <2>3, <2>4 DEF Enter, SpacedInv
  <2>5. CASE ~(read = None /\ queue = <<>>)
    BY <2>1, <2>2, <2>3, <2>5 DEF Enter, SpacedInv
  <2> QED BY <2>4, <2>5
<1>3. CASE TakeTurn
  <2>1. /\ Len(queue) \in Nat \ {0} /\ Len(queue') = Len(queue) - 1 /\ Head(queue) = queue[1]
        /\ read = None /\ read'.by = queue[1].by /\ UNCHANGED <<now, wake>>
        /\ polled' = IF queue[1].by = "poll" THEN now ELSE polled
        /\ \A i \in 1..Len(queue') : queue'[i] = queue[i + 1]
    BY <1>3, QueueShrinks, Begun DEF TakeTurn, TypeOK
  <2>2. CASE queue[1].by = "poll"
    <3>1. Pending("poll") /\ wake = None
      BY <2>1, <2>2 DEF Pending, PollTaskIsLive
    <3>2. \A i \in 1..Len(queue') : queue'[i].by # "poll"
      BY <2>1, <2>2 DEF CallersOnce
    <3>3. now >= polled + MinPoll
      BY <2>1, <2>2 DEF SpacedInv
    <3> QED BY <2>1, <3>1, <3>2, <3>3, Times DEF SpacedInv
  <2>3. CASE queue[1].by # "poll"
    <3>1. \A i \in 1..Len(queue') : queue'[i].by = "poll" => now' >= polled' + MinPoll
      BY <2>1, <2>3 DEF SpacedInv
    <3> QED BY <2>1, <2>3, <3>1 DEF SpacedInv
  <2> QED BY <2>2, <2>3
<1>4. ASSUME NEW ok \in BOOLEAN, ReadEnds(ok)
      PROVE  SpacedInv' /\ Spaced
  <2>1. /\ wake' = (IF read.by = "poll" THEN now + config.poll ELSE wake)
        /\ read' = None /\ UNCHANGED <<now, queue, polled>>
    BY <1>4 DEF ReadEnds, Sleep
  <2> QED BY <2>1, Times DEF SpacedInv
<1>5. ASSUME \E s \in Settings : Reconfigure(s)
      PROVE  SpacedInv' /\ Spaced
  BY <1>5 DEF Reconfigure, SpacedInv
<1>6. CASE Tick
  BY <1>6, Times DEF Tick, SpacedInv
<1>7. CASE UNCHANGED vars
  BY <1>7 DEF vars, SpacedInv
<1> QED BY <1>1, <1>2, <1>3, <1>4, <1>5, <1>6, <1>7 DEF Next

(* A call that enters reads from now on, or waits.                          *)
LEMMA EnterClock ==
    ASSUME TypeOK, ClockInv, NEW call \in Calls, UNCHANGED <<now, config, lastTrend, trended>>,
           Begin(call) \/ read' = read
    PROVE  read' # None => /\ now' <= read'.start + MaxRead
                           /\ trended' <= read'.start
                           /\ read'.due => read'.trends /\ TrendsDue'
<1>1. TrendsDue' <=> TrendsDue
  BY DEF TrendsDue
<1>2. CASE Begin(call)
  <2>1. read'.start = now /\ (read'.due => read'.trends /\ TrendsDue)
    BY <1>2, Begun
  <2> QED BY <1>1, <2>1, Times
<1>3. CASE read' = read
  BY <1>1, <1>3 DEF ClockInv
<1> QED BY <1>2, <1>3

LEMMA NextClock ==
    ASSUME TypeOK, ClockInv, [Next]_vars
    PROVE  ClockInv'
<1>1. ASSUME NEW h \in Handlers, NEW force \in BOOLEAN, Refresh(h, force)
      PROVE  ClockInv'
  <2>1. UNCHANGED <<now, config, lastTrend, wake, trended>>
        /\ (Begin([by |-> h, force |-> force]) \/ read' = read)
    BY <1>1 DEF Refresh, Enter
  <2> QED BY <2>1, NewCalls, EnterClock DEF ClockInv
<1>2. CASE Wake
  <2>1. UNCHANGED <<now, config, lastTrend, trended>> /\ wake' = None
        /\ (Begin([by |-> "poll", force |-> FALSE]) \/ read' = read)
    BY <1>2 DEF Wake, Enter
  <2> QED BY <2>1, NewCalls, EnterClock DEF ClockInv
<1>3. CASE TakeTurn
  <2>1. UNCHANGED <<now, config, lastTrend, wake, trended>>
        /\ Begin(Head(queue)) /\ Head(queue) \in Calls
    BY <1>3, QueueShrinks DEF TakeTurn, TypeOK
  <2> QED BY <2>1, EnterClock DEF ClockInv
<1>4. ASSUME NEW ok \in BOOLEAN, ReadEnds(ok)
      PROVE  ClockInv'
  <2>1. lastTrend' = trended'
    BY <1>4 DEF ReadEnds, Stamp, ClockInv
  <2>2. /\ wake' = (IF read.by = "poll" THEN now + config.poll ELSE wake)
        /\ read' = None /\ now' = now
    BY <1>4 DEF ReadEnds, Sleep
  <2> QED BY <2>1, <2>2, Times DEF ClockInv
<1>5. ASSUME NEW s \in Settings, Reconfigure(s)
      PROVE  ClockInv'
  BY <1>5 DEF Reconfigure, ClockInv
<1>6. CASE Tick
  <2>1. now' = now + 1 /\ UNCHANGED <<config, lastTrend, wake, read, trended>>
        /\ wake # now /\ (read # None => now < read.start + MaxRead)
    BY <1>6 DEF Tick
  <2>2. TrendsDue => TrendsDue'
    BY <2>1, Times DEF TrendsDue
  <2>3. wake # None => wake' \in now'..now' + MaxPoll
    BY <2>1, Times DEF ClockInv
  <2>4. read # None => now' <= read.start + MaxRead
    BY <2>1, Times
  <2> QED BY <2>1, <2>2, <2>3, <2>4 DEF ClockInv
<1>7. CASE UNCHANGED vars
  BY <1>7 DEF vars, ClockInv, TrendsDue
<1> QED BY <1>1, <1>2, <1>3, <1>4, <1>5, <1>6, <1>7 DEF Next


-----------------------------------------------------------------------------
(* The poll task's turn comes *)

(* Turns add up.                                                            *)
LEMMA TurnsCount ==
    /\ Turns(0) = 0 /\ MaxWait = Turns(Cardinality(Handlers)) /\ MaxWait \in Nat
    /\ \A n \in Nat : Turns(n) \in Nat /\ Turns(n + 1) = Turns(n) + MaxRead
    /\ \A m, n \in Nat : m <= n => Turns(m) <= Turns(n)
<1>1. MaxRead \in Nat /\ Cardinality(Handlers) \in Nat
  BY CadenceAssumption, FS_CardinalityType
<1>2. \A n \in Nat : Turns(n) \in Nat /\ Turns(n + 1) = Turns(n) + MaxRead
  BY <1>1 DEF Turns
<1>3. ASSUME NEW m \in Nat, NEW n \in Nat, m <= n PROVE Turns(m) <= Turns(n)
  <2>1. PICK k \in Nat : n = m + k
    <3>1. n - m \in Nat /\ n = m + (n - m)
      BY <1>3
    <3> QED BY <3>1
  <2>2. Turns(n) = Turns(m) + Turns(k) /\ Turns(k) \in Nat /\ Turns(m) \in Nat
    BY <1>1, <2>1 DEF Turns
  <2> QED BY <2>2
<1>4. Turns(0) = 0 /\ MaxWait = Turns(Cardinality(Handlers)) /\ MaxWait \in Nat
  BY <1>1 DEF Turns, MaxWait
<1> QED BY <1>2, <1>3, <1>4

LEMMA Bounds ==
    ASSUME TypeOK
    PROVE  /\ now \in Nat /\ MaxWait \in Nat /\ MaxRead \in Nat /\ MaxPoll \in Nat /\ MaxTrend \in Nat
           /\ wake # None => wake \in Nat
           /\ read # None => read.start \in Nat /\ read.start <= now
           /\ Len(queue) \in Nat
<1>1. MaxWait \in Nat
  BY TurnsCount
<1>2. read # None => read.start \in Nat /\ read.start <= now
  BY Times
<1> QED BY <1>1, <1>2, Times

(* Until its read ends, the time by which the poll task reads next stands.  *)
LEMMA NextPollKept ==
    ASSUME TypeOK, CallersOnce, PollTaskIsLive, ClockInv, [Next]_vars,
           NEW t \in Nat, NextPollBy(t),
           read # None /\ read.by = "poll" => read' # None
    PROVE  NextPollBy(t)'
<1>1. ASSUME NEW h \in Handlers, NEW force \in BOOLEAN, Refresh(h, force)
      PROVE  NextPollBy(t)'
  <2> DEFINE call == [by |-> h, force |-> force]
  <2>1. call \in Calls /\ call.by # "poll" /\ UNCHANGED <<now, wake>> /\ Enter(call)
    BY <1>1, NewCalls DEF Refresh
  <2> HIDE DEF call
  <2>2. CASE read = None /\ queue = <<>>
    BY <2>1, <2>2, Begun DEF Enter, NextPollBy
  <2>3. CASE ~(read = None /\ queue = <<>>)
    <3>1. /\ read' = read /\ Len(queue) \in Nat /\ Len(queue') = Len(queue) + 1
          /\ queue'[Len(queue) + 1] = call /\ \A i \in 1..Len(queue) : queue'[i] = queue[i]
      BY <2>1, <2>3, QueueGrows DEF Enter, TypeOK
    <3> QED BY <2>1, <3>1 DEF NextPollBy
  <2> QED BY <2>2, <2>3
<1>2. CASE Wake
  <2> DEFINE call == [by |-> "poll", force |-> FALSE]
  <2>1. call \in Calls /\ call.by = "poll" /\ now' = now /\ wake' = None /\ wake = now /\ Enter(call)
    BY <1>2, NewCalls DEF Wake
  <2> HIDE DEF call
  <2>2. now <= t /\ ~Pending("poll")
    BY <2>1, NoneAssumption, Times DEF NextPollBy, PollTaskIsLive
  <2>3. CASE read = None /\ queue = <<>>
    <3>1. queue' = <<>> /\ read'.start = now
      BY <2>1, <2>3, Begun DEF Enter
    <3> QED BY <2>1, <2>2, <3>1, Bounds DEF NextPollBy
  <2>4. CASE ~(read = None /\ queue = <<>>)
    <3>1. /\ read' = read /\ Len(queue) \in Nat /\ Len(queue') = Len(queue) + 1
          /\ \A i \in 1..Len(queue) : queue'[i] = queue[i]
      BY <2>1, <2>4, QueueGrows DEF Enter, TypeOK
    <3>2. \A i \in 1..Len(queue') : queue'[i].by = "poll" => i = Len(queue) + 1
      BY <2>2, <3>1 DEF Pending
    <3>3. read = None => now + Turns(Len(queue)) <= t + MaxWait
      <4>1. read = None => Len(queue) <= Cardinality(Handlers) /\ Cardinality(Handlers) \in Nat
        BY <2>2, <3>1, FewWait
      <4>2. read = None => Turns(Len(queue)) <= MaxWait
        BY <3>1, <4>1, TurnsCount
      <4>3. Turns(Len(queue)) \in Nat
        BY <3>1, TurnsCount
      <4> QED BY <2>2, <3>1, <4>2, <4>3, Bounds
    <3>4. read # None => read.start + Turns(Len(queue) + 1) <= t + MaxWait
      <4>1. read # None => Len(queue) + 1 <= Cardinality(Handlers) /\ Cardinality(Handlers) \in Nat
        BY <2>2, <3>1, FewWait
      <4>2. read # None => Turns(Len(queue) + 1) <= MaxWait
        BY <3>1, <4>1, TurnsCount
      <4>3. Turns(Len(queue) + 1) \in Nat
        BY <3>1, TurnsCount
      <4> QED BY <2>2, <4>2, <4>3, Bounds
    <3>5. \A i \in 1..Len(queue') : queue'[i].by = "poll" =>
             IF read' = None THEN now' + Turns(i - 1) <= t + MaxWait
             ELSE read'.start + Turns(i) <= t + MaxWait
      <4> SUFFICES ASSUME NEW i \in 1..Len(queue'), queue'[i].by = "poll"
                   PROVE  IF read' = None THEN now' + Turns(i - 1) <= t + MaxWait
                          ELSE read'.start + Turns(i) <= t + MaxWait
        OBVIOUS
      <4>1. i = Len(queue) + 1 /\ i - 1 = Len(queue)
        BY <3>1, <3>2
      <4> QED BY <2>1, <3>1, <3>3, <3>4, <4>1
    <3>6. read' # None => read'.by # "poll"
      BY <2>2, <3>1 DEF Pending
    <3> QED BY <2>1, <3>5, <3>6 DEF NextPollBy
  <2> QED BY <2>3, <2>4
<1>3. CASE TakeTurn
  <2>1. /\ Len(queue) \in Nat \ {0} /\ Len(queue') = Len(queue) - 1
        /\ read = None /\ read' # None /\ read'.by = queue[1].by /\ read'.start = now
        /\ UNCHANGED <<now, wake>> /\ \A i \in 1..Len(queue') : queue'[i] = queue[i + 1]
    BY <1>3, QueueShrinks, Begun DEF TakeTurn, TypeOK
  <2>2. ASSUME queue[1].by = "poll" PROVE now <= t + MaxWait
    <3>1. 1 \in 1..Len(queue) /\ 1 - 1 = 0
      BY <2>1
    <3>2. now + Turns(0) <= t + MaxWait
      BY <2>1, <2>2, <3>1 DEF NextPollBy
    <3> QED BY <3>2, TurnsCount, Times
  <2>3. ASSUME NEW i \in 1..Len(queue'), queue'[i].by = "poll"
        PROVE  now + Turns(i) <= t + MaxWait
    <3>1. i + 1 \in 1..Len(queue) /\ (i + 1) - 1 = i /\ queue[i + 1].by = "poll"
      BY <2>1, <2>3
    <3> QED BY <2>1, <3>1 DEF NextPollBy
  <2> QED BY <2>1, <2>2, <2>3 DEF NextPollBy
<1>4. ASSUME NEW ok \in BOOLEAN, ReadEnds(ok)
      PROVE  NextPollBy(t)'
  <2>1. /\ read # None /\ read.by # "poll" /\ wake' = wake /\ read' = None
        /\ UNCHANGED <<now, queue>>
    BY <1>4 DEF ReadEnds, Sleep
  <2>2. ASSUME NEW i \in 1..Len(queue), queue[i].by = "poll"
        PROVE  now + Turns(i - 1) <= t + MaxWait
    <3>1. i - 1 \in Nat /\ (i - 1) + 1 = i
      BY Times
    <3>2. Turns(i) = Turns(i - 1) + MaxRead /\ Turns(i - 1) \in Nat
      BY <3>1, TurnsCount
    <3>3. read.start + Turns(i) <= t + MaxWait /\ now <= read.start + MaxRead
      BY <2>1, <2>2 DEF NextPollBy, ClockInv
    <3> QED BY <2>1, <3>2, <3>3, Bounds
  <2> QED BY <2>1, <2>2 DEF NextPollBy
<1>5. ASSUME (\E s \in Settings : Reconfigure(s)) \/ UNCHANGED vars
      PROVE  NextPollBy(t)'
  BY <1>5 DEF Reconfigure, vars, NextPollBy
<1>6. CASE Tick
  <2>1. UNCHANGED <<wake, queue, read>> /\ (read = None => queue = <<>>)
    BY <1>6 DEF Tick
  <2> QED BY <2>1 DEF NextPollBy
<1> QED BY <1>1, <1>2, <1>3, <1>4, <1>5, <1>6 DEF Next

(* So by then, or a read later, it is over.                                 *)
LEMMA PollInTime ==
    ASSUME TypeOK, PollTaskIsLive, ClockInv, NEW t \in Nat, NextPollBy(t)
    PROVE  now <= t + MaxWait + MaxRead
<1>1. CASE wake # None
  <2>1. now <= wake /\ wake <= t
    BY <1>1, Bounds DEF ClockInv, NextPollBy
  <2> QED BY <1>1, <2>1, Bounds
<1>2. CASE read # None /\ read.by = "poll"
  <2>1. now <= read.start + MaxRead /\ read.start <= t + MaxWait
    BY <1>2 DEF ClockInv, NextPollBy
  <2> QED BY <1>2, <2>1, Bounds
<1>3. ASSUME NEW i \in 1..Len(queue), queue[i].by = "poll"
      PROVE  now <= t + MaxWait + MaxRead
  <2>1. i - 1 \in Nat /\ (i - 1) + 1 = i
    BY Bounds
  <2>2. Turns(i) = Turns(i - 1) + MaxRead /\ Turns(i - 1) \in Nat
    BY <2>1, TurnsCount
  <2>3. CASE read = None
    <3>1. now + Turns(i - 1) <= t + MaxWait
      BY <1>3, <2>3 DEF NextPollBy
    <3> QED BY <2>2, <3>1, Bounds
  <2>4. CASE read # None
    <3>1. read.start + Turns(i) <= t + MaxWait /\ now <= read.start + MaxRead
      BY <1>3, <2>4 DEF NextPollBy, ClockInv
    <3> QED BY <2>2, <2>4, <3>1, Bounds
  <2> QED BY <2>3, <2>4
<1> QED BY <1>1, <1>2, <1>3 DEF PollTaskIsLive, Pending


(* A later time will do as well.                                            *)
LEMMA NextPollLater ==
    ASSUME TypeOK', NEW t \in Nat, NEW u \in Nat, t <= u
    PROVE  NextPollBy(t)' => NextPollBy(u)'
<1>1. /\ now' \in Nat /\ Len(queue') \in Nat
      /\ wake' # None => wake' \in Nat
      /\ read' # None => read'.start \in Nat
  BY DEF TypeOK, Reads
<1>2. \A n \in Nat : n <= t => n <= u
  OBVIOUS
<1>3. \A n \in Nat : n <= t + MaxWait => n <= u + MaxWait
  <2>1. MaxWait \in Nat
    BY TurnsCount
  <2> QED BY <2>1
<1>4. ASSUME NEW i \in 1..Len(queue')
      PROVE  /\ now' + Turns(i - 1) \in Nat
             /\ read' # None => read'.start + Turns(i) \in Nat
  <2>1. i - 1 \in Nat /\ i \in Nat
    BY <1>1
  <2>2. Turns(i - 1) \in Nat /\ Turns(i) \in Nat
    BY <2>1, TurnsCount
  <2> QED BY <1>1, <2>2
<1> QED BY <1>1, <1>2, <1>3, <1>4 DEF NextPollBy

(* What the steps that end no read leave alone.                             *)
LEMMA Quiet ==
    ASSUME TypeOK, [Next]_vars, \A ok \in BOOLEAN : ~ReadEnds(ok)
    PROVE  /\ UNCHANGED <<lastTrend, trended, failed>> /\ overdue' \in {overdue, None}
           /\ overdue' # None => config' = config /\ now' >= now
           /\ read' = read \/ (/\ read = None /\ UNCHANGED <<now, config>>
                               /\ \E call \in Calls : Begin(call))
<1>1. ASSUME NEW h \in Handlers, NEW force \in BOOLEAN, Refresh(h, force)
      PROVE  /\ UNCHANGED <<now, config, lastTrend, trended, failed, overdue>>
             /\ read' = read \/ (read = None /\ \E call \in Calls : Begin(call))
  BY <1>1, NewCalls DEF Refresh, Enter
<1>2. CASE Wake
  <2>1. /\ UNCHANGED <<now, config, lastTrend, trended, failed, overdue>>
        /\ read' = read \/ (read = None /\ \E call \in Calls : Begin(call))
    BY <1>2, NewCalls DEF Wake, Enter
  <2> QED BY <2>1, Bounds
<1>3. CASE TakeTurn
  <2>1. UNCHANGED <<now, config, lastTrend, trended, failed, overdue>>
        /\ read = None /\ Begin(Head(queue)) /\ Head(queue) \in Calls
    BY <1>3, QueueShrinks DEF TakeTurn, TypeOK
  <2> QED BY <2>1, Bounds
<1>4. ASSUME NEW s \in Settings, Reconfigure(s)
      PROVE  UNCHANGED <<lastTrend, trended, failed, read>> /\ overdue' = None
  BY <1>4 DEF Reconfigure
<1>5. CASE Tick
  BY <1>5, Bounds DEF Tick
<1>6. CASE UNCHANGED vars
  BY <1>6, Bounds DEF vars
<1> QED BY <1>1, <1>2, <1>3, <1>4, <1>5, <1>6, Bounds DEF Next

(* No reading and no failure is taken back.                                 *)
LEMMA LastTriedGrows ==
    ASSUME TypeOK, ClockInv, [Next]_vars
    PROVE  /\ LastTried \in Nat /\ LastTried' \in Nat /\ LastTried <= LastTried'
           /\ trended <= LastTried /\ trended' <= LastTried' /\ failed' <= LastTried'
<1>1. trended \in Nat /\ failed \in Nat /\ failed <= now /\ now \in Nat
  BY Times
<1>2. trended' \in Nat /\ failed' \in Nat /\ trended <= trended' /\ failed <= failed'
  <2>1. ASSUME NEW ok \in BOOLEAN, ReadEnds(ok)
        PROVE  trended' \in Nat /\ failed' \in Nat /\ trended <= trended' /\ failed <= failed'
    <3>1. read # None /\ read.start \in Nat /\ trended <= read.start
      BY <2>1, Bounds DEF ReadEnds, ClockInv
    <3> QED BY <1>1, <2>1, <3>1 DEF ReadEnds
  <2> QED BY <1>1, <2>1, Quiet
<1> QED BY <1>1, <1>2 DEF LastTried

(* The poll task has read the trends, or has left them out when they were   *)
(* not due: the one and the other set the time of its next read.            *)
LEMMA NextFresh ==
    ASSUME TypeOK, TypeOK', CallersOnce, PollTaskIsLive, ClockInv, FreshInv, [Next]_vars
    PROVE  FreshInv'
<1>1. /\ LastTried \in Nat /\ LastTried' \in Nat /\ LastTried <= LastTried'
      /\ trended <= LastTried /\ trended' <= LastTried' /\ failed' <= LastTried'
  BY LastTriedGrows
<1>2. PICK u \in Nat : u = LastTried' + MaxTrend + MaxRead + MaxPoll
  BY <1>1, Bounds
<1>3. CASE read # None /\ read.by = "poll" /\ \E ok \in BOOLEAN : ReadEnds(ok)
  <2>1. PICK ok \in BOOLEAN : ReadEnds(ok)
    BY <1>3
  <2>2. /\ wake' = now + config.poll /\ read' = None /\ queue' = queue
        /\ trended' = (IF ok /\ read.trends THEN read.start ELSE trended)
        /\ failed' = (IF ok THEN failed ELSE now)
    BY <1>3, <2>1 DEF ReadEnds, Sleep
  <2>3. read.start <= LastTried' + MaxTrend
    <3>1. CASE ok /\ read.trends
      BY <1>1, <1>3, <2>2, <3>1, Bounds
    <3>2. CASE ok /\ ~read.trends
      <4>1. read.start <= LastTried + MaxTrend
        BY <1>3, <3>2 DEF FreshInv
      <4> QED BY <1>1, <1>3, <4>1, Bounds
    <3>3. CASE ~ok
      BY <1>1, <1>3, <2>2, <3>3, Bounds
    <3> QED BY <3>1, <3>2, <3>3
  <2>4. wake' <= u
    <3>1. now <= read.start + MaxRead
      BY <1>3 DEF ClockInv
    <3>2. config.poll <= MaxPoll /\ config.poll \in Nat /\ now \in Nat
      BY Times
    <3>3. read.start \in Nat
      BY <1>3, Bounds
    <3>4. MaxTrend \in Nat /\ MaxRead \in Nat /\ MaxPoll \in Nat
      BY Bounds
    <3>5. PICK n \in Nat : n = LastTried'
      BY <1>1
    <3>6. PICK s \in Nat : s = read.start
      BY <3>3
    <3>7. PICK d \in Nat : d = config.poll
      BY <3>2
    <3>8. now <= s + MaxRead /\ s <= n + MaxTrend /\ d <= MaxPoll
      BY <2>3, <3>1, <3>2, <3>5, <3>6, <3>7
    <3>9. now + d <= n + MaxTrend + MaxRead + MaxPoll
      BY <3>2, <3>4, <3>5, <3>6, <3>7, <3>8
    <3> QED BY <1>2, <2>2, <3>5, <3>7, <3>9
  <2>5. \A i \in 1..Len(queue') : queue'[i].by # "poll"
    BY <1>3, <2>2 DEF CallersOnce
  <2>6. NextPollBy(u)'
    BY <2>2, <2>4, <2>5 DEF NextPollBy
  <2> QED BY <1>2, <2>2, <2>6 DEF FreshInv, NextPollBy
<1>4. CASE ~(read # None /\ read.by = "poll" /\ \E ok \in BOOLEAN : ReadEnds(ok))
  <2>1. PICK t \in Nat : t = LastTried + MaxTrend + MaxRead + MaxPoll
    BY <1>1, Bounds
  <2>2. NextPollBy(t) /\ t <= u
    BY <1>1, <1>2, <2>1, Bounds DEF FreshInv
  <2>3. read # None /\ read.by = "poll" => read' # None
    BY <1>4, Quiet
  <2>4. NextPollBy(u)'
    BY <2>2, <2>3, NextPollKept, NextPollLater
  <2>5. read' # None /\ read'.by = "poll" => read'.trends \/ read'.start <= LastTried' + MaxTrend
    <3>1. CASE \E ok \in BOOLEAN : ReadEnds(ok)
      BY <3>1 DEF ReadEnds
    <3>2. CASE read' = read
      <4>1. read # None /\ read.by = "poll" => read.trends \/ read.start <= LastTried + MaxTrend
        BY DEF FreshInv
      <4>2. read # None => read.start \in Nat
        BY Bounds
      <4>3. read.start \in Nat /\ read.start <= LastTried + MaxTrend => read.start <= LastTried' + MaxTrend
        BY <1>1, Bounds
      <4> QED BY <3>2, <4>1, <4>2, <4>3
    <3>3. ASSUME NEW call \in Calls, Begin(call) 
          PROVE  read'.trends \/ read'.start <= LastTried' + MaxTrend
      <4>1. read'.start = now /\ (~read'.trends => ~TrendsDue)
        BY <3>3, Begun
      <4>2. ~TrendsDue => now <= LastTried' + MaxTrend
        BY <1>1, Times DEF TrendsDue, ClockInv
      <4> QED BY <4>1, <4>2
    <3> QED BY <3>1, <3>2, <3>3, Quiet
  <2> QED BY <1>2, <2>4, <2>5 DEF FreshInv, NextPollBy
<1> QED BY <1>3, <1>4

(* Trends that were due when a read failed are due for the next one.        *)
LEMMA NextRetry ==
    ASSUME TypeOK, TypeOK', CallersOnce, CallersOnce', PollTaskIsLive, ClockInv, RetryInv, [Next]_vars
    PROVE  RetryInv'
<1> SUFFICES ASSUME overdue' # None PROVE RetryInv'
  BY DEF RetryInv
<1>1. overdue' \in Nat
  BY DEF TypeOK
<1>2. PICK u \in Nat : u = overdue' + MaxPoll
  BY <1>1, Bounds
<1>3. ASSUME NEW ok \in BOOLEAN, ReadEnds(ok)
      PROVE  RetryInv'
  <2>1. read # None /\ (overdue # None => read.due) /\ (read.due => read.trends /\ TrendsDue)
    BY <1>3 DEF ReadEnds, RetryInv, ClockInv
  <2>2. ~ok /\ read.due /\ overdue' = now
    BY <1>3, <2>1 DEF ReadEnds
  <2>3. /\ UNCHANGED <<now, config, lastTrend, queue>> /\ read' = None
        /\ wake' = (IF read.by = "poll" THEN now + config.poll ELSE wake)
    BY <1>3, <2>2 DEF ReadEnds, Stamp, Sleep
  <2>4. TrendsDue'
    BY <2>1, <2>2, <2>3 DEF TrendsDue
  <2>5. wake' # None => wake' <= u
    <3>1. wake # None => wake <= now + MaxPoll
      BY Bounds DEF ClockInv
    <3> QED BY <1>2, <2>2, <2>3, <3>1, Times
  <2>6. ASSUME NEW i \in 1..Len(queue') PROVE now' + Turns(i - 1) <= u + MaxWait
    <3>1. i - 1 \in Nat /\ i - 1 <= Cardinality(Handlers) /\ Cardinality(Handlers) \in Nat
      BY <2>3, FewWait, Bounds
    <3>2. Turns(i - 1) <= MaxWait /\ Turns(i - 1) \in Nat
      BY <3>1, TurnsCount
    <3> QED BY <1>2, <2>2, <2>3, <3>2, Bounds
  <2>7. NextPollBy(u)'
    BY <2>3, <2>5, <2>6 DEF NextPollBy
  <2> QED BY <1>2, <2>3, <2>4, <2>7 DEF RetryInv, NextPollBy
<1>4. CASE \A ok \in BOOLEAN : ~ReadEnds(ok)
  <2>1. /\ overdue' = overdue /\ overdue # None /\ UNCHANGED <<lastTrend, config>> /\ now' >= now
        /\ read' = read \/ (read = None /\ UNCHANGED now /\ \E call \in Calls : Begin(call))
    BY <1>4, Quiet
  <2>2. NextPollBy(u) /\ TrendsDue /\ (read # None => read.due)
    BY <1>2, <2>1 DEF RetryInv
  <2>3. NextPollBy(u)'
    <3>1. read # None /\ read.by = "poll" => read' # None
      BY <2>1
    <3> QED BY <2>2, <3>1, NextPollKept
  <2>4. TrendsDue'
    <3>1. now' \in Nat /\ config' \in Settings
      BY DEF TypeOK
    <3> QED BY <2>1, <2>2, <3>1, Times DEF TrendsDue
  <2>5. read' # None => read'.due
    BY <2>1, <2>2, Begun
  <2> QED BY <1>2, <2>1, <2>3, <2>4, <2>5 DEF RetryInv, NextPollBy
<1> QED BY <1>3, <1>4

-----------------------------------------------------------------------------
(* The invariant and the properties *)

LEMMA InitInv == Init => CadenceInv
<1> SUFFICES ASSUME Init PROVE CadenceInv
  OBVIOUS
<1>1. TypeOK
  BY InitTypes
<1>2. /\ now \in 0..MaxRead /\ wake = now + config.poll /\ wake # None /\ queue = <<>> /\ Len(queue) = 0
      /\ read = None /\ overdue = None /\ polled = now /\ trended = 0 /\ failed = 0 /\ lastTrend = 0
  BY <1>1, Times, NoneAssumption DEF Init
<1>3. CallersOnce /\ PollTaskIsLive
  BY <1>2 DEF CallersOnce, PollTaskIsLive, Pending
<1>4. SpacedInv
  BY <1>1, <1>2, Times DEF SpacedInv
<1>5. ClockInv
  BY <1>1, <1>2, Times DEF ClockInv
<1>6. LastTried = 0
  BY <1>2 DEF LastTried
<1>7. FreshInv
  BY <1>1, <1>2, <1>6, Times DEF FreshInv, NextPollBy
<1>8. RetryInv
  BY <1>2 DEF RetryInv
<1> QED BY <1>1, <1>3, <1>4, <1>5, <1>7, <1>8 DEF CadenceInv

LEMMA NextInv == CadenceInv /\ [Next]_vars => CadenceInv'
<1> SUFFICES ASSUME CadenceInv, [Next]_vars PROVE CadenceInv'
  OBVIOUS
<1> USE DEF CadenceInv
<1>1. TypeOK'
  BY NextTypes
<1>2. CallersOnce' /\ PollTaskIsLive'
  BY NextCallers
<1>3. SpacedInv' /\ ClockInv'
  BY NextSpaced, NextClock
<1>4. FreshInv' /\ RetryInv'
  BY <1>1, <1>2, NextFresh, NextRetry
<1> QED BY <1>1, <1>2, <1>3, <1>4

(* Whatever requests, failures and new intervals come between: callers wait *)
(* once, nothing happens before its time, and the next poll has a deadline. *)
THEOREM CadenceInvariant == Spec => []CadenceInv
<1> QED BY InitInv, NextInv, PTL DEF Spec

(* Every variable has its type.                                             *)
THEOREM CadenceTypeCorrect == Spec => []TypeOK
<1>1. CadenceInv => TypeOK
  BY DEF CadenceInv
<1> QED BY <1>1, CadenceInvariant, PTL

(* The poll task sleeps or waits for a reading, never both and never none.  *)
THEOREM PollTaskLives == Spec => []PollTaskIsLive
<1>1. CadenceInv => PollTaskIsLive
  BY DEF CadenceInv
<1> QED BY <1>1, CadenceInvariant, PTL

(* The poll task begins its reads at least MinPoll apart.                   *)
THEOREM PollsKeepApart == Spec => PollsAreSpaced
<1>1. CadenceInv /\ [Next]_vars =>
         [read = None /\ read' # None /\ read'.by = "poll" => now - polled >= MinPoll]_vars
  BY NextSpaced DEF CadenceInv
<1> QED BY <1>1, CadenceInvariant, PTL DEF Spec, PollsAreSpaced

(* Trends are never older than the intervals and the waiting account for.   *)
THEOREM TrendsStayFresh == Spec => []TrendsAreFresh
<1>1. CadenceInv => TrendsAreFresh
  <2> SUFFICES ASSUME CadenceInv PROVE TrendsAreFresh
    OBVIOUS
  <2> USE DEF CadenceInv
  <2>1. LastTried \in Nat
    BY Times DEF LastTried
  <2>2. PICK t \in Nat : t = LastTried + MaxTrend + MaxRead + MaxPoll
    BY <2>1, Bounds
  <2>3. now <= t + MaxWait + MaxRead
    BY <2>2, PollInTime DEF FreshInv
  <2> QED BY <2>1, <2>2, <2>3, Bounds DEF TrendsAreFresh
<1> QED BY <1>1, CadenceInvariant, PTL

(* Trends that were due when a read failed are tried by the next poll.      *)
THEOREM TrendsAreRetried == Spec => []FailedTrendsAreRetried
<1>1. CadenceInv => FailedTrendsAreRetried
  <2> SUFFICES ASSUME CadenceInv, overdue # None PROVE FailedTrendsAreRetried
    BY DEF FailedTrendsAreRetried
  <2> USE DEF CadenceInv
  <2>1. overdue \in Nat
    BY Times
  <2>2. PICK t \in Nat : t = overdue + MaxPoll
    BY <2>1, Bounds
  <2>3. now <= t + MaxWait + MaxRead
    BY <2>2, PollInTime DEF RetryInv
  <2> QED BY <2>1, <2>2, <2>3, Bounds DEF FailedTrendsAreRetried
<1> QED BY <1>1, CadenceInvariant, PTL
=============================================================================
