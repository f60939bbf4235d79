-------------------------- MODULE SenseCardsProofs --------------------------
(***************************************************************************)
(* Theorems about SenseCards for every set of readings and every number of *)
(* events on their way.                                                    *)
(***************************************************************************)
EXTENDS SenseCards, TLAPS

(* What the events on their way carry.                                      *)
LEMMA EventFields ==
    ASSUME NEW e \in Events
    PROVE  /\ e.kind \in {"point", "snapshot", "status", "error"}
           /\ e.kind = "point" => e.cap \in Capabilities /\ e.value \in Reported
           /\ e.kind = "snapshot" => e.states \in [Capabilities -> Values] /\ e.primary \in Values
BY DEF Events

(* Elements of an event queue that grows, or shrinks at its head.           *)
LEMMA QueueGrows ==
    ASSUME NEW s \in Seq(Events), NEW x \in Events
    PROVE  /\ Append(s, x) \in Seq(Events) /\ Append(s, x) # <<>>
           /\ Len(Append(s, x)) = Len(s) + 1 /\ Append(s, x)[Len(s) + 1] = x
           /\ \A i \in 1..Len(s) : Append(s, x)[i] = s[i] /\ s[i] \in Events
OBVIOUS

LEMMA QueueShrinks ==
    ASSUME NEW s \in Seq(Events), s # <<>>
    PROVE  /\ Tail(s) \in Seq(Events) /\ Len(Tail(s)) = Len(s) - 1 /\ Len(s) \in Nat \ {0}
           /\ Head(s) = s[1] /\ Head(s) \in Events
           /\ \A i \in 1..Len(s)-1 : Tail(s)[i] = s[i + 1]
OBVIOUS

(* The stream opens with two events.                                        *)
LEMMA QueueGrowsTwice ==
    ASSUME NEW s \in Seq(Events), NEW x \in Events, NEW y \in Events
    PROVE  s \o <<x, y>> = Append(Append(s, x), y)
OBVIOUS

(* The events the host makes are events.                                    *)
LEMMA NewEvents ==
    ASSUME TypeOK
    PROVE  /\ \A s \in {"connecting", "open", "reconnecting", "closed"} : Status(s) \in Events
           /\ Error \in Events /\ Snapshot \in Events
<1>1. Snapshot.states \in [Capabilities -> Values] /\ Snapshot.primary \in Values
  BY CapabilitiesAssumption DEF Snapshot, TypeOK, Values
<1> QED BY <1>1 DEF Status, Error, Snapshot, Events

(* What the reducer makes of one capability.                                *)
Filled(e, k) == IF e.states[k] = Absent THEN values[k] ELSE e.states[k]

LEMMA Reduced ==
    ASSUME TypeOK, NEW e \in Events
    PROVE  /\ Reduce(e) \in [Capabilities -> Values]
           /\ \A k \in Capabilities : Reduce(e)[k] =
                IF e.kind = "point" THEN IF k = e.cap THEN e.value ELSE values[k]
                ELSE IF e.kind = "snapshot"
                THEN IF k = Primary /\ Filled(e, k) = Absent THEN e.primary ELSE Filled(e, k)
                ELSE values[k]
<1>1. CASE e.kind = "point"
  BY <1>1, EventFields DEF Reduce, TypeOK, Values
<1>2. CASE e.kind = "snapshot"
  <2>1. Listed(e) \in [Capabilities -> Values] /\ \A k \in Capabilities : Listed(e)[k] = Filled(e, k)
    BY <1>2, EventFields DEF Listed, Filled, TypeOK
  <2> QED BY <1>2, <2>1, EventFields, CapabilitiesAssumption DEF Reduce
<1>3. CASE e.kind \notin {"point", "snapshot"}
  BY <1>3 DEF Reduce, TypeOK
<1> QED BY <1>1, <1>2, <1>3

-----------------------------------------------------------------------------
(* Types *)

(* A delivered event keeps the types of what the cards hold.                *)
LEMMA DeliverTypes ==
    ASSUME TypeOK, Deliver
    PROVE  TypeOK'
<1> DEFINE e == Head(queue)
<1>1. e \in Events /\ queue' \in Seq(Events) /\ Len(queue') <= MaxEvents
  BY QueueShrinks, EventsAssumption DEF TypeOK, Deliver
<1>2. values' = Reduce(e) /\ notice' = Describe(e) /\ flow' = FlowTexts(e) /\ slots' = Slots(e)
      /\ line' = Line(e)
  BY DEF Deliver
<1> HIDE DEF e
<1>3. values' \in [Capabilities -> Values]
  BY <1>1, <1>2, Reduced
<1>4. notice' \in {"hidden", "reconnecting", "unavailable"} /\ line' \in {"loading", "hidden", "error"}
  BY <1>2 DEF Describe, Line, TypeOK
<1>5. flow' \in [Capabilities -> Numbers \cup {Dash}]
  BY <1>2, ValuesAssumption DEF FlowTexts, AsNumber, TypeOK
<1>6. slots' \in [Capabilities -> Values \cup {Undefined}]
  <2>1. \A k \in Applied(e) : k \in Capabilities /\ SlotValue(e, k) \in Values \cup {Undefined}
    BY <1>1, EventFields DEF Applied, SlotValue, Values
  <2> QED BY <1>2, <2>1 DEF Slots, TypeOK
<1> QED BY <1>1, <1>3, <1>4, <1>5, <1>6 DEF TypeOK, Deliver, coreVars

(* So does everything Core, the stream and the host do.                     *)
LEMMA HostTypes ==
    ASSUME TypeOK,
           \/ \E k \in Capabilities, v \in Reported : CoreReports(k, v)
           \/ StreamLost \/ StreamConnects \/ StreamOpens \/ StreamGivenUp \/ HostError
    PROVE  TypeOK'
<1>0. queue \in Seq(Events) /\ Len(queue) <= MaxEvents /\ MaxEvents \in Nat /\ Len(queue) \in Nat
  BY EventsAssumption DEF TypeOK
<1>1. ASSUME NEW k \in Capabilities, NEW v \in Reported, CoreReports(k, v)
      PROVE  TypeOK'
  <2>1. core' \in [Capabilities -> Values] /\ core'[k] = v /\ seen' \in [Capabilities -> SUBSET Given]
    BY <1>1 DEF CoreReports, TypeOK, Values
  <2>2. Point(k) \in Events
    BY <2>1 DEF Point, Events
  <2>3. queue' \in Seq(Events) /\ Len(queue') <= MaxEvents
    BY <1>0, <1>1, <2>2 DEF CoreReports, Room
  <2> QED BY <1>1, <2>1, <2>3 DEF CoreReports, TypeOK, cardVars
<1>2. CASE StreamLost
  <2>1. PICK n \in 0..Len(queue) : n < MaxEvents /\ queue' = Append(SubSeq(queue, 1, n), Status("reconnecting"))
    BY <1>2 DEF StreamLost
  <2>2. SubSeq(queue, 1, n) \in Seq(Events) /\ Len(SubSeq(queue, 1, n)) = n
    BY <1>0, <2>1
  <2>3. queue' \in Seq(Events) /\ Len(queue') = n + 1
    BY <2>1, <2>2, NewEvents
  <2>4. Len(queue') <= MaxEvents
    BY <1>0, <2>1, <2>3
  <2> QED BY <1>2, <2>3, <2>4 DEF StreamLost, TypeOK, coreVars, cardVars
<1>3. CASE StreamOpens
  <2>1. queue' = Append(Append(queue, Status("open")), Snapshot)
    BY <1>0, <1>3, NewEvents, QueueGrowsTwice DEF StreamOpens
  <2>2. Append(queue, Status("open")) \in Seq(Events)
        /\ Len(Append(queue, Status("open"))) = Len(queue) + 1
    BY <1>0, NewEvents, QueueGrows
  <2>3. queue' \in Seq(Events) /\ Len(queue') = Len(queue) + 2
    BY <1>0, <2>1, <2>2, NewEvents, QueueGrows
  <2> QED BY <1>0, <1>3, <2>3 DEF StreamOpens, Room, TypeOK, coreVars, cardVars
<1>4. CASE StreamConnects \/ StreamGivenUp \/ HostError
  <2>1. queue' \in Seq(Events) /\ Len(queue') = Len(queue) + 1
    BY <1>0, <1>4, NewEvents DEF StreamConnects, StreamGivenUp, HostError
  <2> QED BY <1>0, <1>4, <2>1 DEF StreamConnects, StreamGivenUp, HostError, Room, TypeOK, coreVars, cardVars
<1> QED BY <1>1, <1>2, <1>3, <1>4

(* The initial state has the types. *)
LEMMA InitTypes == Init => TypeOK
<1> SUFFICES ASSUME Init PROVE TypeOK
  OBVIOUS
<1>1. Status("connecting") \in Events
  BY DEF Status, Events
<1>2. queue \in Seq(Events) /\ Len(queue) <= MaxEvents
  BY <1>1, EventsAssumption DEF Init
<1> QED BY <1>2 DEF Init, TypeOK, Values, Reported

-----------------------------------------------------------------------------
(* The steps, as far as the queue is concerned *)

(* What the host appends to the queue, or to the part of it that arrives.   *)
LEMMA HostQueue ==
    ASSUME TypeOK
    PROVE  /\ \A k \in Capabilities, v \in Reported : CoreReports(k, v) =>
                /\ Point(k) \in Events /\ Point(k) = [kind |-> "point", cap |-> k, value |-> v]
                /\ core'[k] = v /\ \A l \in Capabilities \ {k} : core'[l] = core[l]
                /\ seen'[k] = seen[k] \cup ({v} \cap Given)
                /\ \A l \in Capabilities \ {k} : seen'[l] = seen[l]
                /\ queue' = IF link = "open" THEN Append(queue, Point(k)) ELSE queue
           /\ StreamConnects => queue' = Append(queue, Status("connecting"))
           /\ StreamOpens => queue' = Append(Append(queue, Status("open")), Snapshot)
           /\ StreamGivenUp => queue' = Append(queue, Status("closed"))
           /\ HostError => queue' = Append(queue, Error)
           /\ StreamLost => \E s \in Seq(Events) :
                /\ queue' = Append(s, Status("reconnecting"))
                /\ \A i \in 1..Len(s) : i \in 1..Len(queue) /\ s[i] = queue[i]
<1>1. ASSUME NEW k \in Capabilities, NEW v \in Reported, CoreReports(k, v)
      PROVE  /\ Point(k) \in Events /\ Point(k) = [kind |-> "point", cap |-> k, value |-> v]
             /\ core'[k] = v /\ \A l \in Capabilities \ {k} : core'[l] = core[l]
             /\ seen'[k] = seen[k] \cup ({v} \cap Given)
             /\ \A l \in Capabilities \ {k} : seen'[l] = seen[l]
             /\ queue' = IF link = "open" THEN Append(queue, Point(k)) ELSE queue
  <2>1. /\ core'[k] = v /\ \A l \in Capabilities \ {k} : core'[l] = core[l]
        /\ seen'[k] = seen[k] \cup ({v} \cap Given)
        /\ \A l \in Capabilities \ {k} : seen'[l] = seen[l]
        /\ queue' = IF link = "open" THEN Append(queue, Point(k)) ELSE queue
    BY <1>1 DEF CoreReports, TypeOK
  <2> QED BY <2>1 DEF Point, Events
<1>2. StreamOpens => queue' = Append(Append(queue, Status("open")), Snapshot)
  BY NewEvents, QueueGrowsTwice DEF StreamOpens, TypeOK
<1>3. StreamLost => \E s \in Seq(Events) :
                /\ queue' = Append(s, Status("reconnecting"))
                /\ \A i \in 1..Len(s) : i \in 1..Len(queue) /\ s[i] = queue[i]
  <2> SUFFICES ASSUME StreamLost
               PROVE  \E s \in Seq(Events) :
                        /\ queue' = Append(s, Status("reconnecting"))
                        /\ \A i \in 1..Len(s) : i \in 1..Len(queue) /\ s[i] = queue[i]
    OBVIOUS
  <2>1. PICK n \in 0..Len(queue) : queue' = Append(SubSeq(queue, 1, n), Status("reconnecting"))
    BY DEF StreamLost
  <2>2. queue \in Seq(Events)
    BY DEF TypeOK
  <2>3. /\ SubSeq(queue, 1, n) \in Seq(Events)
        /\ \A i \in 1..Len(SubSeq(queue, 1, n)) :
              i \in 1..Len(queue) /\ SubSeq(queue, 1, n)[i] = queue[i]
    BY <2>1, <2>2
  <2> QED BY <2>1, <2>3
<1> QED BY <1>1, <1>2, <1>3 DEF StreamConnects, StreamGivenUp, HostError

-----------------------------------------------------------------------------
(* Nothing is invented *)

(* What the host sends, Core knows.                                         *)
LEMMA SentIsKnown ==
    ASSUME TypeOK, SeenInv
    PROVE  /\ \A s \in {"connecting", "open", "reconnecting", "closed"} : Known(Status(s), seen, primaryOnly)
           /\ Known(Error, seen, primaryOnly) /\ Known(Snapshot, seen, primaryOnly)
<1>1. /\ \A k \in Capabilities : {Snapshot.states[k]} \cap Given \subseteq seen[k]
      /\ {Snapshot.primary} \cap Given \subseteq seen[Primary]
      /\ Primary \notin primaryOnly => Snapshot.primary = Snapshot.states[Primary]
  BY ValuesAssumption, CapabilitiesAssumption DEF SeenInv, Snapshot, Given
<1> QED BY <1>1 DEF Known, Status, Error, Snapshot

(* A queue of known events that grows by one.                               *)
LEMMA KnownGrows ==
    ASSUME NEW s \in Seq(Events), NEW e \in Events, NEW had, NEW only, Known(e, had, only),
           \A i \in 1..Len(s) : Known(s[i], had, only)
    PROVE  \A i \in 1..Len(Append(s, e)) : Known(Append(s, e)[i], had, only)
BY QueueGrows

(* A delivered event shows what was sent.                                   *)
LEMMA DeliverSeen ==
    ASSUME TypeOK, SeenInv, Deliver
    PROVE  SeenInv'
<1> DEFINE e == Head(queue)
<1>1. /\ e \in Events /\ Known(e, seen, primaryOnly) /\ UNCHANGED coreVars
      /\ \A i \in 1..Len(queue') : Known(queue'[i], seen, primaryOnly)
  BY QueueShrinks DEF TypeOK, SeenInv, Deliver
<1>2. values' = Reduce(e) /\ flow' = FlowTexts(e)
  BY DEF Deliver
<1> HIDE DEF e
<1>3. \A k \in Capabilities : {Reduce(e)[k]} \cap Given \subseteq seen[k]
  <2>1. \A k \in Capabilities : {values[k]} \cap Given \subseteq seen[k]
    BY DEF SeenInv
  <2>2. \A k \in Capabilities : e.kind = "snapshot" => {Filled(e, k)} \cap Given \subseteq seen[k]
    BY <1>1, <2>1 DEF Filled, Known
  <2> QED BY <1>1, <2>1, <2>2, Reduced, EventFields DEF Known
<1>4. \A k \in Capabilities : flow'[k] \in {AsNumber(v) : v \in seen[k]} \cup {Dash}
  BY <1>2, <1>3 DEF FlowTexts, SeenInv
<1> QED BY <1>1, <1>2, <1>3, <1>4 DEF SeenInv, coreVars

(* What Core, the stream and the host do leaves only what was Core's.       *)
LEMMA HostSeen ==
    ASSUME TypeOK, SeenInv,
           \/ \E k \in Capabilities, v \in Reported : CoreReports(k, v)
           \/ StreamLost \/ StreamConnects \/ StreamOpens \/ StreamGivenUp \/ HostError
    PROVE  SeenInv'
<1>0. queue \in Seq(Events) /\ \A i \in 1..Len(queue) : Known(queue[i], seen, primaryOnly)
  BY DEF TypeOK, SeenInv
<1>1. ASSUME NEW k \in Capabilities, NEW v \in Reported, CoreReports(k, v)
      PROVE  SeenInv'
  <2>1. UNCHANGED <<primaryOnly, cardVars>> /\ \A l \in Capabilities : seen[l] \subseteq seen'[l]
    BY <1>1, HostQueue DEF CoreReports
  <2>2. \A i \in 1..Len(queue) : Known(queue[i], seen', primaryOnly)
    BY <1>0, <2>1, EventFields, CapabilitiesAssumption DEF Known
  <2>3. Known(Point(k), seen', primaryOnly)
    BY <1>1, HostQueue DEF Known
  <2>4. \A i \in 1..Len(queue') : Known(queue'[i], seen', primaryOnly)
    BY <1>0, <1>1, <2>2, <2>3, HostQueue, KnownGrows
  <2>5. \A l \in Capabilities : /\ {core'[l], values'[l]} \cap Given \subseteq seen'[l]
                                /\ flow'[l] \in {AsNumber(w) : w \in seen'[l]} \cup {Dash}
    BY <1>1, <2>1, HostQueue DEF SeenInv, cardVars
  <2> QED BY <2>1, <2>4, <2>5 DEF SeenInv
<1>2. CASE StreamLost \/ StreamConnects \/ StreamOpens \/ StreamGivenUp \/ HostError
  <2>1. UNCHANGED <<coreVars, cardVars>>
    BY <1>2 DEF StreamLost, StreamConnects, StreamOpens, StreamGivenUp, HostError
  <2>2. \A i \in 1..Len(queue') : Known(queue'[i], seen, primaryOnly)
    <3>1. CASE StreamLost
      BY <1>0, <3>1, HostQueue, NewEvents, SentIsKnown, KnownGrows
    <3>2. CASE StreamOpens
      <4>1. Append(queue, Status("open")) \in Seq(Events)
        BY <1>0, NewEvents
      <4>2. \A i \in 1..Len(Append(queue, Status("open"))) :
               Known(Append(queue, Status("open"))[i], seen, primaryOnly)
        BY <1>0, NewEvents, SentIsKnown, KnownGrows
      <4> QED BY <3>2, <4>1, <4>2, HostQueue, NewEvents, SentIsKnown, KnownGrows
    <3>3. CASE StreamConnects \/ StreamGivenUp \/ HostError
      BY <1>0, <3>3, HostQueue, NewEvents, SentIsKnown, KnownGrows
    <3> QED BY <1>2, <3>1, <3>2, <3>3
  <2> QED BY <2>1, <2>2 DEF SeenInv, coreVars, cardVars
<1> QED BY <1>1, <1>2

-----------------------------------------------------------------------------
(* A loss is announced *)

(* The last event on its way stays the last until it is delivered.          *)
LEMMA DeliverNotice ==
    ASSUME TypeOK, NoticeInv, Deliver
    PROVE  NoticeInv'
<1> DEFINE e == Head(queue)
<1>1. /\ queue # <<>> /\ queue \in Seq(Events) /\ queue' = Tail(queue)
      /\ UNCHANGED <<link, troubled, core, primaryOnly>>
      /\ notice' = Describe(e) /\ line' = Line(e)
  BY DEF Deliver, TypeOK, coreVars
<1> HIDE DEF e
<1>2. /\ Len(queue) \in Nat \ {0} /\ Len(queue') = Len(queue) - 1 /\ queue' \in Seq(Events)
      /\ e = queue[1] /\ \A i \in 1..Len(queue') : queue'[i] = queue[i + 1]
  BY <1>1, QueueShrinks DEF e
<1>3. CASE Len(queue) = 1
  <2>1. queue' = <<>> /\ Newest = e
    BY <1>2, <1>3 DEF Newest
  <2>2. /\ Newest.kind = "error" => Describe(Newest) # "hidden" /\ line' = "error"
        /\ IsReading(Newest) => Describe(Newest) = "hidden"
    <3>1. Newest \in Events
      BY <1>1, <1>2, <1>3 DEF Newest
    <3>2. Newest.kind = "error" => Newest = Error
      BY <3>1 DEF Events, Error
    <3>3. Newest.kind = "error" => Line(Newest) = "error"
      <4>1. Newest.kind = "error" => Applied(Newest) = {}
        BY DEF Applied
      <4> QED BY <4>1 DEF Line
    <3>4. IsReading(Newest) => Describe(Newest) = "hidden"
      BY DEF IsReading, Describe, Status, Error
    <3> QED BY <1>1, <2>1, <3>2, <3>3, <3>4 DEF Describe
  <2>3. Applied(Newest) # {} => line' = "hidden"
    <3>1. Applied(e) # {} => Line(e) = "hidden"
      <4>1. Applied(e) # {} => e.kind # "error"
        BY DEF Applied
      <4> QED BY <4>1 DEF Line
    <3> QED BY <1>1, <2>1, <3>1
  <2> QED BY <1>1, <2>1, <2>2, <2>3 DEF NoticeInv, Listable
<1>4. CASE Len(queue) # 1
  <2>1. queue' # <<>> /\ Newest' = Newest
    <3>1. Len(queue') \in 1..Len(queue') /\ Len(queue') + 1 = Len(queue)
      BY <1>2, <1>4
    <3> QED BY <1>2, <3>1 DEF Newest
  <2> QED BY <1>1, <2>1, <1>2, <1>4 DEF NoticeInv, Listable
<1> QED BY <1>3, <1>4

(* What the host adds announces a loss, or is something to read.            *)
LEMMA HostNotice ==
    ASSUME TypeOK, NoticeInv,
           \/ \E k \in Capabilities, v \in Reported : CoreReports(k, v)
           \/ StreamLost \/ StreamConnects \/ StreamOpens \/ StreamGivenUp \/ HostError
    PROVE  NoticeInv'
<1>0. queue \in Seq(Events) /\ link \in {"connecting", "open", "down", "closed"}
  BY DEF TypeOK
<1>1. ASSUME NEW s \in Seq(Events), NEW e \in Events, queue' = Append(s, e)
      PROVE  queue' # <<>> /\ Newest' = e
  BY <1>1, QueueGrows DEF Newest
<1>2. ASSUME NEW k \in Capabilities, NEW v \in Reported, CoreReports(k, v)
      PROVE  NoticeInv'
  <2>1. link' = link /\ UNCHANGED <<notice, line>>
    BY <1>2 DEF CoreReports, cardVars
  <2>2. CASE link = "open"
    <3>1. queue' # <<>> /\ Newest' = Point(k) /\ Point(k).kind = "point" /\ Point(k).cap = k
      BY <1>0, <1>1, <1>2, <2>2, HostQueue
    <3>2. Applied(Point(k)) = {k}
      BY <3>1 DEF Applied
    <3>3. ~troubled' /\ IsReading(Newest')
      BY <1>2, <3>1 DEF CoreReports, IsReading
    <3> QED BY <2>1, <2>2, <3>1, <3>2, <3>3 DEF NoticeInv
  <2>3. CASE link # "open"
    <3>1. queue' = queue
      BY <1>2, <2>3, HostQueue
    <3> QED BY <2>1, <2>3, <3>1 DEF NoticeInv, Newest
  <2> QED BY <2>2, <2>3
<1>3. CASE StreamLost
  <2>1. queue' # <<>> /\ Newest' = Status("reconnecting") /\ link' = "down"
    BY <1>1, <1>3, HostQueue, NewEvents DEF StreamLost
  <2>2. Describe(Status("reconnecting")) # "hidden"
    BY DEF Describe
  <2> QED BY <2>1, <2>2 DEF NoticeInv
<1>4. CASE StreamGivenUp
  <2>1. queue' # <<>> /\ Newest' = Status("closed") /\ link' = "closed"
    BY <1>0, <1>1, <1>4, HostQueue, NewEvents DEF StreamGivenUp
  <2>2. Describe(Status("closed")) # "hidden"
    BY DEF Describe, Status
  <2> QED BY <2>1, <2>2 DEF NoticeInv
<1>5. CASE StreamOpens
  <2>1. Append(queue, Status("open")) \in Seq(Events)
    BY <1>0, NewEvents
  <2>2. queue' # <<>> /\ Newest' = Snapshot /\ link' = "open" /\ UNCHANGED <<core, primaryOnly>>
    BY <1>1, <1>5, <2>1, HostQueue, NewEvents DEF StreamOpens, coreVars
  <2>3. Snapshot.kind = "snapshot" /\ \A k \in Capabilities \ primaryOnly : Snapshot.states[k] = core[k]
    BY DEF Snapshot
  <2>4. Listable \subseteq Applied(Snapshot)
    BY <2>3 DEF Listable, Applied
  <2>5. ~troubled' /\ IsReading(Snapshot)
    BY <1>5, <2>3 DEF StreamOpens, IsReading
  <2> QED BY <2>2, <2>4, <2>5 DEF NoticeInv, Listable
<1>6. CASE HostError
  <2>1. /\ queue' # <<>> /\ Newest' = Error /\ link' = link /\ link # "closed"
        /\ link = "open" => troubled'
    BY <1>0, <1>1, <1>6, HostQueue, NewEvents DEF HostError
  <2>2. Describe(Error) # "hidden" /\ Error.kind = "error"
    BY DEF Describe, Error
  <2> QED BY <2>1, <2>2 DEF NoticeInv
<1>7. CASE StreamConnects
  BY <1>7 DEF StreamConnects, NoticeInv
<1> QED BY <1>2, <1>3, <1>4, <1>5, <1>6, <1>7


-----------------------------------------------------------------------------
(* The cards catch up with Core *)

(* An event that sets a capability makes the reducer and the overview hold  *)
(* what it carries; one that does not set it changes nothing of it.         *)
LEMMA EventShows ==
    ASSUME TypeOK, NEW e \in Events, NEW k \in Capabilities
    PROVE  /\ \A v \in Values : Sets(e, k) /\ Carries(e, k, v) =>
                 Reduce(e)[k] = v /\ (v \in Numbers => Slots(e)[k] = v)
           /\ ~Sets(e, k) /\ values[k] # Absent =>
                 Reduce(e)[k] = values[k] /\ Slots(e)[k] = slots[k]
           /\ Fills(e, k) \/ values[k] # Absent => Reduce(e)[k] # Absent
<1>1. CASE e.kind = "point"
  <2>1. Applied(e) = {e.cap} /\ e.value # Absent
    BY <1>1, EventFields, ValuesAssumption DEF Applied, Reported, Given
  <2> QED BY <1>1, <2>1, Reduced DEF Sets, Carries, Fills, Slots, SlotValue
<1>2. CASE e.kind = "snapshot"
  <2>1. Applied(e) = {l \in Capabilities : e.states[l] # Absent}
    BY <1>2 DEF Applied
  <2> QED BY <1>2, <2>1, Reduced, ValuesAssumption DEF Filled, Sets, Carries, Fills, Slots, SlotValue
<1>3. CASE e.kind \notin {"point", "snapshot"}
  <2>1. Applied(e) = {}
    BY <1>3 DEF Applied
  <2> QED BY <1>3, <2>1, Reduced DEF Sets, Fills, Slots
<1> QED BY <1>1, <1>2, <1>3

(* An event that sets nothing of a capability may follow.                   *)
LEMMA CurrentFollowed ==
    ASSUME TypeOK, NEW k \in Capabilities, Current(k), NEW e \in Events, ~Sets(e, k),
           queue' = Append(queue, e), core'[k] = core[k], UNCHANGED cardVars
    PROVE  Current(k)'
<1>1. /\ queue \in Seq(Events) /\ Len(queue) \in Nat /\ Len(queue') = Len(queue) + 1
      /\ queue'[Len(queue) + 1] = e /\ \A i \in 1..Len(queue) : queue'[i] = queue[i]
  BY QueueGrows DEF TypeOK
<1>2. ASSUME NEW i \in 1..Len(queue), Sets(queue[i], k), Carries(queue[i], k, core[k]),
             \A j \in i+1..Len(queue) : ~Sets(queue[j], k)
      PROVE  Current(k)'
  <2>1. i \in 1..Len(queue') /\ Sets(queue'[i], k) /\ Carries(queue'[i], k, core'[k])
    BY <1>1, <1>2
  <2>2. \A j \in i+1..Len(queue') : ~Sets(queue'[j], k)
    BY <1>1, <1>2
  <2> QED BY <2>1, <2>2 DEF Current
<1>3. CASE /\ \A i \in 1..Len(queue) : ~Sets(queue[i], k)
           /\ values[k] = core[k]
           /\ core[k] \in Numbers => flow[k] = core[k] /\ slots[k] = core[k]
  <2>1. \A i \in 1..Len(queue') : ~Sets(queue'[i], k)
    BY <1>1, <1>3
  <2> QED BY <1>3, <2>1 DEF Current, cardVars
<1> QED BY <1>2, <1>3 DEF Current

(* The delivered event was the last to set a capability, or is followed by  *)
(* the one that is.                                                         *)
LEMMA DeliverCurrent ==
    ASSUME TypeOK, CurrentInv, Deliver
    PROVE  CurrentInv'
<1> SUFFICES ASSUME link = "open" PROVE CurrentInv'
  BY DEF Deliver, CurrentInv
<1> DEFINE e == Head(queue)
<1>1. /\ queue # <<>> /\ queue \in Seq(Events) /\ UNCHANGED <<link, core, primaryOnly>>
      /\ values' = Reduce(e) /\ flow' = FlowTexts(e) /\ slots' = Slots(e)
  BY DEF Deliver, TypeOK, coreVars
<1>2. /\ Len(queue) \in Nat \ {0} /\ Len(queue') = Len(queue) - 1
      /\ e = queue[1] /\ e \in Events /\ \A i \in 1..Len(queue') : queue'[i] = queue[i + 1]
  BY <1>1, QueueShrinks DEF Deliver
<1> HIDE DEF e
<1>3. ASSUME NEW k \in Listable PROVE Current(k)'
  <2>1. k \in Capabilities /\ core[k] \in Values /\ core[k] # Absent /\ Current(k)
    BY <1>3 DEF Listable, CurrentInv, TypeOK
  <2>2. ASSUME \A i \in 1..Len(queue') : ~Sets(queue'[i], k),
               values'[k] = core[k], core[k] \in Numbers => slots'[k] = core[k],
               core[k] \in Numbers => IsReading(e) \/ flow[k] = core[k]
        PROVE  Current(k)'
    <3>1. core[k] \in Numbers => flow'[k] = core[k]
      BY <1>1, <2>1, <2>2 DEF FlowTexts, AsNumber, Given
    <3> QED BY <1>1, <2>2, <3>1 DEF Current
  <2>3. ASSUME NEW i \in 1..Len(queue), Sets(queue[i], k), Carries(queue[i], k, core[k]),
               \A j \in i+1..Len(queue) : ~Sets(queue[j], k)
        PROVE  Current(k)'
    <3>1. CASE i = 1
      <4>1. \A j \in 1..Len(queue') : ~Sets(queue'[j], k)
        BY <1>2, <2>3, <3>1
      <4>2. values'[k] = core[k] /\ (core[k] \in Numbers => slots'[k] = core[k])
        BY <1>1, <1>2, <2>1, <2>3, <3>1, EventShows
      <4>3. IsReading(e)
        BY <1>2, <2>3, <3>1 DEF Sets, Applied, IsReading
      <4> QED BY <2>2, <4>1, <4>2, <4>3
    <3>2. CASE i # 1
      <4>1. i - 1 \in 1..Len(queue') /\ queue'[i - 1] = queue[i]
        BY <1>2, <3>2
      <4>2. \A j \in (i-1)+1..Len(queue') : ~Sets(queue'[j], k)
        BY <1>2, <2>3, <3>2
      <4> QED BY <1>1, <2>3, <4>1, <4>2 DEF Current
    <3> QED BY <3>1, <3>2
  <2>4. CASE /\ \A i \in 1..Len(queue) : ~Sets(queue[i], k)
             /\ values[k] = core[k]
             /\ core[k] \in Numbers => flow[k] = core[k] /\ slots[k] = core[k]
    <3>1. ~Sets(e, k) /\ \A i \in 1..Len(queue') : ~Sets(queue'[i], k)
      BY <1>2, <2>4
    <3>2. values'[k] = core[k] /\ slots'[k] = slots[k]
      BY <1>1, <1>2, <2>1, <2>4, <3>1, EventShows
    <3> QED BY <2>2, <2>4, <3>1, <3>2
  <2> QED BY <2>1, <2>3, <2>4 DEF Current
<1>4. ASSUME NEW k \in Capabilities, core[k] # Absent
      PROVE  values'[k] # Absent \/ \E i \in 1..Len(queue') : Fills(queue'[i], k)
  <2>1. CASE values[k] # Absent
    BY <1>1, <1>2, <2>1, EventShows
  <2>2. ASSUME NEW i \in 1..Len(queue), Fills(queue[i], k)
        PROVE  values'[k] # Absent \/ \E j \in 1..Len(queue') : Fills(queue'[j], k)
    <3>1. CASE i = 1
      BY <1>1, <1>2, <2>2, <3>1, EventShows
    <3>2. CASE i # 1
      <4>1. i - 1 \in 1..Len(queue') /\ queue'[i - 1] = queue[i]
        BY <1>2, <3>2
      <4> QED BY <2>2, <4>1
    <3> QED BY <3>1, <3>2
  <2> QED BY <1>4, <2>1, <2>2 DEF CurrentInv
<1> QED BY <1>1, <1>3, <1>4 DEF CurrentInv, Listable

(* A snapshot carries all Core has, listed or as its primary value.         *)
LEMMA SnapshotCarries ==
    ASSUME TypeOK
    PROVE  /\ \A k \in Listable : Sets(Snapshot, k) /\ Carries(Snapshot, k, core[k])
           /\ \A k \in Capabilities : core[k] # Absent => Fills(Snapshot, k)
<1>1. /\ Snapshot.kind = "snapshot" /\ Snapshot.primary = core[Primary]
      /\ \A k \in Capabilities : Snapshot.states[k] = IF k \in primaryOnly THEN Absent ELSE core[k]
  BY DEF Snapshot
<1>2. Applied(Snapshot) = {k \in Capabilities : Snapshot.states[k] # Absent}
  BY <1>1 DEF Applied
<1>3. \A k \in Listable : Sets(Snapshot, k) /\ Carries(Snapshot, k, core[k])
  BY <1>1, <1>2 DEF Listable, Sets, Carries
<1>4. \A k \in Capabilities : core[k] # Absent => Fills(Snapshot, k)
  BY <1>1, <1>2 DEF Fills, Sets, TypeOK
<1> QED BY <1>3, <1>4

(* A point follows each report, and a snapshot each opening of the stream.  *)
LEMMA HostCurrent ==
    ASSUME TypeOK, CurrentInv,
           \/ \E k \in Capabilities, v \in Reported : CoreReports(k, v)
           \/ StreamLost \/ StreamConnects \/ StreamOpens \/ StreamGivenUp \/ HostError
    PROVE  CurrentInv'
<1>0. queue \in Seq(Events) /\ Len(queue) \in Nat
  BY DEF TypeOK
<1>1. ASSUME NEW k \in Capabilities, NEW v \in Reported, CoreReports(k, v)
      PROVE  CurrentInv'
  <2> SUFFICES ASSUME link = "open" PROVE CurrentInv'
    BY <1>1 DEF CoreReports, CurrentInv
  <2> DEFINE e == Point(k)
  <2>1. /\ e \in Events /\ e.kind = "point" /\ e.cap = k /\ e.value = v
        /\ queue' = Append(queue, e) /\ core'[k] = v
        /\ \A l \in Capabilities \ {k} : core'[l] = core[l]
    BY <1>1, HostQueue
  <2>2. UNCHANGED <<link, primaryOnly, cardVars>>
    BY <1>1 DEF CoreReports
  <2> HIDE DEF e
  <2>3. \A l \in Capabilities : Sets(e, l) <=> l = k
    BY <2>1 DEF Sets, Applied
  <2>4. /\ Len(queue') = Len(queue) + 1 /\ queue'[Len(queue) + 1] = e
        /\ \A i \in 1..Len(queue) : queue'[i] = queue[i]
    BY <1>0, <2>1, QueueGrows
  <2>5. Current(k)'
    <3>1. PICK i \in 1..Len(queue') : i = Len(queue) + 1
      BY <1>0, <2>4
    <3>2. Sets(queue'[i], k) /\ Carries(queue'[i], k, core'[k])
      BY <2>1, <2>3, <2>4, <3>1 DEF Carries
    <3>3. \A j \in i+1..Len(queue') : ~Sets(queue'[j], k)
      BY <1>0, <2>4, <3>1
    <3> QED BY <3>2, <3>3 DEF Current
  <2>6. \A l \in Listable' : Current(l)'
    BY <2>1, <2>2, <2>3, <2>5, CurrentFollowed DEF Listable, CurrentInv
  <2>7. ASSUME NEW l \in Capabilities, core'[l] # Absent
        PROVE  values'[l] # Absent \/ \E i \in 1..Len(queue') : Fills(queue'[i], l)
    <3>1. CASE l = k
      <4>1. PICK i \in 1..Len(queue') : i = Len(queue) + 1
        BY <1>0, <2>4
      <4> QED BY <2>3, <2>4, <3>1, <4>1 DEF Fills
    <3>2. CASE l # k
      <4>1. values[l] # Absent \/ \E i \in 1..Len(queue) : Fills(queue[i], l)
        BY <2>1, <2>7, <3>2 DEF CurrentInv
      <4>2. \A i \in 1..Len(queue) : i \in 1..Len(queue') /\ queue'[i] = queue[i]
        BY <1>0, <2>4
      <4> QED BY <2>2, <4>1, <4>2 DEF cardVars
    <3> QED BY <3>1, <3>2
  <2> QED BY <2>6, <2>7 DEF CurrentInv
<1>2. CASE StreamLost \/ StreamConnects \/ StreamGivenUp
  BY <1>2 DEF StreamLost, StreamConnects, StreamGivenUp, CurrentInv
<1>3. CASE StreamOpens
  <2> DEFINE q == Append(queue, Status("open"))
  <2>1. q \in Seq(Events) /\ Snapshot \in Events /\ queue' = Append(q, Snapshot)
    BY <1>0, <1>3, NewEvents, HostQueue
  <2> HIDE DEF q
  <2>2. PICK i \in 1..Len(queue') : i = Len(queue') /\ queue'[i] = Snapshot
    BY <2>1, QueueGrows
  <2>3. UNCHANGED <<core, primaryOnly>> /\ Listable' = Listable
    BY <1>3 DEF StreamOpens, coreVars, Listable
  <2>4. \A k \in Listable : Current(k)'
    <3>1. \A j \in i+1..Len(queue') : FALSE
      BY <2>1, <2>2, QueueGrows
    <3> QED BY <2>2, <2>3, <3>1, SnapshotCarries DEF Current
  <2>5. \A k \in Capabilities : core[k] # Absent => \E j \in 1..Len(queue') : Fills(queue'[j], k)
    BY <2>2, SnapshotCarries
  <2> QED BY <2>3, <2>4, <2>5 DEF CurrentInv
<1>4. CASE HostError
  <2> SUFFICES ASSUME link = "open" PROVE CurrentInv'
    BY <1>4 DEF HostError, CurrentInv
  <2>1. /\ queue' = Append(queue, Error) /\ Error \in Events
        /\ UNCHANGED <<core, primaryOnly, cardVars>> /\ Listable' = Listable
    BY <1>4, NewEvents, HostQueue DEF HostError, coreVars, Listable
  <2>2. \A k \in Capabilities : ~Sets(Error, k)
    BY DEF Sets, Applied, Error
  <2>3. \A k \in Listable : Current(k)'
    BY <2>1, <2>2, CurrentFollowed DEF CurrentInv, Listable
  <2>4. \A i \in 1..Len(queue) : i \in 1..Len(queue') /\ queue'[i] = queue[i]
    BY <1>0, <2>1, QueueGrows
  <2> QED BY <2>1, <2>3, <2>4 DEF CurrentInv, cardVars
<1> QED BY <1>1, <1>2, <1>3, <1>4


-----------------------------------------------------------------------------
(* The invariant and the properties *)

LEMMA InitInv == Init => CardsInv
<1> SUFFICES ASSUME Init PROVE CardsInv
  OBVIOUS
<1>1. TypeOK
  BY InitTypes
<1>2. Len(queue) = 1 /\ queue[1] = Status("connecting") /\ link = "connecting"
  BY DEF Init
<1>3. \A k \in Capabilities : /\ seen[k] = {core[k]} \cap Given
                              /\ values[k] = Absent /\ flow[k] = Dash
  BY DEF Init
<1>4. SeenInv
  <2>1. \A k \in Capabilities : /\ {core[k], values[k]} \cap Given \subseteq seen[k]
                                /\ flow[k] \in {AsNumber(v) : v \in seen[k]} \cup {Dash}
    BY <1>3, ValuesAssumption DEF Given
  <2>2. Known(Status("connecting"), seen, primaryOnly)
    BY DEF Known, Status
  <2> QED BY <1>2, <2>1, <2>2 DEF SeenInv
<1>5. NoticeInv /\ CurrentInv
  BY <1>2 DEF NoticeInv, CurrentInv
<1> QED BY <1>1, <1>4, <1>5 DEF CardsInv

(* Every step keeps what is known of the events on their way.               *)
LEMMA NextInv == CardsInv /\ [Next]_vars => CardsInv'
<1> SUFFICES ASSUME CardsInv, [Next]_vars PROVE CardsInv'
  OBVIOUS
<1> USE DEF CardsInv
<1>1. CASE Deliver
  BY <1>1, DeliverTypes, DeliverSeen, DeliverNotice, DeliverCurrent
<1>2. CASE \/ \E k \in Capabilities, v \in Reported : CoreReports(k, v)
           \/ StreamLost \/ StreamConnects \/ StreamOpens \/ StreamGivenUp \/ HostError
  BY <1>2, HostTypes, HostSeen, HostNotice, HostCurrent
<1>3. CASE UNCHANGED vars
  <2>1. UNCHANGED <<primaryOnly, core, seen, link, troubled, queue, values, notice, flow, slots, line>>
    BY <1>3 DEF vars, coreVars, cardVars
  <2>2. TypeOK' /\ SeenInv'
    BY <2>1 DEF TypeOK, SeenInv
  <2>3. NoticeInv'
    BY <2>1 DEF NoticeInv, Listable, Newest
  <2>4. CurrentInv'
    BY <2>1 DEF CurrentInv, Listable, Current
  <2> QED BY <2>2, <2>3, <2>4
<1> QED BY <1>1, <1>2, <1>3 DEF Next

(* Of whatever Core reports, and however often the stream connects, breaks  *)
(* and errs: what is on its way was Core's; the last event on its way that  *)
(* sets a capability sets it to what Core has, or the cards show it; and    *)
(* the last event on its way, or else the cards, say that the stream broke, *)
(* or that an error came after the last reading.                            *)
THEOREM CardsInvariant == Spec => []CardsInv
<1> QED BY InitInv, NextInv, PTL DEF Spec

(* Every variable has its type.                                             *)
THEOREM CardsTypeCorrect == Spec => []TypeOK
<1>1. CardsInv => TypeOK
  BY DEF CardsInv
<1> QED BY <1>1, CardsInvariant, PTL

(* When the stream is open and quiet, every card shows what Core has.       *)
THEOREM CardsCatchUp == Spec => []CardsShowCore
<1>1. CardsInv => CardsShowCore
  <2> SUFFICES ASSUME CardsInv PROVE CardsShowCore
    OBVIOUS
  <2>1. ASSUME NEW k \in Capabilities, Caught(k)
        PROVE  values[k] = core[k] /\ flow[k] = core[k] /\ slots[k] = core[k] /\ core[k] \in Numbers
    <3>1. k \in Listable /\ link = "open" /\ Len(queue) = 0 /\ core[k] \in Numbers
      BY <2>1, ValuesAssumption DEF Caught, Listable
    <3>2. Current(k) /\ \A i \in 1..Len(queue) : FALSE
      BY <3>1 DEF CardsInv, CurrentInv
    <3> QED BY <3>1, <3>2 DEF Current
  <2>2. ASSUME NEW k \in Capabilities, Caught(k)
        PROVE  /\ flow[k] = core[k] /\ OverviewText(k) = core[k]
               /\ k = Power => AppliancePower = core[k]
    BY <2>1, <2>2, ValuesAssumption DEF OverviewText, AsNumber, Reported, Given, AppliancePower, FiniteNumber
  <2>3. ASSUME Caught(On)
        PROVE  (ApplianceState = "On" <=> core[On] = 1) /\ (BadgeHidden <=> core[On] = 1)
    <3>1. values[On] = core[On] /\ slots[On] = core[On] /\ core[On] \in Numbers
      BY <2>1, <2>3 DEF Capabilities
    <3>2. core[On] # Absent /\ core[On] \in Given
      BY <3>1, ValuesAssumption DEF Given
    <3> QED BY <3>1, <3>2 DEF ApplianceState, BadgeHidden
  <2>4. queue = <<>> /\ link = "open" => \A k \in Capabilities : core[k] # Absent => values[k] # Absent
    BY DEF CardsInv, CurrentInv
  <2> QED BY <2>2, <2>3, <2>4 DEF CardsShowCore
<1> QED BY <1>1, CardsInvariant, PTL

(* The appliance card shows a number, or "On", only if Core had what says   *)
(* so; the flow card a number Core had, or 0 if that was an empty string.   *)
THEOREM CardsInventNothing == Spec => []NothingInvented
<1>1. CardsInv => NothingInvented
  <2> SUFFICES ASSUME CardsInv PROVE NothingInvented
    OBVIOUS
  <2>1. /\ \A k \in Capabilities : {values[k]} \cap Given \subseteq seen[k]
        /\ \A k \in Capabilities : flow[k] \in {AsNumber(v) : v \in seen[k]} \cup {Dash}
        /\ seen \in [Capabilities -> SUBSET Given]
    BY DEF CardsInv, TypeOK, SeenInv
  <2>2. {values[Power]} \cap Given \subseteq seen[Power] /\ {values[On]} \cap Given \subseteq seen[On]
    BY <2>1 DEF Capabilities
  <2>3. AppliancePower = IF values[Power] \in Numbers THEN values[Power] ELSE Dash
    BY DEF AppliancePower, FiniteNumber
  <2>4. AppliancePower \in (seen[Power] \cap Numbers) \cup {Dash}
    BY <2>2, <2>3 DEF Given
  <2>5. CASE values[On] \in Given
    <3>1. ApplianceState = IF values[On] = 1 THEN "On" ELSE "Off"
      BY <2>5 DEF ApplianceState
    <3> QED BY <2>1, <2>2, <2>4, <2>5, <3>1 DEF NothingInvented
  <2>6. CASE values[On] \notin Given /\ values[Power] \in Numbers
    <3>1. values[Power] \in Nat /\ values[Power] # Dash /\ AppliancePower = values[Power]
      BY <2>3, <2>6, ValuesAssumption
    <3>2. ApplianceState = IF values[Power] > 0 THEN "On" ELSE "Off"
      BY <2>3, <2>6, <3>1 DEF ApplianceState, AppliancePower
    <3>3. values[Power] \in seen[Power] \cap Numbers
      BY <2>2, <2>6 DEF Given
    <3> QED BY <2>1, <2>4, <3>1, <3>2, <3>3 DEF NothingInvented
  <2>7. CASE values[On] \notin Given /\ values[Power] \notin Numbers
    <3>1. ApplianceState = "Waiting"
      BY <2>3, <2>7 DEF ApplianceState, AppliancePower
    <3> QED BY <2>1, <2>4, <3>1 DEF NothingInvented
  <2> QED BY <2>5, <2>6, <2>7
<1> QED BY <1>1, CardsInvariant, PTL

(* When nothing is on its way, the widgets announce a stream that broke or  *)
(* was given up; and on an open one they complain if, and only if, an error *)
(* came after the last reading.                                             *)
THEOREM CardsAnnounceLoss == Spec => []LossIsAnnounced
<1>1. CardsInv => LossIsAnnounced
  <2> SUFFICES ASSUME CardsInv, queue = <<>> PROVE LossIsAnnounced
    BY DEF LossIsAnnounced
  <2>1. \A k \in Capabilities : Caught(k) => k \in Listable /\ link = "open"
    BY ValuesAssumption DEF Caught, Listable
  <2> QED BY <2>1 DEF CardsInv, NoticeInv, LossIsAnnounced
<1> QED BY <1>1, CardsInvariant, PTL
=============================================================================
