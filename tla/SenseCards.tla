----------------------------- MODULE SenseCards -----------------------------
(***************************************************************************)
(* The dashboard cards: the reducer both widgets share (state.js), what    *)
(* the flow card (sense-energy-flow/src/widget.js) and the appliance card  *)
(* (sense-device-breakdown/src/widget.js, view.js) show of it, and the     *)
(* overview card of the experience package (energy-overview.js).           *)
(*                                                                         *)
(* Core and its widget host are not in the repository: the host calls the  *)
(* cards back, in order, with snapshots of what Core knows, points, errors *)
(* and the status of the stream, which connects, breaks and comes back.    *)
(***************************************************************************)
EXTENDS Naturals, Sequences

CONSTANTS
    Numbers,       \* readings; 1 stands for true as well
    Power, On,     \* the capabilities the cards are bound to: a number and a flag
    Primary,       \* the capability a snapshot carries as its primaryState
    MaxEvents,     \* bound of the events on their way, for model checking
    Null,          \* JavaScript's null
    Empty,         \* the empty string, which Number() makes 0
    Absent,        \* undefined, or a key that is not there
    Undefined,     \* a state object of the overview whose value is undefined
    Dash           \* the text of a missing number

Capabilities == {Power, On}

ASSUME ValuesAssumption ==
    /\ Numbers \subseteq Nat /\ {0, 1} \subseteq Numbers
    /\ Null \notin Numbers /\ Empty \notin Numbers \cup {Null}
    /\ Absent \notin Numbers \cup {Null, Empty}
    /\ Undefined \notin Numbers \cup {Null, Empty, Absent} /\ Dash \notin Numbers
ASSUME CapabilitiesAssumption ==
    Power # On /\ Primary \in Capabilities
ASSUME EventsAssumption == MaxEvents \in Nat /\ MaxEvents >= 2

Given == Numbers \cup {Empty}
Reported == Given \cup {Null}
Values == Reported \cup {Absent}

VARIABLES
    primaryOnly,   \* the capabilities a snapshot carries only as its primary value
    core,      \* Core's last value of each capability
    seen,      \* history: the numbers and the empty strings Core has had
    link,      \* the stream: "connecting", "open", "down", or "closed" for good
    troubled,  \* history: an error was sent after the last reading, on an open stream
    queue,     \* the events on their way to the cards
    values,    \* the reducer's values
    notice,    \* the status line of the flow and the appliance card
    flow,      \* the texts of the flow card
    slots,     \* the overview's values
    line       \* the status line of the overview

coreVars == <<primaryOnly, core, seen>>
cardVars == <<values, notice, flow, slots, line>>
vars == <<coreVars, link, troubled, queue, cardVars>>

Point(k) == [kind |-> "point", cap |-> k, value |-> core'[k]]
Status(s) == [kind |-> "status", status |-> s]
Error == [kind |-> "error"]

(* Everything Core knows; a capability it never heard of is not listed.     *)
Snapshot ==
    [kind |-> "snapshot",
     states |-> [k \in Capabilities |-> IF k \in primaryOnly THEN Absent ELSE core[k]],
     primary |-> core[Primary]]

Events == [kind : {"point"}, cap : Capabilities, value : Reported]
            \cup [kind : {"snapshot"}, states : [Capabilities -> Values], primary : Values]
            \cup [kind : {"status"}, status : {"connecting", "open", "reconnecting", "closed"}]
            \cup [kind : {"error"}]

IsReading(e) == e.kind \in {"snapshot", "point"}

Init ==
    /\ primaryOnly \in SUBSET {Primary}
    /\ core \in [Capabilities -> Values]
    /\ seen = [k \in Capabilities |-> {core[k]} \cap Given]
    /\ link = "connecting" /\ troubled = FALSE
    /\ queue = <<Status("connecting")>>
    /\ values = [k \in Capabilities |-> Absent]
    /\ notice = "hidden"
    /\ flow = [k \in Capabilities |-> Dash]
    /\ slots = [k \in Capabilities |-> Absent]
    /\ line = "loading"

-----------------------------------------------------------------------------
(* state.js *)

Listed(e) == [k \in Capabilities |-> IF e.states[k] = Absent THEN values[k] ELSE e.states[k]]

(* MUTANT of Reduce: a snapshot only fills the gaps of the values.          *)
ReduceKeepsOlder(e) ==
    CASE e.kind = "snapshot" -> [k \in Capabilities |-> IF values[k] = Absent THEN e.states[k] ELSE values[k]]
      [] e.kind = "point" -> [values EXCEPT ![e.cap] = e.value]
      [] OTHER -> values

(* A snapshot sets what it lists; its primary value only fills a gap.       *)
Reduce(e) ==
    CASE e.kind = "snapshot" ->
           [Listed(e) EXCEPT ![Primary] = IF @ = Absent THEN e.primary ELSE @]
      [] e.kind = "point" -> [values EXCEPT ![e.cap] = e.value]
      [] OTHER -> values

(* MUTANT of Describe: only errors are worth a message.                     *)
DescribeErrors(e) == IF e.kind = "error" THEN "unavailable" ELSE "hidden"

(* describeSenseStreamEvent *)
Describe(e) ==
    CASE e = Status("reconnecting") -> "reconnecting"
      [] e \in {Status("closed"), Error} -> "unavailable"
      [] OTHER -> "hidden"

-----------------------------------------------------------------------------
(* Number(value), of a number, null or an empty string.                     *)
AsNumber(value) == IF value \in Numbers THEN value ELSE 0

(* The flow card writes what it has after each reading, unless it is        *)
(* undefined or null: for an empty string it writes 0.                      *)
FlowTexts(e) ==
    [k \in Capabilities |->
        IF IsReading(e) /\ values'[k] \in Given THEN AsNumber(values'[k]) ELSE flow[k]]

(* createApplianceView, applied after each reading; between readings the    *)
(* values do not change.                                                    *)

(* MUTANT of FiniteNumber: null and the empty string are converted.         *)
FiniteNumberUnchecked(value) == IF value \in Reported THEN AsNumber(value) ELSE Dash

(* A missing reading, the empty string included, is no number.              *)
FiniteNumber(value) == IF value \in Numbers THEN value ELSE Dash

(* An empty string is a state like any other that is not true: "Off".       *)
ApplianceState ==
    LET power == FiniteNumber(values[Power])
        Shown(isOn) == IF isOn THEN "On" ELSE "Off"
    IN  IF values[On] \in Given THEN Shown(values[On] = 1)
        ELSE IF power = Dash THEN "Waiting" ELSE Shown(power > 0)

AppliancePower == FiniteNumber(values[Power])

-----------------------------------------------------------------------------
(* energy-overview.js *)

(* `value ?? display_value`: a null in a snapshot is as good as nothing; in *)
(* a point it is kept.                                                      *)
Applied(e) ==
    CASE e.kind = "snapshot" -> {k \in Capabilities : e.states[k] # Absent}
      [] e.kind = "point" -> {e.cap}
      [] OTHER -> {}

(* MUTANT of SlotValue: the text of the value is stored.                    *)
SlotTextOf(e, k) == IF e.kind = "point" /\ e.value \notin Numbers THEN Dash ELSE
    IF e.kind = "point" THEN e.value ELSE e.states[k]

SlotValue(e, k) ==
    IF e.kind = "point" THEN e.value
    ELSE IF e.states[k] = Null THEN Undefined ELSE e.states[k]

Slots(e) == [k \in Capabilities |-> IF k \in Applied(e) THEN SlotValue(e, k) ELSE slots[k]]

Line(e) ==
    CASE Applied(e) # {} -> "hidden"
      [] e.kind = "error" -> "error"
      [] OTHER -> line

(* formatNumber: Number(undefined) is not finite.                           *)
OverviewText(k) == IF slots[k] \in Reported THEN AsNumber(slots[k]) ELSE Dash

BadgeHidden == slots[On] \in {Absent, 1}

-----------------------------------------------------------------------------
(* Core, the stream, and the callback of the cards *)

Room(n) == Len(queue) + n <= MaxEvents

(* The runtime reports a value: a point follows while the stream is open.   *)
CoreReports(k, v) ==
    /\ core[k] # v
    /\ core' = [core EXCEPT ![k] = v]
    /\ seen' = [seen EXCEPT ![k] = @ \cup ({v} \cap Given)]
    /\ Room(1)
    /\ queue' = IF link = "open" THEN Append(queue, Point(k)) ELSE queue
    /\ troubled' = FALSE
    /\ UNCHANGED <<primaryOnly, link, cardVars>>

(* The stream breaks, or cannot be opened: the last of the events on their  *)
(* way may be lost.                                                         *)
StreamLost ==
    /\ link \in {"open", "connecting"} /\ link' = "down"
    /\ \E n \in 0..Len(queue) :
          /\ n < MaxEvents
          /\ queue' = Append(SubSeq(queue, 1, n), Status("reconnecting"))
    /\ troubled' = FALSE
    /\ UNCHANGED <<coreVars, cardVars>>

StreamConnects ==
    /\ link = "down" /\ link' = "connecting"
    /\ Room(1) /\ queue' = Append(queue, Status("connecting"))
    /\ UNCHANGED <<coreVars, troubled, cardVars>>

StreamOpens ==
    /\ link \in {"connecting", "down"} /\ link' = "open"
    /\ Room(2)
    /\ queue' = queue \o <<Status("open"), Snapshot>>
    /\ troubled' = FALSE
    /\ UNCHANGED <<coreVars, cardVars>>

StreamGivenUp ==
    /\ link \in {"connecting", "down"} /\ link' = "closed"
    /\ Room(1) /\ queue' = Append(queue, Status("closed"))
    /\ UNCHANGED <<coreVars, troubled, cardVars>>

HostError ==
    /\ link # "closed"
    /\ Room(1) /\ queue' = Append(queue, Error)
    /\ troubled' = (link = "open")
    /\ UNCHANGED <<coreVars, link, cardVars>>

Deliver ==
    /\ queue # <<>>
    /\ queue' = Tail(queue)
    /\ LET e == Head(queue) IN
          /\ values' = Reduce(e)
          /\ notice' = Describe(e)
          /\ flow' = FlowTexts(e)
          /\ slots' = Slots(e)
          /\ line' = Line(e)
    /\ UNCHANGED <<coreVars, link, troubled>>

Next ==
    \/ \E k \in Capabilities, v \in Reported : CoreReports(k, v)
    \/ StreamLost \/ StreamConnects \/ StreamOpens \/ StreamGivenUp \/ HostError
    \/ Deliver

Spec == Init /\ [][Next]_vars

-----------------------------------------------------------------------------
(* Properties *)

(* Every variable has its type.                                             *)
TypeOK ==
    /\ primaryOnly \subseteq {Primary}
    /\ core \in [Capabilities -> Values]
    /\ seen \in [Capabilities -> SUBSET Given]
    /\ link \in {"connecting", "open", "down", "closed"} /\ troubled \in BOOLEAN
    /\ queue \in Seq(Events) /\ Len(queue) <= MaxEvents
    /\ values \in [Capabilities -> Values]
    /\ notice \in {"hidden", "reconnecting", "unavailable"}
    /\ flow \in [Capabilities -> Numbers \cup {Dash}]
    /\ slots \in [Capabilities -> Values \cup {Undefined}]
    /\ line \in {"loading", "hidden", "error"}

Caught(k) == queue = <<>> /\ link = "open" /\ core[k] \in Numbers /\ k \notin primaryOnly

(* Whatever points a broken stream lost, in whatever order breaks, errors   *)
(* and readings came: when the stream is open again and quiet, every card   *)
(* shows what Core has, and so the cards agree; and none waits for a        *)
(* reading Core has that a snapshot carries as its primary value only,      *)
(* though it may show an older one: that value fills a gap and replaces     *)
(* nothing.                                                                 *)
CardsShowCore ==
    /\ \A k \in Capabilities : Caught(k) =>
          /\ flow[k] = core[k] /\ OverviewText(k) = core[k]
          /\ k = Power => AppliancePower = core[k]
          /\ k = On => (ApplianceState = "On" <=> core[k] = 1) /\ (BadgeHidden <=> core[k] = 1)
    /\ queue = <<>> /\ link = "open" => \A k \in Capabilities : core[k] # Absent => values[k] # Absent

(* "renders missing readings without inventing zero values"                 *)
(* (sense-device-breakdown/test/widget.test.mjs): the appliance card shows  *)
(* a number only if Core had it at some time, and "On" only if Core had a   *)
(* state or a power that says so; "Off" may stand for an empty string.  The *)
(* flow card shows what Core had too, but as 0 if that was an empty string. *)
NothingInvented ==
    /\ AppliancePower \in (seen[Power] \cap Numbers) \cup {Dash}
    /\ ApplianceState = "On" => 1 \in seen[On] \/ \E n \in seen[Power] \cap Numbers : n > 0
    /\ ApplianceState = "Off" => seen[On] \ {1} # {} \/ 0 \in seen[Power]
    /\ \A k \in Capabilities : flow[k] \in {AsNumber(v) : v \in seen[k]} \cup {Dash}

(* What the cards say of the stream when nothing is on its way.  A stream   *)
(* that broke or was given up is announced by the two widgets, whatever     *)
(* numbers they still show (while it connects they say nothing).  On an     *)
(* open stream the cards complain if, and only if, the host reported an     *)
(* error after the last reading it sent: the widgets as soon as the stream  *)
(* is back, the overview when Core has something to list.                   *)
LossIsAnnounced ==
    queue = <<>> =>
       /\ link \in {"down", "closed"} => notice # "hidden"
       /\ link = "open" =>
             /\ notice # "hidden" <=> troubled
             /\ troubled => line = "error"
             /\ ~troubled /\ (\E k \in Capabilities : Caught(k)) => line = "hidden"

(* The inductive invariant behind the properties above.  What is on its way *)
(* was Core's once, and what a snapshot carries twice agrees.               *)
Known(e, had, only) ==
    /\ e.kind = "point" => {e.value} \cap Given \subseteq had[e.cap]
    /\ e.kind = "snapshot" =>
          /\ \A k \in Capabilities : {e.states[k]} \cap Given \subseteq had[k]
          /\ {e.primary} \cap Given \subseteq had[Primary]
          /\ Primary \notin only => e.primary = e.states[Primary]

SeenInv ==
    /\ \A k \in Capabilities : /\ {core[k], values[k]} \cap Given \subseteq seen[k]
                              /\ flow[k] \in {AsNumber(v) : v \in seen[k]} \cup {Dash}
    /\ \A i \in 1..Len(queue) : Known(queue[i], seen, primaryOnly)

(* A stream that broke has been announced, or is by the last event on its   *)
(* way; and the last event of an open one is an error, or a reading.        *)
Listable == {k \in Capabilities \ primaryOnly : core[k] # Absent}
Newest == queue[Len(queue)]

NoticeInv ==
    /\ link \in {"down", "closed"} =>
          IF queue = <<>> THEN notice # "hidden" ELSE Describe(Newest) # "hidden"
    /\ link = "open" /\ troubled =>
          IF queue = <<>> THEN notice # "hidden" /\ line = "error" ELSE Newest.kind = "error"
    /\ link = "open" /\ ~troubled =>
          IF queue = <<>> THEN notice = "hidden" ELSE IsReading(Newest)
    /\ link = "open" /\ ~troubled /\ Listable # {} =>
          IF queue = <<>> THEN line = "hidden" ELSE Applied(Newest) # {}

(* The last event on its way that sets a capability sets it to what Core    *)
(* has, and without such an event the cards show it; and what Core has is   *)
(* filled in, or is on its way to be.                                       *)
Sets(e, k) == k \in Applied(e)
Carries(e, k, v) == v = IF e.kind = "point" THEN e.value ELSE e.states[k]

Current(k) ==
    \/ \E i \in 1..Len(queue) : /\ Sets(queue[i], k) /\ Carries(queue[i], k, core[k])
                               /\ \A j \in i+1..Len(queue) : ~Sets(queue[j], k)
    \/ /\ \A i \in 1..Len(queue) : ~Sets(queue[i], k)
       /\ values[k] = core[k]
       /\ core[k] \in Numbers => flow[k] = core[k] /\ slots[k] = core[k]

Fills(e, k) == Sets(e, k) \/ (e.kind = "snapshot" /\ k = Primary /\ e.primary # Absent)

CurrentInv ==
    link = "open" =>
       /\ \A k \in Listable : Current(k)
       /\ \A k \in Capabilities : core[k] # Absent =>
             values[k] # Absent \/ \E i \in 1..Len(queue) : Fills(queue[i], k)

CardsInv == TypeOK /\ SeenInv /\ NoticeInv /\ CurrentInv
=============================================================================
