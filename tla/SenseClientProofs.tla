------------------------- MODULE SenseClientProofs -------------------------
(***************************************************************************)
(* Theorems about SenseClient for any number of reads: what its runs check *)
(* of the session, the errors, and the values of a reading.  And about the *)
(* parser of SensePower, for any keys and responses of any depth.          *)
(***************************************************************************)
EXTENDS SensePower, SequenceTheorems, WellFoundedInduction, TLAPS

(* The session is open while the client works; a client that raised has     *)
(* closed itself or left the session to its caller.                         *)
LifeInv ==
    /\ pc \in {"authenticating", "validating", "rejecting", "idle", "reading", "closing"} =>
          http = "open" /\ sense
    /\ pc = "raised" => (http = "open" <=> sense) /\ http # "none"
    /\ pc = "closed" => http = "closed" /\ ~sense

(* The extended values are those of reads with trends, and a read raises    *)
(* for the public library only.                                             *)
DataInv ==
    /\ \A s \in Slots : snapshot[s] <= fetched.trends
    /\ outcome = "raised" => refused \/ malformed
    /\ pc = "reading" => outcome = "none" /\ todo # {}

(* What a read in flight has fetched: an await that is no longer to come    *)
(* has given its value, and no endpoint is asked before a required call.    *)
ReadInv ==
    pc = "reading" =>
        /\ "realtime" \notin todo => fetched.realtime = reads \/ limited
        /\ trends => "trends" \in todo \/ fetched.trends = reads
        /\ trends /\ todo \cap Required # {} => Slots \subseteq todo
        /\ ~trends => todo \cap Slots = {} /\ "trends" \notin todo

(* The power values a read in flight has, and those between two reads.      *)
PowerInv ==
    /\ pc = "reading" => \A s \in PowerSlots :
          IF trends /\ s \notin todo THEN parts[s] = lastGood[s] ELSE snapshot[s] = lastGood[s]
    /\ pc \in {"new", "authenticating", "validating", "idle"} =>
          \A s \in PowerSlots : snapshot[s] = lastGood[s]

InductiveInv ==
    /\ TypeOK /\ LifeInv /\ DataInv /\ ReadInv /\ PowerInv
    /\ ReadingIsCurrent /\ PowerIsKept

-----------------------------------------------------------------------------
(* The endpoints and the required calls are different, and have their turn. *)
LEMMA Points ==
    /\ Slots \cap Required = {} /\ PowerSlots \subseteq Slots
    /\ "realtime" \in Required /\ "trends" \in Required /\ "monitor" \in Required
    /\ \A s \in Slots, call \in Required : ~(Turn[s] <= Turn[call])
BY DEF Slots, PowerSlots, Required, Turn

(* A client begins with nothing.                                            *)
LEMMA InitInv == Init => InductiveInv
<1> SUFFICES ASSUME Init PROVE InductiveInv
  OBVIOUS
<1>1. NoSlots \in [Slots -> {0}]
  BY DEF NoSlots
<1>2. TypeOK
  <2>1. /\ fetched \in [{"realtime", "trends"} -> 0..reads]
        /\ snapshot \in [Slots -> 0..reads] /\ parts \in [Slots -> 0..reads]
        /\ lastGood \in [Slots -> 0..reads] /\ reads \in 0..MaxReads
    BY <1>1, ReadsAssumption DEF Init
  <2>2. reading \in [realtime : 0..reads, trends : 0..reads, extended : [Slots -> 0..reads],
                 buckets : SUBSET PowerSlots, standIns : SUBSET PowerSlots]
    BY <1>1 DEF Init, NoReading
  <2> QED BY <2>1, <2>2 DEF Init, TypeOK
<1>3. \A s \in Slots : snapshot[s] = 0 /\ lastGood[s] = 0
  BY <1>1 DEF Init
<1> QED
  BY <1>2, <1>3, Points DEF Init, InductiveInv, LifeInv, DataInv, ReadInv, PowerInv,
                            ReadingIsCurrent, PowerIsKept

(* The steps of authenticate and close do not touch what was read.          *)
LEMMA LifeStepInv ==
    ASSUME InductiveInv,
           \/ Authenticate \/ MfaRequired \/ Authenticated \/ Rejected \/ AuthenticateErrs
           \/ RejectClosed \/ Close \/ Closed
    PROVE  InductiveInv'
<1> USE DEF InductiveInv
<1>1. UNCHANGED <<mfaCode, readVars>>
  BY DEF Authenticate, MfaRequired, Authenticated, Rejected, AuthenticateErrs, RejectClosed,
         Close, Closed
<1>2. /\ pc' \in {"authenticating", "validating", "rejecting", "raised", "idle", "closing", "closed"}
      /\ http' \in {"none", "open", "closed"} /\ sense' \in BOOLEAN
  BY DEF Authenticate, MfaRequired, Authenticated, Rejected, AuthenticateErrs, RejectClosed,
         Close, Closed, TypeOK
<1>3. pc' \in {"authenticating", "validating", "idle"} => pc \in {"new", "authenticating", "validating"}
  BY DEF Authenticate, MfaRequired, Authenticated, Rejected, AuthenticateErrs, RejectClosed,
         Close, Closed
<1>4. TypeOK'
  BY <1>1, <1>2 DEF TypeOK, readVars
<1>5. LifeInv'
  BY DEF Authenticate, MfaRequired, Authenticated, Rejected, AuthenticateErrs, RejectClosed,
         Close, Closed, LifeInv, TypeOK
<1>6. DataInv' /\ ReadInv' /\ PowerInv'
  BY <1>1, <1>2, <1>3 DEF DataInv, ReadInv, PowerInv, readVars
<1>7. ReadingIsCurrent' /\ PowerIsKept'
  BY <1>1 DEF ReadingIsCurrent, PowerIsKept, readVars
<1> QED BY <1>4, <1>5, <1>6, <1>7

(* A read begins with everything still to be fetched.                       *)
LEMMA ReadBeginInv ==
    ASSUME InductiveInv, NEW b \in BOOLEAN, Read(b)
    PROVE  InductiveInv'
<1> USE DEF InductiveInv
<1>1. /\ todo' \subseteq Required \cup Slots /\ "realtime" \in todo'
      /\ b => {"trends"} \cup Slots \subseteq todo'
      /\ ~b => todo' \cap Slots = {} /\ "trends" \notin todo'
  BY Points DEF Read, Awaits, Slots, PowerSlots, Required
<1>2. reads \in Nat /\ reads' = reads + 1 /\ reads' \in 0..MaxReads
  BY ReadsAssumption DEF Read, TypeOK
<1>3. TypeOK'
  <2>1. 0..reads \subseteq 0..reads'
    BY <1>2
  <2>2. reading' \in [realtime : 0..reads', trends : 0..reads', extended : [Slots -> 0..reads'],
                      buckets : SUBSET PowerSlots, standIns : SUBSET PowerSlots]
    BY <1>2 DEF Read, NoReading, NoSlots
  <2> QED BY <1>1, <1>2, <2>1, <2>2 DEF Read, TypeOK
<1>4. LifeInv' /\ DataInv'
  BY <1>1 DEF Read, LifeInv, DataInv
<1>5. ReadInv'
  BY <1>1 DEF Read, ReadInv
<1>6. PowerInv'
  BY <1>1, Points DEF Read, PowerInv
<1>7. ReadingIsCurrent' /\ PowerIsKept'
  BY DEF Read, ReadingIsCurrent, PowerIsKept
<1> QED BY <1>3, <1>4, <1>5, <1>6, <1>7

(* What an await of a read may change when it gives its value, or is let    *)
(* pass: its own value, and nothing of the others.                          *)
Gives(point) ==
    /\ UNCHANGED <<mfaCode, http, sense, trends, reads, refused>>
    /\ monitor' \in BOOLEAN /\ limited' \in BOOLEAN
    /\ fetched' \in [{"realtime", "trends"} -> 0..reads]
    /\ IF point = "realtime" THEN fetched'.realtime = reads \/ limited'
       ELSE fetched'.realtime = fetched.realtime /\ limited' = limited
    /\ fetched'.trends = IF point = "trends" THEN reads ELSE fetched.trends
    /\ parts' \in [Slots -> 0..reads] /\ lastGood' \in [Slots -> 0..reads]
    /\ \A s \in PowerSlots :
          IF s = point THEN parts'[s] = lastGood'[s]
          ELSE parts'[s] = parts[s] /\ lastGood'[s] = lastGood[s]

(* Such a step keeps the invariant, and if it is the last the reading is    *)
(* of this read and has the last good power values.                         *)
LEMMA AdvanceInv ==
    ASSUME InductiveInv, NEW point \in Required \cup Slots,
           Awaiting(point), Gives(point), Advance(point)
    PROVE  InductiveInv'
<1> USE DEF InductiveInv
<1>1. pc = "reading" /\ point \in todo /\ todo' = todo \ {point}
  BY DEF Awaiting, Advance
<1>2. /\ reads \in Nat /\ fetched.trends \in 0..reads /\ fetched'.trends \in 0..reads
      /\ fetched.realtime \in 0..reads /\ fetched'.realtime \in 0..reads
      /\ trends \in BOOLEAN /\ fetched'.trends >= fetched.trends
  BY DEF TypeOK, Gives
<1>3. /\ "realtime" \notin todo' => fetched'.realtime = reads \/ limited'
      /\ trends => "trends" \in todo' \/ fetched'.trends = reads
  BY <1>1 DEF ReadInv, Gives
<1>4. /\ trends /\ todo' \cap Required # {} => Slots \subseteq todo'
      /\ ~trends => todo' \cap Slots = {} /\ "trends" \notin todo'
  BY <1>1, Points DEF ReadInv, Awaiting
<1>5. \A s \in PowerSlots :
         IF trends /\ s \notin todo' THEN parts'[s] = lastGood'[s] ELSE snapshot[s] = lastGood'[s]
  <2> SUFFICES ASSUME NEW s \in PowerSlots
               PROVE  IF trends /\ s \notin todo' THEN parts'[s] = lastGood'[s]
                      ELSE snapshot[s] = lastGood'[s]
    OBVIOUS
  <2>1. CASE s = point
    BY <1>1, <2>1, Points DEF ReadInv, Gives
  <2>2. CASE s # point
    BY <1>1, <2>2 DEF PowerInv, Gives
  <2> QED BY <2>1, <2>2
<1>6. /\ snapshot' \in [Slots -> 0..reads]
      /\ \A s \in Slots : snapshot'[s] <= fetched'.trends
  <2>1. CASE todo' = {} /\ trends
    BY <1>2, <1>3, <2>1 DEF Advance, Gives
  <2>2. CASE ~(todo' = {} /\ trends)
    <3>1. snapshot' = snapshot /\ snapshot \in [Slots -> 0..reads]
      BY <2>2 DEF Advance, TypeOK
    <3>2. \A s \in Slots : snapshot[s] \in 0..reads
      BY <3>1
    <3> QED BY <1>2, <3>1, <3>2 DEF DataInv
  <2> QED BY <2>1, <2>2
<1>7. CASE todo' = {}
  <2>1. /\ pc' = "idle" /\ (Return \/ ConversionFails)
        /\ snapshot' = IF trends THEN parts' ELSE snapshot
    BY <1>7 DEF Advance
  <2>2. \A s \in PowerSlots : snapshot'[s] = lastGood'[s]
    BY <1>2, <1>5, <1>7, <2>1
  <2>3. LifeInv' /\ ReadInv' /\ PowerInv'
    BY <1>1, <2>1, <2>2 DEF LifeInv, ReadInv, PowerInv, Gives
  <2>4. CASE Return
    <3>1. PICK buckets \in SUBSET PowerSlots :
             reading' = [realtime |-> fetched'.realtime, trends |-> fetched'.trends,
                         extended |-> snapshot', buckets |-> buckets,
                         standIns |-> {s \in buckets : snapshot'[s] = 0}]
      BY <2>4 DEF Return
    <3>2. outcome' = "returned" /\ malformed' = malformed
      BY <2>4 DEF Return
    <3>3. reading' \in [realtime : 0..reads, trends : 0..reads, extended : [Slots -> 0..reads],
                        buckets : SUBSET PowerSlots, standIns : SUBSET PowerSlots]
      BY <1>2, <1>6, <3>1
    <3>4. TypeOK' /\ DataInv'
      BY <1>1, <1>6, <2>1, <3>2, <3>3 DEF Gives, TypeOK, DataInv
    <3>5. ReadingIsCurrent'
      BY <1>3, <1>6, <1>7, <3>1 DEF ReadingIsCurrent, Gives
    <3>6. PowerIsKept'
      BY <2>2, <3>1 DEF PowerIsKept
    <3> QED BY <2>3, <3>4, <3>5, <3>6
  <2>5. CASE ConversionFails
    <3>1. outcome' = "raised" /\ malformed' = TRUE /\ reading' = reading
      BY <2>5 DEF ConversionFails
    <3>2. TypeOK' /\ DataInv'
      BY <1>1, <1>6, <2>1, <3>1 DEF Gives, TypeOK, DataInv
    <3>3. ReadingIsCurrent' /\ PowerIsKept'
      BY <3>1 DEF ReadingIsCurrent, PowerIsKept
    <3> QED BY <2>3, <3>2, <3>3
  <2> QED BY <2>1, <2>4, <2>5
<1>8. CASE todo' # {}
  <2>1. UNCHANGED <<pc, outcome, reading, malformed, snapshot>>
    BY <1>8 DEF Advance
  <2>2. TypeOK'
    BY <1>1, <1>6, <2>1 DEF Gives, TypeOK
  <2>3. LifeInv' /\ DataInv'
    BY <1>1, <1>6, <1>8, <2>1 DEF LifeInv, DataInv, Gives
  <2>4. ReadInv' /\ PowerInv'
    BY <1>1, <1>3, <1>4, <1>5, <2>1 DEF ReadInv, PowerInv, Gives
  <2>5. ReadingIsCurrent' /\ PowerIsKept'
    BY <1>1, <2>1 DEF DataInv, ReadingIsCurrent, PowerIsKept
  <2> QED BY <2>2, <2>3, <2>4, <2>5
<1> QED BY <1>7, <1>8

(* The required calls, fetched or within the library's minute.              *)
LEMMA RequiredInv ==
    ASSUME InductiveInv,
           (\E call \in Required : Fetched(call)) \/ RateLimited
    PROVE  InductiveInv'
<1>1. /\ fetched \in [{"realtime", "trends"} -> 0..reads] /\ reads \in Nat
      /\ parts \in [Slots -> 0..reads] /\ lastGood \in [Slots -> 0..reads]
      /\ monitor \in BOOLEAN /\ limited \in BOOLEAN
  BY DEF InductiveInv, TypeOK
<1>2. ASSUME NEW call \in Required, Fetched(call)
      PROVE  InductiveInv'
  <2>1. Gives(call)
    <3>1. \A s \in PowerSlots : s # call
      BY Points
    <3>2. CASE call = "monitor"
      BY <1>1, <1>2, <3>1, <3>2 DEF Fetched, Gives
    <3>3. CASE call \in {"realtime", "trends"}
      <4>1. /\ fetched' = [fetched EXCEPT ![call] = reads]
            /\ UNCHANGED <<mfaCode, http, sense, trends, reads, refused, limited, lastGood, parts>>
            /\ monitor' \in BOOLEAN
        BY <1>1, <1>2, <3>3 DEF Fetched
      <4> QED BY <1>1, <3>1, <3>3, <4>1 DEF Gives
    <3> QED BY <3>2, <3>3 DEF Required
  <2> QED BY <1>2, <2>1, AdvanceInv DEF Fetched
<1>3. CASE RateLimited
  <2>1. Gives("realtime")
    BY <1>1, <1>3, Points DEF RateLimited, Gives
  <2> QED BY <1>3, <2>1, AdvanceInv, Points DEF RateLimited
<1> QED BY <1>2, <1>3

(* The endpoints: whatever one answers, a power value is its last good one. *)
LEMMA ExtendedInv ==
    ASSUME InductiveInv, NEW slot \in Slots, NEW answer \in Answers, Extended(slot, answer)
    PROVE  InductiveInv'
<1>1. /\ fetched \in [{"realtime", "trends"} -> 0..reads] /\ reads \in Nat
      /\ parts \in [Slots -> 0..reads] /\ lastGood \in [Slots -> 0..reads]
      /\ snapshot \in [Slots -> 0..reads]
      /\ monitor \in BOOLEAN /\ limited \in BOOLEAN
  BY DEF InductiveInv, TypeOK
<1>2. BestEffort(slot, answer) \in 0..reads
  BY <1>1 DEF BestEffort
<1>3. parts' = [parts EXCEPT ![slot] = BestEffort(slot, answer)] /\ parts' \in [Slots -> 0..reads]
  BY <1>1, <1>2 DEF Extended
<1>4. /\ lastGood' \in [Slots -> 0..reads]
      /\ \A s \in Slots : s # slot => lastGood'[s] = lastGood[s]
  BY <1>1 DEF Extended, Remember
<1>5. slot \in PowerSlots => parts'[slot] = lastGood'[slot]
  <2> SUFFICES ASSUME slot \in PowerSlots PROVE parts'[slot] = lastGood'[slot]
    OBVIOUS
  <2>1. snapshot[slot] = lastGood[slot]
    BY DEF Extended, Awaiting, InductiveInv, PowerInv
  <2>2. CASE answer = "good"
    <3>1. BestEffort(slot, answer) = reads
      BY <2>2 DEF BestEffort
    <3>2. lastGood' = [lastGood EXCEPT ![slot] = reads]
      BY <2>2 DEF Extended, Remember
    <3>3. parts'[slot] = reads
      BY <1>1, <1>3, <3>1
    <3>4. lastGood'[slot] = reads
      BY <1>1, <3>2
    <3> QED BY <3>3, <3>4
  <2>3. CASE answer # "good"
    BY <1>1, <1>3, <2>1, <2>3 DEF Extended, Remember, BestEffort
  <2> QED BY <2>2, <2>3
<1>6. slot # "realtime" /\ slot # "trends"
  BY Points
<1>7. Gives(slot)
  BY <1>1, <1>3, <1>4, <1>5, <1>6, Points DEF Extended, Gives
<1> QED BY <1>7, AdvanceInv DEF Extended

(* The ends of a read by an exception.                                      *)
LEMMA RaiseInv ==
    ASSUME InductiveInv,
           (\E call \in Required : Refused(call)) \/ Cancelled
    PROVE  InductiveInv'
<1> USE DEF InductiveInv
<1>1. ASSUME NEW call \in Required, Refused(call)
      PROVE  InductiveInv'
  <2>1. /\ pc = "reading" /\ call \in todo /\ pc' = "idle" /\ todo' = {}
        /\ outcome' = "raised" /\ refused' = TRUE
        /\ UNCHANGED <<mfaCode, http, sense, monitor, fetched, snapshot, parts, trends, reads,
                       malformed, limited, lastGood, reading>>
    BY <1>1 DEF Refused, Awaiting, Raise
  <2>2. \A s \in PowerSlots : snapshot[s] = lastGood[s]
    BY <1>1, <2>1, Points DEF ReadInv, PowerInv
  <2>3. TypeOK'
    BY <2>1 DEF TypeOK
  <2>4. LifeInv' /\ DataInv' /\ ReadInv' /\ PowerInv'
    BY <2>1, <2>2 DEF LifeInv, DataInv, ReadInv, PowerInv
  <2>5. ReadingIsCurrent' /\ PowerIsKept'
    BY <2>1 DEF ReadingIsCurrent, PowerIsKept
  <2> QED BY <2>3, <2>4, <2>5
<1>2. CASE Cancelled
  <2>1. TypeOK'
    BY <1>2 DEF Cancelled, TypeOK
  <2>2. LifeInv' /\ DataInv' /\ ReadInv' /\ PowerInv'
    BY <1>2 DEF Cancelled, LifeInv, DataInv, ReadInv, PowerInv
  <2>3. ReadingIsCurrent' /\ PowerIsKept'
    BY <1>2 DEF Cancelled, ReadingIsCurrent, PowerIsKept
  <2> QED BY <2>1, <2>2, <2>3
<1> QED BY <1>1, <1>2

-----------------------------------------------------------------------------
(* The invariant holds in every state of a client.                          *)
THEOREM ClientInvariant == Spec => []InductiveInv
<1>1. InductiveInv /\ [Next]_vars => InductiveInv'
  <2> SUFFICES ASSUME InductiveInv, [Next]_vars PROVE InductiveInv'
    OBVIOUS
  <2>1. CASE \/ Authenticate \/ MfaRequired \/ Authenticated \/ Rejected \/ AuthenticateErrs
             \/ RejectClosed \/ Close \/ Closed
    BY <2>1, LifeStepInv
  <2>2. ASSUME NEW b \in BOOLEAN, Read(b) PROVE InductiveInv'
    BY <2>2, ReadBeginInv
  <2>3. CASE (\E call \in Required : Fetched(call)) \/ RateLimited
    BY <2>3, RequiredInv
  <2>4. ASSUME NEW slot \in Slots, NEW answer \in Answers, Extended(slot, answer)
        PROVE  InductiveInv'
    BY <2>4, ExtendedInv
  <2>5. CASE (\E call \in Required : Refused(call)) \/ Cancelled
    BY <2>5, RaiseInv
  <2>6. CASE UNCHANGED vars
    BY <2>6 DEF vars, authVars, readVars, InductiveInv, TypeOK, LifeInv, DataInv, ReadInv, PowerInv,
                ReadingIsCurrent, PowerIsKept
  <2> QED BY <2>1, <2>2, <2>3, <2>4, <2>5, <2>6 DEF Next, Dropped
<1> QED BY InitInv, <1>1, PTL DEF Spec

(* Every variable of a client keeps its type.                               *)
THEOREM ClientTypes == Spec => []TypeOK
BY ClientInvariant, PTL DEF InductiveInv

(* Whatever way authentication failed or a read ended, the client that is   *)
(* let go of has no session open, and the one that is kept has.             *)
THEOREM ClientCloses == Spec => []NothingLeftOpen
<1>1. InductiveInv => NothingLeftOpen
  BY DEF InductiveInv, LifeInv, NothingLeftOpen
<1> QED BY ClientInvariant, <1>1, PTL

(* "Failures there never disconnect normal monitoring" (README.md): a read  *)
(* raises only for a call of the public library.                            *)
THEOREM BestEffortNeverRaises == Spec => []ExtensionNeverFails
<1>1. InductiveInv => ExtensionNeverFails
  BY DEF InductiveInv, DataInv, ExtensionNeverFails
<1> QED BY ClientInvariant, <1>1, PTL

(* A reading is of its own read, the library's rate limit apart.            *)
THEOREM CurrentReading == Spec => []ReadingIsCurrent
BY ClientInvariant, PTL DEF InductiveInv

(* Neither a failing nor a changed endpoint loses a power value.            *)
THEOREM KeptPower == Spec => []PowerIsKept
BY ClientInvariant, PTL DEF InductiveInv

-----------------------------------------------------------------------------
(* Every nonempty set of numbers has a least one.                           *)
LEMMA LeastNumber ==
    ASSUME NEW T, T \subseteq Nat, T # {}
    PROVE  \E n \in T : \A m \in T : n <= m
<1> DEFINE Less == {pair \in Nat \X Nat : pair[1] < pair[2]}
<1>1. IsWellFoundedOn(Less, Nat)
  BY NatLessThanWellFounded, Zenon DEF OpToRel
<1>2. \E n \in T : \A m \in T : <<m, n>> \notin Less
  BY <1>1, WFMin, Zenon
<1>3. PICK n \in T : \A m \in T : <<m, n>> \notin Less
  BY <1>2
<1>4. ASSUME NEW m \in T PROVE n <= m
  <2>1. m \in Nat /\ n \in Nat /\ <<m, n>> \notin Less
    BY <1>3
  <2>2. ~(m < n)
    BY <2>1
  <2> QED BY <2>1, <2>2
<1> QED BY <1>4

(* Hence what Min gives is the least one.                                   *)
LEMMA MinOfNumbers ==
    ASSUME NEW T, T \subseteq Nat, T # {}
    PROVE  Min(T) \in T /\ (\A m \in T : Min(T) <= m)
BY LeastNumber DEF Min

-----------------------------------------------------------------------------
(* The keys a path is made of.                                              *)
Known == LeafKeys \cup ToSet(NestedKeys)

(* A function on 1..n is a sequence of length n.                            *)
LEMMA FunctionIsSequence ==
    ASSUME NEW S, NEW n \in Nat, NEW s \in [1..n -> S]
    PROVE  s \in Seq(S) /\ Len(s) = n
OBVIOUS

(* What a path is, position by position: nested keys, and at the end a key  *)
(* of a number.                                                             *)
LEMMA PathShape ==
    ASSUME NEW depth \in Nat, NEW path
    PROVE  path \in Paths(depth) <=>
              /\ path \in Seq(Known) /\ Len(path) \in 1..(depth + 1)
              /\ path[Len(path)] \in LeafKeys
              /\ \A i \in 1..(Len(path) - 1) : path[i] \in ToSet(NestedKeys)
<1>1. path \in SeqOf(Known, depth + 1) <=> path \in Seq(Known) /\ Len(path) <= depth + 1
  <2>1. ASSUME path \in SeqOf(Known, depth + 1)
        PROVE  path \in Seq(Known) /\ Len(path) <= depth + 1
    <3>1. PICK m \in 0..(depth + 1) : path \in [1..m -> Known]
      BY <2>1 DEF SeqOf
    <3> QED BY <3>1, FunctionIsSequence
  <2>2. ASSUME path \in Seq(Known), Len(path) <= depth + 1
        PROVE  path \in SeqOf(Known, depth + 1)
    <3>1. path \in [1..Len(path) -> Known] /\ Len(path) \in 0..(depth + 1)
      BY <2>2, LenProperties
    <3> QED BY <3>1 DEF SeqOf
  <2> QED BY <2>1, <2>2
<1>2. ASSUME path \in Seq(Known), path # <<>>
      PROVE  /\ Len(path) \in Nat \ {0}
             /\ ToSet(Front(path)) = {path[i] : i \in 1..(Len(path) - 1)}
  <2>1. Len(path) \in Nat \ {0}
    BY <1>2, EmptySeq
  <2>2. /\ Front(path) \in Seq(Known) /\ Len(Front(path)) = Len(path) - 1
        /\ \A i \in 1..(Len(path) - 1) : Front(path)[i] = path[i]
    <3>1. \A i \in 1..(Len(path) - 1) : path[i] \in Known
      BY <1>2, <2>1, LenProperties
    <3> DEFINE n == Len(path) - 1
               front == SubSeq(path, 1, n)
    <3>2. n \in Nat /\ 1 \in Int /\ (\A i \in 1..n : path[i] \in Known)
      BY <2>1, <3>1
    <3>3. Front(path) = front
      BY DEF Front
    <3> HIDE DEF n
    <3>4. /\ front \in Seq(Known)
          /\ Len(front) = IF 1 <= n THEN n - 1 + 1 ELSE 0
          /\ \A i \in 1..(n - 1 + 1) : front[i] = path[1 + i - 1]
      BY <3>2, SubSeqProperties
    <3> HIDE DEF front
    <3>5. /\ front \in Seq(Known) /\ Len(front) = n
          /\ \A i \in 1..n : front[i] = path[i]
      <4>1. \A i \in 1..n : i \in 1..(n - 1 + 1) /\ 1 + i - 1 = i
        BY <3>2
      <4> QED BY <3>2, <3>4, <4>1
    <3> QED BY <3>3, <3>5 DEF n
  <2>3. DOMAIN Front(path) = 1..(Len(path) - 1)
    BY <2>2, LenProperties
  <2> QED BY <2>1, <2>2, <2>3 DEF ToSet
<1>3. Len(<<>>) = 0
  OBVIOUS
<1> QED BY <1>1, <1>2, <1>3 DEF Paths, Last, Known

(* A key in front of a path, and the path again behind it.                  *)
LEMMA Prepended ==
    ASSUME NEW S, NEW path \in Seq(S), NEW key \in S
    PROVE  LET longer == <<key>> \o path IN
              /\ longer \in Seq(S) /\ Len(longer) = Len(path) + 1
              /\ longer[1] = key /\ Head(longer) = key /\ Tail(longer) = path
              /\ \A i \in 1..Len(path) : longer[i + 1] = path[i]
<1> DEFINE longer == <<key>> \o path
<1>1. <<key>> \in Seq(S) /\ Len(<<key>>) = 1 /\ <<key>>[1] = key
  OBVIOUS
<1>2. /\ longer \in Seq(S) /\ Len(longer) = 1 + Len(path)
      /\ \A i \in 1..(1 + Len(path)) :
            longer[i] = IF i <= 1 THEN <<key>>[i] ELSE path[i - 1]
  BY <1>1, ConcatProperties
<1>3. Len(path) \in Nat
  OBVIOUS
<1> HIDE DEF longer
<1>4. longer[1] = key
  BY <1>1, <1>2, <1>3
<1>5. ASSUME NEW i \in 1..Len(path) PROVE longer[i + 1] = path[i]
  <2>1. i + 1 \in 1..(1 + Len(path)) /\ ~(i + 1 <= 1) /\ (i + 1) - 1 = i
    BY <1>3
  <2> QED BY <1>2, <2>1
<1>6. longer # <<>>
  BY <1>2, <1>3
<1>7. /\ Head(longer) = longer[1]
      /\ Tail(longer) \in Seq(S) /\ Len(Tail(longer)) = Len(path)
      /\ \A i \in 1..Len(path) : Tail(longer)[i] = longer[i + 1]
  BY <1>2, <1>3, <1>6, HeadTailProperties
<1>8. Tail(longer) = path
  BY <1>5, <1>7, SeqEqual
<1>9. Len(longer) = Len(path) + 1
  BY <1>2, <1>3
<1>10. /\ longer \in Seq(S) /\ Len(longer) = Len(path) + 1
       /\ longer[1] = key /\ Head(longer) = key /\ Tail(longer) = path
       /\ \A i \in 1..Len(path) : longer[i + 1] = path[i]
  BY <1>2, <1>4, <1>5, <1>7, <1>8, <1>9
<1> QED BY <1>10 DEF longer

(* A path of more than one key is its first key and the path behind it.     *)
LEMMA HeadAndTail ==
    ASSUME NEW S, NEW path \in Seq(S), Len(path) > 1
    PROVE  /\ Head(path) = path[1] /\ path[1] \in S
           /\ Tail(path) \in Seq(S) /\ Len(Tail(path)) = Len(path) - 1
           /\ \A i \in 1..(Len(path) - 1) : Tail(path)[i] = path[i + 1]
           /\ path = <<path[1]>> \o Tail(path)
<1>1. path # <<>> /\ Len(path) \in Nat /\ 1 \in 1..Len(path)
  OBVIOUS
<1>2. /\ Head(path) = path[1] /\ path[1] \in S
      /\ Tail(path) \in Seq(S) /\ Len(Tail(path)) = Len(path) - 1
      /\ \A i \in 1..(Len(path) - 1) : Tail(path)[i] = path[i + 1]
  BY <1>1, HeadTailProperties
<1> DEFINE longer == <<path[1]>> \o Tail(path)
<1>3. /\ longer \in Seq(S) /\ Len(longer) = Len(Tail(path)) + 1 /\ longer[1] = path[1]
      /\ \A i \in 1..Len(Tail(path)) : longer[i + 1] = Tail(path)[i]
  BY <1>2, Prepended
<1> HIDE DEF longer
<1>4. ASSUME NEW i \in 1..Len(path) PROVE longer[i] = path[i]
  <2>1. CASE i = 1
    BY <2>1, <1>3
  <2>2. CASE i # 1
    <3>1. i - 1 \in 1..(Len(path) - 1) /\ (i - 1) + 1 = i
      BY <1>1, <2>2
    <3>2. longer[(i - 1) + 1] = Tail(path)[i - 1] /\ Tail(path)[i - 1] = path[(i - 1) + 1]
      BY <1>2, <1>3, <3>1
    <3> QED BY <3>1, <3>2
  <2> QED BY <2>1, <2>2
<1>5. Len(longer) = Len(path)
  BY <1>1, <1>2, <1>3
<1>6. path = longer
  BY <1>3, <1>4, <1>5, SeqEqual
<1> QED BY <1>2, <1>6 DEF longer

(* A mapping nested in a mapping has one level less.                        *)
LEMMA NestedIsMapping ==
    ASSUME NEW depth \in Nat, NEW data \in Mappings(depth), NEW key
    PROVE  /\ depth = 0 => Nested(data, key) = {}
           /\ depth > 0 => Nested(data, key) \in Mappings(depth - 1)
<1>1. ASSUME NEW path \in data, Len(path) > 1
      PROVE  depth > 0 /\ Tail(path) \in Paths(depth - 1)
  <2>1. path \in Paths(depth)
    BY DEF Mappings
  <2>2. /\ path \in Seq(Known) /\ Len(path) \in 1..(depth + 1)
        /\ path[Len(path)] \in LeafKeys
        /\ \A i \in 1..(Len(path) - 1) : path[i] \in ToSet(NestedKeys)
    BY <2>1, PathShape
  <2>3. /\ Tail(path) \in Seq(Known) /\ Len(Tail(path)) = Len(path) - 1
        /\ \A i \in 1..(Len(path) - 1) : Tail(path)[i] = path[i + 1]
    BY <1>1, <2>2, HeadAndTail
  <2> DEFINE rest == Tail(path)
             n == Len(path)
  <2> HIDE DEF rest, n
  <2>4. n \in Nat /\ n > 1 /\ n <= depth + 1
    BY <1>1, <2>2 DEF n
  <2>5. rest \in Seq(Known) /\ Len(rest) = n - 1 /\ \A i \in 1..(n - 1) : rest[i] = path[i + 1]
    BY <2>3 DEF rest, n
  <2>6. depth - 1 \in Nat /\ depth > 0
    BY <2>4
  <2>7. Len(rest) \in 1..((depth - 1) + 1)
    BY <2>4, <2>5
  <2>8. rest[Len(rest)] \in LeafKeys
    <3>1. n - 1 \in 1..(n - 1) /\ (n - 1) + 1 = n
      BY <2>4
    <3> QED BY <2>2, <2>5, <3>1 DEF n
  <2>9. ASSUME NEW i \in 1..(Len(rest) - 1) PROVE rest[i] \in ToSet(NestedKeys)
    <3>1. i \in 1..(n - 1) /\ i + 1 \in 1..(n - 1)
      BY <2>4, <2>5
    <3> QED BY <2>2, <2>5, <3>1 DEF n
  <2>10. rest \in Paths(depth - 1)
    BY <2>5, <2>6, <2>7, <2>8, <2>9, PathShape
  <2> QED BY <2>6, <2>10 DEF rest
<1>2. \A rest \in Nested(data, key) : depth > 0 /\ rest \in Paths(depth - 1)
  <2>1. SUFFICES ASSUME NEW rest \in Nested(data, key)
                 PROVE  depth > 0 /\ rest \in Paths(depth - 1)
    OBVIOUS
  <2>2. PICK path \in data : Len(path) > 1 /\ rest = Tail(path)
    BY DEF Nested
  <2> QED BY <1>1, <2>2
<1>3. depth = 0 => ~(depth > 0)
  OBVIOUS
<1> QED BY <1>2, <1>3 DEF Mappings

(* A path through a nested mapping, and the rest of it in that mapping.     *)
LEMMA NestedPath ==
    ASSUME NEW depth \in Nat, NEW data \in Mappings(depth)
    PROVE  /\ \A path \in data :
                 /\ path \in Seq(Known) /\ Len(path) \in Nat \ {0}
                 /\ Len(path) > 1 => /\ path[1] \in ToSet(NestedKeys)
                                     /\ Tail(path) \in Nested(data, path[1])
                                     /\ Tail(path) \in Seq(Known)
                                     /\ path = <<path[1]>> \o Tail(path)
           /\ \A key \in ToSet(NestedKeys) : \A rest \in Nested(data, key) :
                 rest \in Seq(Known) /\ Len(rest) \in Nat \ {0} /\ <<key>> \o rest \in data
<1>1. ASSUME NEW path \in data
      PROVE  /\ path \in Seq(Known) /\ Len(path) \in Nat \ {0}
             /\ Len(path) > 1 => /\ path[1] \in ToSet(NestedKeys)
                                 /\ Head(path) = path[1]
                                 /\ Tail(path) \in Seq(Known) /\ Len(Tail(path)) \in Nat \ {0}
                                 /\ path = <<path[1]>> \o Tail(path)
  <2>1. /\ path \in Seq(Known) /\ Len(path) \in 1..(depth + 1)
        /\ \A i \in 1..(Len(path) - 1) : path[i] \in ToSet(NestedKeys)
    BY PathShape DEF Mappings
  <2>2. CASE Len(path) > 1
    <3> DEFINE n == Len(path)
    <3> HIDE DEF n
    <3>1. n \in Nat /\ n > 1
      BY <2>1, <2>2 DEF n
    <3>2. 1 \in 1..(n - 1) /\ n - 1 \in Nat \ {0}
      BY <3>1
    <3>3. 1 \in 1..(Len(path) - 1) /\ Len(path) - 1 \in Nat \ {0}
      BY <3>2 DEF n
    <3> QED BY <2>1, <2>2, <3>3, HeadAndTail
  <2> QED BY <2>1, <2>2
<1>2. ASSUME NEW path \in data, Len(path) > 1
      PROVE  Tail(path) \in Nested(data, path[1])
  BY <1>1, <1>2 DEF Nested
<1>3. ASSUME NEW key \in ToSet(NestedKeys), NEW rest \in Nested(data, key)
      PROVE  rest \in Seq(Known) /\ Len(rest) \in Nat \ {0} /\ <<key>> \o rest \in data
  <2>1. PICK path \in data : Len(path) > 1 /\ Head(path) = key /\ rest = Tail(path)
    BY <1>3 DEF Nested
  <2>2. /\ path[1] = key /\ path = <<path[1]>> \o Tail(path)
        /\ Tail(path) \in Seq(Known) /\ Len(Tail(path)) \in Nat \ {0}
    BY <1>1, <2>1
  <2>3. path = <<key>> \o rest
    BY <2>1, <2>2
  <2> QED BY <2>1, <2>2, <2>3
<1>4. \A path \in data :
         /\ path \in Seq(Known) /\ Len(path) \in Nat \ {0}
         /\ Len(path) > 1 => /\ path[1] \in ToSet(NestedKeys)
                             /\ Tail(path) \in Nested(data, path[1])
                             /\ Tail(path) \in Seq(Known)
                             /\ path = <<path[1]>> \o Tail(path)
  BY <1>1, <1>2
<1> QED BY <1>3, <1>4

-----------------------------------------------------------------------------
(* The recursion is well founded: there is a function that it defines.      *)
Recursion(depth, f) ==
    [data \in Mappings(depth) |->
        IF data = {} THEN Nothing
        ELSE Search(data, [key \in ToSet(NestedKeys) |-> f[Nested(data, key)]])]

(* At every depth: the values at one depth less define those at this one.   *)
(* Were there a depth without a solution, the least one would have one.     *)
LEMMA RecursionHasSolution == \A depth \in Nat : \E f : f = Recursion(depth, f)
<1> DEFINE Unsolved == {depth \in Nat : ~\E f : f = Recursion(depth, f)}
<1>1. SUFFICES ASSUME Unsolved # {} PROVE FALSE
  OBVIOUS
<1>2. PICK depth \in Unsolved : \A other \in Unsolved : depth <= other
  BY <1>1, LeastNumber
<1>3. CASE depth = 0
  <2> DEFINE f == [data \in Mappings(0) |->
                      IF data = {} THEN Nothing
                      ELSE Search(data, [key \in ToSet(NestedKeys) |-> Nothing])]
  <2>1. {} \in Mappings(0) /\ f[{}] = Nothing
    BY DEF Mappings
  <2>2. \A data \in Mappings(0) :
           [key \in ToSet(NestedKeys) |-> f[Nested(data, key)]]
              = [key \in ToSet(NestedKeys) |-> Nothing]
    BY <2>1, NestedIsMapping
  <2>3. f = Recursion(0, f)
    BY <2>2 DEF Recursion
  <2> QED BY <1>2, <1>3, <2>3
<1>4. CASE depth > 0
  <2>1. depth - 1 \in Nat /\ ~(depth <= depth - 1) /\ depth \in Nat
    BY <1>2, <1>4
  <2>2. PICK g : g = Recursion(depth - 1, g)
    BY <1>2, <2>1
  <2> DEFINE f == Recursion(depth, g)
  <2>3. ASSUME NEW data \in Mappings(depth - 1) PROVE f[data] = g[data]
    <3>1. data \in Mappings(depth)
      BY <2>1, PathShape DEF Mappings
    <3> QED BY <2>2, <3>1 DEF Recursion
  <2>4. ASSUME NEW data \in Mappings(depth)
        PROVE  [key \in ToSet(NestedKeys) |-> f[Nested(data, key)]]
                  = [key \in ToSet(NestedKeys) |-> g[Nested(data, key)]]
    BY <1>4, <2>1, <2>3, NestedIsMapping
  <2>5. f = Recursion(depth, f)
    <3> HIDE DEF f
    <3> QED BY <2>4 DEF Recursion, f
  <2> QED BY <1>2, <2>5
<1> QED BY <1>2, <1>3, <1>4

(* So ParseMapping, the solution chosen, satisfies its equation.            *)
LEMMA ParseMappingEquation == ParseMapping = Recursion(MaxDepth, ParseMapping)
<1>1. PICK f : f = Recursion(MaxDepth, f)
  BY RecursionHasSolution, BoundsAssumption
<1> QED BY <1>1 DEF ParseMapping, Recursion

-----------------------------------------------------------------------------
(* The keys in their order.                                                 *)
LEMMA KeyRanks ==
    /\ Len(PowerKeys) \in Nat /\ Len(NestedKeys) \in Nat
    /\ ToSet(PowerKeys) = {PowerKeys[i] : i \in 1..Len(PowerKeys)}
    /\ ToSet(NestedKeys) = {NestedKeys[i] : i \in 1..Len(NestedKeys)}
    /\ \A i \in 1..Len(PowerKeys) : Rank(PowerKeys[i]) = i
    /\ \A i \in 1..Len(NestedKeys) : Rank(NestedKeys[i]) = Len(PowerKeys) + i
<1> DEFINE m == Len(PowerKeys)
           n == Len(NestedKeys)
           Some == ToSet(PowerKeys) \cup ToSet(NestedKeys)
<1>1. /\ PowerKeys \in Seq(ToSet(PowerKeys)) /\ NestedKeys \in Seq(ToSet(NestedKeys))
      /\ IsInjective(Keys)
  BY KeysAssumption DEF Keys
<1>2. PowerKeys \in Seq(Some) /\ NestedKeys \in Seq(Some)
  BY <1>1, SeqMonotonic
<1>3. /\ m \in Nat /\ n \in Nat
      /\ DOMAIN PowerKeys = 1..m /\ DOMAIN NestedKeys = 1..n
  BY <1>2, LenProperties
<1>4. /\ Keys \in Seq(Some) /\ Len(Keys) = m + n
      /\ \A i \in 1..(m + n) : Keys[i] = IF i <= m THEN PowerKeys[i] ELSE NestedKeys[i - m]
  BY <1>2, ConcatProperties DEF Keys
<1>5. DOMAIN Keys = 1..(m + n)
  BY <1>4, LenProperties
<1> HIDE DEF m, n, Some
<1>6. ASSUME NEW i \in 1..(m + n) PROVE Rank(Keys[i]) = i
  <2> DEFINE Places == {j \in 1..Len(Keys) : Keys[j] = Keys[i]}
  <2>1. Places = {i}
    BY <1>1, <1>3, <1>4, <1>5 DEF IsInjective
  <2>2. Rank(Keys[i]) = IF Places # {} THEN Min(Places) ELSE 0
    BY DEF Rank, SelectInSeq
  <2>3. i \in Nat
    BY <1>3
  <2> HIDE DEF Places
  <2>4. Min(Places) \in Places
    BY <2>1, <2>3, MinOfNumbers
  <2> QED BY <2>1, <2>2, <2>4
<1>7. ASSUME NEW i \in 1..m PROVE Rank(PowerKeys[i]) = i
  <2>1. i \in 1..(m + n) /\ i <= m
    BY <1>3
  <2> QED BY <1>4, <1>6, <2>1
<1>8. ASSUME NEW i \in 1..n PROVE Rank(NestedKeys[i]) = m + i
  <2>1. m + i \in 1..(m + n) /\ ~(m + i <= m) /\ (m + i) - m = i
    BY <1>3
  <2>2. Keys[m + i] = NestedKeys[i]
    BY <1>4, <2>1
  <2> QED BY <1>6, <2>1, <2>2
<1>9. ToSet(PowerKeys) = {PowerKeys[i] : i \in 1..m} /\ ToSet(NestedKeys) = {NestedKeys[i] : i \in 1..n}
  BY <1>3 DEF ToSet
<1> QED BY <1>3, <1>7, <1>8, <1>9 DEF m, n

(* The place of the first power key with a number, if there is one.         *)
LEMMA HereIsFirst ==
    ASSUME NEW data
    PROVE  \/ /\ Here(data) = 0
              /\ \A i \in 1..Len(PowerKeys) : <<PowerKeys[i]>> \notin data
           \/ /\ Here(data) # 0 /\ Here(data) \in 1..Len(PowerKeys) /\ <<PowerKeys[Here(data)]>> \in data
              /\ \A i \in 1..Len(PowerKeys) : <<PowerKeys[i]>> \in data => Here(data) <= i
<1> DEFINE Places == {i \in 1..Len(PowerKeys) : <<PowerKeys[i]>> \in data}
<1>1. Here(data) = IF Places # {} THEN Min(Places) ELSE 0
  BY DEF Here, SelectInSeq
<1>2. CASE Places = {}
  BY <1>1, <1>2
<1>3. CASE Places # {}
  <2>1. Places \subseteq Nat
    BY KeyRanks
  <2> HIDE DEF Places
  <2>2. Min(Places) \in Places /\ \A i \in Places : Min(Places) <= i
    BY <1>3, <2>1, MinOfNumbers
  <2>3. Min(Places) # 0
    BY <2>2, KeyRanks DEF Places
  <2> QED BY <1>1, <1>3, <2>2, <2>3 DEF Places
<1> QED BY <1>2, <1>3

(* The place of the first nested mapping in which something was found.      *)
NextIn(inner) == SelectInSeq(NestedKeys, LAMBDA key : inner[key] # Nothing)

(* No place if nothing was found, the least one otherwise.                  *)
LEMMA NextIsFirst ==
    ASSUME NEW inner
    PROVE  \/ /\ NextIn(inner) = 0
              /\ \A i \in 1..Len(NestedKeys) : inner[NestedKeys[i]] = Nothing
           \/ /\ NextIn(inner) \in 1..Len(NestedKeys)
              /\ inner[NestedKeys[NextIn(inner)]] # Nothing
              /\ \A i \in 1..Len(NestedKeys) : inner[NestedKeys[i]] # Nothing => NextIn(inner) <= i
<1> DEFINE Places == {i \in 1..Len(NestedKeys) : inner[NestedKeys[i]] # Nothing}
<1>1. NextIn(inner) = IF Places # {} THEN Min(Places) ELSE 0
  BY DEF NextIn, SelectInSeq
<1>2. CASE Places = {}
  BY <1>1, <1>2
<1>3. CASE Places # {}
  <2>1. Places \subseteq Nat
    BY KeyRanks
  <2> HIDE DEF Places
  <2>2. Min(Places) \in Places /\ \A i \in Places : Min(Places) <= i
    BY <1>3, <2>1, MinOfNumbers
  <2> QED BY <1>1, <1>3, <2>2 DEF Places
<1> QED BY <1>2, <1>3

-----------------------------------------------------------------------------
(* A path to a number is a candidate if its last key is a power key.        *)
LEMMA CandidateEnds ==
    ASSUME NEW depth \in Nat, NEW data \in Mappings(depth), NEW path \in data
    PROVE  path \in Candidates(data) <=> path[Len(path)] \in ToSet(PowerKeys)
BY DEF Mappings, Paths, Candidates, Last

(* What is within a depth is within a greater one.                          *)
LEMMA PathsGrow ==
    ASSUME NEW n \in Nat, NEW m \in Nat, n <= m
    PROVE  Paths(n) \subseteq Paths(m)
BY PathShape

(* Candidates of a mapping, and of the mappings nested in it.               *)
LEMMA NestedCandidates ==
    ASSUME NEW depth \in Nat, NEW data \in Mappings(depth)
    PROVE  /\ \A key \in ToSet(NestedKeys) : \A rest \in Candidates(Nested(data, key)) :
                 <<key>> \o rest \in Candidates(data)
           /\ \A path \in Candidates(data) : Len(path) > 1 =>
                 Tail(path) \in Candidates(Nested(data, path[1]))
<1>1. ASSUME NEW key \in ToSet(NestedKeys), NEW rest \in Nested(data, key)
      PROVE  /\ depth > 0 /\ Nested(data, key) \in Mappings(depth - 1) /\ depth - 1 \in Nat
             /\ rest \in Candidates(Nested(data, key)) <=> <<key>> \o rest \in Candidates(data)
  <2>1. depth > 0 /\ depth - 1 \in Nat /\ Nested(data, key) \in Mappings(depth - 1)
    BY NestedIsMapping
  <2>2. rest \in Seq(Known) /\ Len(rest) \in Nat \ {0} /\ <<key>> \o rest \in data
    BY NestedPath
  <2> DEFINE longer == <<key>> \o rest
  <2>3. key \in Known
    BY DEF Known
  <2>4. /\ longer \in Seq(Known) /\ Len(longer) = Len(rest) + 1
        /\ \A i \in 1..Len(rest) : longer[i + 1] = rest[i]
    BY <2>2, <2>3, Prepended
  <2> HIDE DEF longer
  <2>5. longer[Len(longer)] = rest[Len(rest)]
    BY <2>2, <2>4
  <2>6. longer \in data
    BY <2>2 DEF longer
  <2>7. longer \in Candidates(data) <=> longer[Len(longer)] \in ToSet(PowerKeys)
    BY <2>6, CandidateEnds
  <2>8. rest \in Candidates(Nested(data, key)) <=> rest[Len(rest)] \in ToSet(PowerKeys)
    BY <2>1, CandidateEnds
  <2> QED BY <2>1, <2>5, <2>7, <2>8 DEF longer
<1>2. ASSUME NEW key \in ToSet(NestedKeys), NEW rest \in Candidates(Nested(data, key))
      PROVE  <<key>> \o rest \in Candidates(data)
  BY <1>1, <1>2 DEF Candidates
<1>3. ASSUME NEW path \in Candidates(data), Len(path) > 1
      PROVE  Tail(path) \in Candidates(Nested(data, path[1]))
  <2>1. path \in data
    BY DEF Candidates
  <2>2. /\ path[1] \in ToSet(NestedKeys) /\ Tail(path) \in Nested(data, path[1])
        /\ path = <<path[1]>> \o Tail(path)
    BY <1>3, <2>1, NestedPath
  <2> QED BY <1>1, <2>2
<1> QED BY <1>2, <1>3

(* The first keys of two paths decide, if they differ in rank.              *)
LEMMA RankDecides ==
    ASSUME NEW p, NEW q, Len(p) \in Nat \ {0}, Len(q) \in Nat \ {0}, Rank(p[1]) < Rank(q[1])
    PROVE  Before(p, q)
<1>1. 1 \in 1..Len(p) /\ 1 <= Len(q)
  OBVIOUS
<1>2. \A j \in 1..(1 - 1) : p[j] = q[j]
  OBVIOUS
<1> QED BY <1>1, <1>2 DEF Before

(* One level of the search: with the first number of every nested mapping   *)
(* it finds that of the mapping.                                            *)
LEMMA SearchFindsFirst ==
    ASSUME NEW depth \in 0..MaxDepth, NEW data \in Mappings(depth), NEW inner,
           \A key \in ToSet(NestedKeys) : IsFirst(inner[key], Nested(data, key))
    PROVE  IsFirst(Search(data, inner), data)
<1>1. depth \in Nat /\ MaxDepth \in Nat /\ depth <= MaxDepth
  BY BoundsAssumption
<1>2. ASSUME NEW path \in Candidates(data)
      PROVE  /\ path \in data /\ path \in Seq(Known) /\ Len(path) \in Nat \ {0}
             /\ path[Len(path)] \in ToSet(PowerKeys) /\ path # Nothing
             /\ Len(path) = 1 => /\ path[1] \in ToSet(PowerKeys) /\ path = <<path[1]>>
             /\ Len(path) > 1 => /\ path[1] \in ToSet(NestedKeys)
                                 /\ Tail(path) \in Candidates(Nested(data, path[1]))
                                 /\ Tail(path) \in Seq(Known)
                                 /\ path = <<path[1]>> \o Tail(path)
  <2>1. path \in data
    BY DEF Candidates
  <2>2. path \in Seq(Known) /\ Len(path) \in Nat \ {0}
    BY <1>1, <2>1, NestedPath
  <2>3. path[Len(path)] \in ToSet(PowerKeys)
    BY <1>1, <2>1, CandidateEnds
  <2>4. path # Nothing
    BY <1>1, <2>1, PathsGrow, NothingAssumption DEF Mappings
  <2>5. Len(path) = 1 => path = <<path[1]>>
    BY <2>2
  <2>6. Len(path) > 1 => /\ path[1] \in ToSet(NestedKeys)
                         /\ Tail(path) \in Candidates(Nested(data, path[1]))
                         /\ Tail(path) \in Seq(Known)
                         /\ path = <<path[1]>> \o Tail(path)
    BY <1>1, <2>1, NestedPath, NestedCandidates
  <2> QED BY <2>1, <2>2, <2>3, <2>4, <2>5, <2>6
<1>3. ASSUME NEW key \in ToSet(NestedKeys)
      PROVE  /\ inner[key] # Nothing <=> Candidates(Nested(data, key)) # {}
             /\ inner[key] # Nothing => /\ inner[key] \in Candidates(Nested(data, key))
                                        /\ inner[key] \in Seq(Known) /\ Len(inner[key]) \in Nat \ {0}
  <2>1. \A rest \in Candidates(Nested(data, key)) :
           rest # Nothing /\ rest \in Seq(Known) /\ Len(rest) \in Nat \ {0}
    <3>1. SUFFICES ASSUME NEW rest \in Candidates(Nested(data, key))
                   PROVE  rest # Nothing /\ rest \in Seq(Known) /\ Len(rest) \in Nat \ {0}
      OBVIOUS
    <3>2. rest \in Nested(data, key)
      BY DEF Candidates
    <3>3. depth - 1 \in Nat /\ depth - 1 <= MaxDepth /\ Nested(data, key) \in Mappings(depth - 1)
      BY <1>1, <3>2, NestedIsMapping
    <3>4. rest \in Paths(MaxDepth)
      BY <1>1, <3>2, <3>3, PathsGrow DEF Mappings
    <3> QED BY <1>1, <3>2, <3>4, NestedPath, NothingAssumption
  <2> QED BY <2>1 DEF IsFirst
<1>4. ASSUME NEW path \in Candidates(data)
      PROVE  /\ Len(path) \in Nat \ {0} /\ path \in Seq(Known)
             /\ Len(path) = 1 =>
                   /\ path = <<path[1]>>
                   /\ \E i \in 1..Len(PowerKeys) : path[1] = PowerKeys[i] /\ Rank(path[1]) = i
             /\ Len(path) # 1 =>
                   /\ Len(path) > 1
                   /\ \E i \in 1..Len(NestedKeys) :
                         path[1] = NestedKeys[i] /\ Rank(path[1]) = Len(PowerKeys) + i
  <2>1. Len(path) \in Nat \ {0} /\ path \in Seq(Known)
    BY <1>2
  <2>2. CASE Len(path) = 1
    <3>1. path[1] \in ToSet(PowerKeys) /\ path = <<path[1]>>
      BY <1>2, <2>2
    <3>2. PICK i \in 1..Len(PowerKeys) : path[1] = PowerKeys[i]
      BY <3>1, KeyRanks
    <3>3. Rank(path[1]) = i
      BY <3>2, KeyRanks
    <3> QED BY <2>1, <2>2, <3>1, <3>2, <3>3
  <2>3. CASE Len(path) # 1
    <3> DEFINE n == Len(path)
    <3>0. n \in Nat \ {0} /\ n # 1
      BY <2>1, <2>3
    <3> HIDE DEF n
    <3>1. n > 1
      BY <3>0
    <3> USE DEF n
    <3>2. path[1] \in ToSet(NestedKeys)
      BY <1>2, <3>1
    <3>3. PICK i \in 1..Len(NestedKeys) : path[1] = NestedKeys[i]
      BY <3>2, KeyRanks
    <3>4. Rank(path[1]) = Len(PowerKeys) + i
      BY <3>3, KeyRanks
    <3> QED BY <2>1, <2>3, <3>1, <3>3, <3>4
  <2> QED BY <2>2, <2>3
<1> DEFINE here == Here(data)
           next == NextIn(inner)
           found == Search(data, inner)
<1>5. found = IF here # 0 THEN <<PowerKeys[here]>>
              ELSE IF next = 0 THEN Nothing
              ELSE <<NestedKeys[next]>> \o inner[NestedKeys[next]]
  BY DEF Search, NextIn, SelectInSeq
<1>6. here # 0 => /\ here \in 1..Len(PowerKeys) /\ <<PowerKeys[here]>> \in data
                  /\ \A i \in 1..Len(PowerKeys) : <<PowerKeys[i]>> \in data => here <= i
  BY HereIsFirst
<1>0. Len(PowerKeys) \in Nat /\ Len(NestedKeys) \in Nat
  BY KeyRanks
<1>7. here = 0 => \A i \in 1..Len(PowerKeys) : <<PowerKeys[i]>> \notin data
  BY HereIsFirst
<1>8. next # 0 => /\ next \in 1..Len(NestedKeys) /\ inner[NestedKeys[next]] # Nothing
                  /\ \A i \in 1..Len(NestedKeys) : inner[NestedKeys[i]] # Nothing => next <= i
  BY NextIsFirst
<1>9. next = 0 => \A i \in 1..Len(NestedKeys) : inner[NestedKeys[i]] = Nothing
  BY <1>0, NextIsFirst
<1> HIDE DEF here, next, found
<1>10. ASSUME here = 0, NEW path \in Candidates(data)
       PROVE  /\ Len(path) > 1
              /\ \E i \in 1..Len(NestedKeys) : path[1] = NestedKeys[i] /\ inner[NestedKeys[i]] # Nothing
  <2>1. Len(path) # 1 /\ Len(path) > 1
    <3>1. ASSUME Len(path) = 1 PROVE FALSE
      <4>1. path \in data
        BY <1>2
      <4>2. path = <<path[1]>> /\ \E i \in 1..Len(PowerKeys) : path[1] = PowerKeys[i]
        BY <1>4, <3>1
      <4>3. PICK i \in 1..Len(PowerKeys) : path = <<PowerKeys[i]>>
        BY <4>2
      <4> QED BY <1>7, <1>10, <4>1, <4>3
    <3> QED BY <1>4, <3>1
  <2>2. PICK i \in 1..Len(NestedKeys) : path[1] = NestedKeys[i]
    BY <1>4, <2>1
  <2>3. path[1] \in ToSet(NestedKeys) /\ Candidates(Nested(data, path[1])) # {}
    BY <1>2, <2>1
  <2> QED BY <1>3, <2>1, <2>2, <2>3
<1>11. CASE here # 0
  <2>1. found = <<PowerKeys[here]>> /\ found \in data /\ Len(found) = 1 /\ found[1] = PowerKeys[here]
    BY <1>5, <1>6, <1>11
  <2>2. PowerKeys[here] \in ToSet(PowerKeys) /\ Rank(found[1]) = here /\ here \in Nat
    BY <1>6, <1>11, <2>1, KeyRanks
  <2>3. found \in Candidates(data)
    BY <1>1, <2>1, <2>2, CandidateEnds
  <2>4. ASSUME NEW path \in Candidates(data) \ {found} PROVE Before(found, path)
    <3>0. /\ path \in Candidates(data) /\ path \in data /\ path # found
          /\ Len(path) \in Nat \ {0}
      BY <1>2, <2>4
    <3>1. Rank(found[1]) < Rank(path[1])
      <4>1. CASE Len(path) = 1
        <5>1. PICK i \in 1..Len(PowerKeys) : path[1] = PowerKeys[i] /\ Rank(path[1]) = i
          BY <1>4, <3>0, <4>1
        <5>2. path = <<PowerKeys[i]>>
          BY <1>4, <3>0, <4>1, <5>1
        <5>3. here <= i /\ i # here
          BY <1>6, <1>11, <2>1, <3>0, <5>2
        <5> QED BY <1>0, <2>2, <5>1, <5>3
      <4>2. CASE Len(path) # 1
        <5>1. PICK i \in 1..Len(NestedKeys) : Rank(path[1]) = Len(PowerKeys) + i
          BY <1>4, <3>0, <4>2
        <5>2. here <= Len(PowerKeys)
          BY <1>0, <1>6, <1>11
        <5> QED BY <1>0, <2>2, <5>1, <5>2
      <4> QED BY <4>1, <4>2
    <3> QED BY <2>1, <3>0, <3>1, RankDecides
  <2> QED BY <2>3, <2>4 DEF IsFirst, found
<1>12. CASE here = 0 /\ next = 0
  <2>1. found = Nothing
    BY <1>5, <1>12
  <2>2. Candidates(data) = {}
    BY <1>9, <1>10, <1>12
  <2> QED BY <2>1, <2>2 DEF IsFirst, found
<1>13. CASE here = 0 /\ next # 0
  <2> DEFINE key == NestedKeys[next]
             rest == inner[key]
  <2>1. next \in 1..Len(NestedKeys) /\ key \in ToSet(NestedKeys) /\ rest # Nothing
    BY <1>8, <1>13, KeyRanks
  <2>2. key \in Known
    BY <2>1 DEF Known
  <2>3. /\ rest \in Candidates(Nested(data, key))
        /\ rest \in Seq(Known) /\ Len(rest) \in Nat \ {0}
        /\ \A other \in Candidates(Nested(data, key)) \ {rest} : Before(rest, other)
    BY <1>3, <2>1 DEF IsFirst
  <2>4. found = <<key>> \o rest
    BY <1>5, <1>13
  <2>5. Rank(key) = Len(PowerKeys) + next /\ Len(PowerKeys) \in Nat /\ next \in Nat
    BY <2>1, KeyRanks
  <2> HIDE DEF key, rest
  <2>6. found \in Candidates(data)
    BY <1>1, <2>1, <2>3, <2>4, NestedCandidates
  <2>7. /\ found \in Seq(Known) /\ Len(found) = Len(rest) + 1 /\ found[1] = key
        /\ \A i \in 1..Len(rest) : found[i + 1] = rest[i]
    BY <2>2, <2>3, <2>4, Prepended
  <2>8. ASSUME NEW path \in Candidates(data) \ {found} PROVE Before(found, path)
    <3>1. PICK i \in 1..Len(NestedKeys) :
             /\ path[1] = NestedKeys[i] /\ Rank(path[1]) = Len(PowerKeys) + i
             /\ inner[NestedKeys[i]] # Nothing
      BY <1>10, <1>13, KeyRanks
    <3>2. next <= i /\ i \in Nat
      BY <1>8, <1>13, <3>1, KeyRanks
    <3>3. Len(path) > 1 /\ path \in Seq(Known)
      BY <1>2, <1>10, <1>13
    <3>4. CASE next < i
      <4>1. Rank(found[1]) < Rank(path[1])
        BY <2>5, <2>7, <3>1, <3>2, <3>4
      <4>2. Len(found) \in Nat \ {0} /\ Len(path) \in Nat \ {0}
        BY <2>3, <2>7, <3>3
      <4> QED BY <4>1, <4>2, RankDecides
    <3>5. CASE next = i
      <4>1. /\ path[1] = key /\ path = <<key>> \o Tail(path)
            /\ Tail(path) \in Candidates(Nested(data, key)) /\ Tail(path) \in Seq(Known)
        BY <1>2, <3>1, <3>3, <3>5 DEF key
      <4> DEFINE tail == Tail(path)
      <4>2. tail # rest
        BY <2>4, <2>8, <4>1
      <4>3. Before(rest, tail)
        BY <2>3, <4>1, <4>2
      <4>4. /\ Len(path) = Len(tail) + 1
            /\ \A j \in 1..Len(tail) : path[j + 1] = tail[j]
        BY <2>2, <4>1, Prepended
      <4>5. Len(tail) \in Nat
        BY <4>1
      <4> HIDE DEF tail
      <4>6. PICK j \in 1..Len(rest) :
               /\ j <= Len(tail) /\ \A k \in 1..(j - 1) : rest[k] = tail[k]
               /\ Rank(rest[j]) < Rank(tail[j])
        BY <4>3 DEF Before
      <4>7. /\ j + 1 \in 1..Len(found) /\ j + 1 <= Len(path)
            /\ found[j + 1] = rest[j] /\ path[j + 1] = tail[j]
        BY <2>3, <2>7, <4>4, <4>5, <4>6
      <4>8. ASSUME NEW k \in 1..((j + 1) - 1) PROVE found[k] = path[k]
        <5>1. CASE k = 1
          BY <2>7, <4>1, <5>1
        <5>2. CASE k # 1
          <6>1. /\ k - 1 \in 1..(j - 1) /\ k - 1 \in 1..Len(rest) /\ k - 1 \in 1..Len(tail)
                /\ (k - 1) + 1 = k
            BY <2>3, <4>5, <4>6, <5>2
          <6>2. rest[k - 1] = tail[k - 1] /\ found[(k - 1) + 1] = rest[k - 1]
                /\ path[(k - 1) + 1] = tail[k - 1]
            BY <2>7, <4>4, <4>6, <6>1
          <6> QED BY <6>1, <6>2
        <5> QED BY <5>1, <5>2
      <4> QED BY <4>6, <4>7, <4>8 DEF Before
    <3> QED BY <2>5, <3>2, <3>4, <3>5
  <2> QED BY <2>6, <2>8 DEF IsFirst, found
<1> QED BY <1>11, <1>12, <1>13
-----------------------------------------------------------------------------
(* The search finds the first number of every mapping, however deep: were   *)
(* there a depth at which it does not, the least one would contradict       *)
(* SearchFindsFirst.                                                        *)
LEMMA MappingFindsFirst ==
    \A data \in Mappings(MaxDepth) : IsFirst(ParseMapping[data], data)
<1> DEFINE Holds(depth) == \A data \in Mappings(depth) : IsFirst(ParseMapping[data], data)
           Failing == {depth \in 0..MaxDepth : ~Holds(depth)}
<1>1. MaxDepth \in Nat
  BY BoundsAssumption
<1>2. IsFirst(ParseMapping[{}], {})
  <2>1. {} \in Mappings(MaxDepth)
    BY DEF Mappings
  <2>2. ParseMapping[{}] = Nothing
    BY <2>1, ParseMappingEquation DEF Recursion
  <2> QED BY <2>2 DEF IsFirst, Candidates
<1>3. SUFFICES ASSUME Failing # {} PROVE FALSE
  BY <1>1
<1>4. PICK depth \in Failing : \A other \in Failing : depth <= other
  <2>1. Failing \subseteq Nat
    BY <1>1
  <2> HIDE DEF Failing
  <2> QED BY <1>3, <2>1, LeastNumber
<1>5. depth \in 0..MaxDepth /\ depth \in Nat
  BY <1>1
<1>6. PICK data \in Mappings(depth) : ~IsFirst(ParseMapping[data], data)
  OBVIOUS
<1> DEFINE inner == [key \in ToSet(NestedKeys) |-> ParseMapping[Nested(data, key)]]
<1>7. ASSUME NEW key \in ToSet(NestedKeys)
      PROVE  IsFirst(inner[key], Nested(data, key))
  <2>1. CASE depth = 0
    BY <1>2, <1>5, <2>1, NestedIsMapping
  <2>2. CASE depth > 0
    <3>1. depth - 1 \in 0..MaxDepth /\ ~(depth <= depth - 1)
      BY <1>1, <1>5, <2>2
    <3>2. Nested(data, key) \in Mappings(depth - 1)
      BY <1>5, <2>2, NestedIsMapping
    <3>3. Holds(depth - 1)
      BY <1>4, <3>1
    <3> QED BY <3>2, <3>3
  <2> QED BY <1>5, <2>1, <2>2
<1>8. IsFirst(Search(data, inner), data)
  <2> HIDE DEF inner
  <2> QED BY <1>5, <1>7, SearchFindsFirst
<1>9. ParseMapping[data] = IF data = {} THEN Nothing ELSE Search(data, inner)
  <2>1. data \in Mappings(MaxDepth)
    BY <1>1, <1>5, PathsGrow DEF Mappings
  <2> QED BY <2>1, ParseMappingEquation DEF Recursion
<1>10. data # {}
  BY <1>2, <1>6
<1> QED BY <1>6, <1>8, <1>9, <1>10

(* _parse_power_w, for a bare number too.                                   *)
LEMMA ParseFindsFirst ==
    \A data \in Responses : IsFirst(ParsePower(data), data)
<1>1. SUFFICES ASSUME NEW data \in Responses PROVE IsFirst(ParsePower(data), data)
  OBVIOUS
<1>2. CASE data = {<<>>}
  <2>1. Candidates(data) = {<<>>} /\ ParsePower(data) = <<>>
    BY <1>2 DEF Candidates, ParsePower
  <2> QED BY <2>1 DEF IsFirst
<1>3. CASE data # {<<>>}
  <2>1. data \in Mappings(MaxDepth)
    BY <1>3 DEF Responses, Mappings, kSubset
  <2> QED BY <1>3, <2>1, MappingFindsFirst DEF ParsePower
<1> QED BY <1>2, <1>3

-----------------------------------------------------------------------------
(* The endpoint's answers are answers of SenseClient: what is proved of a   *)
(* client holds whatever Sense responds.                                    *)
THEOREM PowerIsClient == PowerSpec => Spec
<1>1. PowerInit => Init
  BY DEF PowerInit
<1>2. [PowerNext]_powerVars => [Next]_vars
  <2>1. ASSUME NEW data, PowerAnswered(data) PROVE Next
    <3>1. AlwaysOn \in Slots /\ {"changed", "good"} \subseteq Answers
      BY DEF AlwaysOn, Slots, PowerSlots, Answers
    <3>2. \E answer \in Answers : Extended(AlwaysOn, answer)
      BY <2>1, <3>1 DEF PowerAnswered
    <3> QED BY <3>1, <3>2 DEF Next
  <2>2. ASSUME OtherSteps PROVE Next
    <3>1. AlwaysOn \in Slots /\ "fails" \in Answers
      BY DEF AlwaysOn, Slots, PowerSlots, Answers
    <3>2. Next \/ Cancelled \/ Extended(AlwaysOn, "fails")
      BY <2>2 DEF OtherSteps
    <3> QED BY <3>1, <3>2 DEF Next
  <2> QED BY <2>1, <2>2 DEF PowerNext, powerVars
<1> QED BY <1>1, <1>2, PTL DEF PowerSpec, Spec

(* Whatever an endpoint responds, _parse_power_w returns the first number   *)
(* in the order of its keys, and None only if there is none.                *)
THEOREM PowerFindsFirst == PowerSpec => []ParserFindsFirst
<1>1. PowerInit => ParserFindsFirst
  BY DEF PowerInit, ParserFindsFirst
<1>2. ParserFindsFirst /\ [PowerNext]_powerVars => ParserFindsFirst'
  <2>1. ASSUME NEW data \in Responses, response' = data PROVE ParserFindsFirst'
    <3>1. Found[data] = ParsePower(data)
      BY DEF Found
    <3>2. IsFirst(Found[data], data)
      BY <3>1, ParseFindsFirst
    <3> QED BY <2>1, <3>2 DEF ParserFindsFirst
  <2>2. ASSUME response' = Nothing PROVE ParserFindsFirst'
    BY <2>2 DEF ParserFindsFirst
  <2>3. ASSUME ParserFindsFirst, UNCHANGED response PROVE ParserFindsFirst'
    BY <2>3 DEF ParserFindsFirst
  <2> QED BY <2>1, <2>2, <2>3 DEF PowerNext, PowerAnswered, OtherSteps, powerVars
<1> QED BY <1>1, <1>2, PTL DEF PowerSpec
=============================================================================
