-------------------------- MODULE ReleaseJobProofs --------------------------
(***************************************************************************)
(* Theorems about ReleaseJob for every set of versions and runs: only      *)
(* checked images are published, and a release names the published one.    *)
(***************************************************************************)
EXTENDS ReleaseJob, TLAPS

(* The concurrency group: never two runs running, nor two pending.          *)
GroupInv ==
    /\ \A q, r \in Runs : status[q] = "running" /\ status[r] = "running" => q = r
    /\ \A q, r \in Runs : status[q] = "pending" /\ status[r] = "pending" => q = r

(* A run that was dispatched has its tag, and one that did not start has    *)
(* passed nothing; past the check of the metadata, it is that of the tag.   *)
RunInv ==
    \A r \in Runs :
        /\ status[r] # "idle" => tag[r] \in Versions
        /\ status[r] \in {"idle", "pending"} => passed[r] = 0
        /\ status[r] = "running" => passed[r] < 10
        /\ passed[r] >= 2 => tag[r] \in Versions /\ MetadataMatches(tag[r])

(* An image is that of a run for its version past every check; after the    *)
(* push and before the release it is the running one's.                     *)
ImageInv ==
    /\ \A v \in Versions : image[v] # None =>
          status[image[v]] # "idle" /\ tag[image[v]] = v /\ passed[image[v]] >= 7
    /\ \A r \in Runs : status[r] = "running" /\ passed[r] >= 8 => image[tag[r]] = r

InductiveInv == TypeOK /\ GroupInv /\ RunInv /\ ImageInv

-----------------------------------------------------------------------------
(* The job has ten steps; its checks are among the first six, the push is   *)
(* the eighth and the release the last.                                     *)
LEMMA StepOrder ==
    /\ Len(Steps) = 10
    /\ \A i \in 1..10 : Steps[i] = "metadata" <=> i = 2
    /\ \A i \in 1..10 : Steps[i] = "push" <=> i = 8
    /\ \A i \in 1..10 : Steps[i] = "release" <=> i = 10
    /\ Checks \subseteq {Steps[i] : i \in 1..6}
<1>1. Len(Steps) = 10
  BY DEF Steps
<1>2. /\ Steps[1] = "checkout" /\ Steps[2] = "metadata" /\ Steps[3] = "tests"
      /\ Steps[4] = "contract" /\ Steps[5] = "widgets" /\ Steps[6] = "smoke test"
      /\ Steps[7] = "sign in" /\ Steps[8] = "push" /\ Steps[9] = "package"
      /\ Steps[10] = "release"
  BY DEF Steps
<1>3. \A i \in 1..10 : i = 1 \/ i = 2 \/ i = 3 \/ i = 4 \/ i = 5 \/ i = 6 \/ i = 7 \/ i = 8
                       \/ i = 9 \/ i = 10
  OBVIOUS
<1>4. Checks \subseteq {Steps[i] : i \in 1..6}
  <2> SUFFICES ASSUME NEW c \in Checks PROVE \E i \in 1..6 : c = Steps[i]
    OBVIOUS
  <2>1. c = Steps[2] \/ c = Steps[3] \/ c = Steps[4] \/ c = Steps[5] \/ c = Steps[6]
    BY <1>2 DEF Checks
  <2> QED BY <2>1
<1> QED BY <1>1, <1>2, <1>3, <1>4

(* What a run has passed is a number.                                       *)
LEMMA PassedType == TypeOK => \A q \in Runs : passed[q] \in 0..10
BY StepOrder DEF TypeOK

(* The invariant holds at first.                                            *)
LEMMA InitInv == Init => InductiveInv
<1> SUFFICES ASSUME Init PROVE InductiveInv
  OBVIOUS
<1>1. TypeOK
  BY StepOrder DEF Init, TypeOK
<1> QED BY <1>1 DEF Init, InductiveInv, GroupInv, RunInv, ImageInv

(* A dispatched run takes the place of the pending one.                     *)
LEMMA DispatchInv ==
    ASSUME InductiveInv, NEW r \in Runs, NEW v \in Versions, Dispatch(r, v)
    PROVE  InductiveInv'
<1> USE DEF InductiveInv
<1>1. TypeOK'
  BY StepOrder DEF TypeOK, Dispatch
<1>2. \A q \in Runs : q # r => /\ status'[q] = (IF status[q] = "pending" THEN "over" ELSE status[q])
                               /\ tag'[q] = tag[q]
  BY DEF Dispatch, TypeOK
<1>3. /\ status'[r] = (IF Running = {} THEN "running" ELSE "pending")
      /\ tag'[r] = v /\ status[r] = "idle" /\ passed' = passed /\ image' = image /\ meta' = meta
  BY DEF Dispatch, TypeOK
<1>4. GroupInv'
  BY <1>2, <1>3 DEF GroupInv, Running
<1>5. RunInv'
  <2> SUFFICES ASSUME NEW q \in Runs
               PROVE  /\ status'[q] # "idle" => tag'[q] \in Versions
                      /\ status'[q] \in {"idle", "pending"} => passed[q] = 0
                      /\ status'[q] = "running" => passed[q] < 10
                      /\ passed[q] >= 2 => tag'[q] \in Versions /\ MetadataMatches(tag[q])'
    BY <1>3 DEF RunInv
  <2>1. CASE q = r
    BY <1>3, <2>1 DEF RunInv
  <2>2. CASE q # r
    <3>1. tag'[q] = tag[q] /\ meta' = meta
      BY <1>2, <1>3, <2>2
    <3>2. MetadataMatches(tag[q]) => MetadataMatches(tag[q])'
      BY <3>1 DEF MetadataMatches
    <3> QED BY <1>2, <2>2, <3>1, <3>2 DEF RunInv
  <2> QED BY <2>1, <2>2
<1>6. ImageInv'
  <2>1. \A w \in Versions : image[w] # None => image[w] \in Runs /\ image[w] # r
    BY <1>3, RunsAssumption DEF ImageInv, TypeOK
  <2>2. passed[r] = 0
    BY <1>3 DEF RunInv
  <2>3. ASSUME NEW w \in Versions, image'[w] # None
        PROVE  /\ status'[image'[w]] # "idle" /\ tag'[image'[w]] = w
               /\ passed'[image'[w]] >= 7
    BY <1>2, <1>3, <2>1, <2>3 DEF ImageInv
  <2>4. ASSUME NEW q \in Runs, status'[q] = "running", passed'[q] >= 8
        PROVE  image'[tag'[q]] = q
    <3>1. q # r
      BY <1>3, <2>2, <2>4
    <3> QED BY <1>2, <1>3, <2>4, <3>1 DEF ImageInv
  <2> QED BY <2>3, <2>4 DEF ImageInv
<1> QED BY <1>1, <1>4, <1>5, <1>6

(* The end of a run lets the pending one start.                             *)
LEMMA EndGroup ==
    ASSUME InductiveInv, NEW r \in Runs, status[r] = "running", End(r)
    PROVE  /\ status' \in [Runs -> {"idle", "pending", "running", "over"}]
           /\ GroupInv'
           /\ status'[r] = "over"
           /\ \A q \in Runs : /\ status'[q] = "idle" <=> status[q] = "idle"
                              /\ status'[q] # "pending"
                              /\ status'[q] = "running" <=> status[q] = "pending"
<1>1. \A q \in Runs : status'[q] = (CASE q = r -> "over"
                                      [] status[q] = "pending" -> "running"
                                      [] OTHER -> status[q])
  BY DEF End, InductiveInv, TypeOK
<1>2. status' \in [Runs -> {"idle", "pending", "running", "over"}]
  BY DEF End, InductiveInv, TypeOK
<1>3. \A q \in Runs : status[q] = "running" => q = r
  BY DEF InductiveInv, GroupInv
<1> QED BY <1>1, <1>2, <1>3 DEF InductiveInv, GroupInv, TypeOK

(* Run r fails where it is, or passes its next step, and then ends if that  *)
(* was the last.                                                            *)
Proceeds(r) ==
    /\ status[r] = "running"
    /\ passed' = passed \/ passed' = [passed EXCEPT ![r] = @ + 1]
    /\ End(r) \/ (UNCHANGED status /\ passed'[r] < 10)
    /\ UNCHANGED <<meta, tag>>

(* What it leaves as it was.                                                *)
LEMMA ProceedsRun ==
    ASSUME InductiveInv, NEW r \in Runs, Proceeds(r),
           passed[r] = 1 /\ passed'[r] = 2 => MetadataMatches(tag[r])
    PROVE  /\ status' \in [Runs -> {"idle", "pending", "running", "over"}]
           /\ passed' \in [Runs -> 0..10]
           /\ \A q \in Runs : passed'[q] \in {passed[q], passed[q] + 1}
           /\ \A q \in Runs : status'[q] = "idle" <=> status[q] = "idle"
           /\ \A q \in Runs : status'[q] = "running" =>
                 (q = r /\ passed'[r] < 10) \/ (q # r /\ passed'[q] = 0)
           /\ GroupInv' /\ RunInv'
<1> USE DEF InductiveInv
<1>1. passed \in [Runs -> 0..10] /\ passed[r] < 10
  BY StepOrder DEF TypeOK, RunInv, Proceeds
<1>2. /\ passed' \in [Runs -> 0..10]
      /\ passed'[r] \in {passed[r], passed[r] + 1}
      /\ \A q \in Runs : q # r => passed'[q] = passed[q]
  BY <1>1 DEF Proceeds
<1>3. \A q \in Runs : passed'[q] \in {passed[q], passed[q] + 1}
  BY <1>2
<1>4. /\ status' \in [Runs -> {"idle", "pending", "running", "over"}]
      /\ GroupInv'
      /\ \A q \in Runs : status'[q] = "idle" <=> status[q] = "idle"
      /\ \A q \in Runs : status'[q] = "pending" => q # r /\ status[q] = "pending"
      /\ \A q \in Runs : status'[q] = "running" =>
            (q = r /\ passed'[r] < 10) \/ (q # r /\ status[q] = "pending")
  <2>1. CASE End(r)
    BY <2>1, EndGroup DEF Proceeds
  <2>2. CASE UNCHANGED status /\ passed'[r] < 10
    BY <2>2 DEF Proceeds, TypeOK, GroupInv
  <2> QED BY <2>1, <2>2 DEF Proceeds
<1>5. \A q \in Runs : status'[q] = "running" =>
         (q = r /\ passed'[r] < 10) \/ (q # r /\ passed'[q] = 0)
  BY <1>2, <1>4 DEF RunInv
<1>6. RunInv'
  <2> SUFFICES ASSUME NEW q \in Runs
               PROVE  /\ status'[q] # "idle" => tag[q] \in Versions
                      /\ status'[q] \in {"idle", "pending"} => passed'[q] = 0
                      /\ status'[q] = "running" => passed'[q] < 10
                      /\ passed'[q] >= 2 => tag[q] \in Versions /\ MetadataMatches(tag[q])'
    BY DEF RunInv, Proceeds
  <2>1. MetadataMatches(tag[q]) => MetadataMatches(tag[q])'
    BY DEF MetadataMatches, Proceeds
  <2>2. status'[q] # "idle" => tag[q] \in Versions
    BY <1>4 DEF RunInv
  <2>3. status'[q] \in {"idle", "pending"} => passed'[q] = 0
    BY <1>2, <1>4 DEF RunInv, Proceeds
  <2>4. status'[q] = "running" => passed'[q] < 10
    BY <1>5
  <2>5. passed'[q] >= 2 => tag[q] \in Versions /\ MetadataMatches(tag[q])
    <3>1. CASE q = r /\ passed[r] = 1
      BY <1>2, <3>1 DEF RunInv, Proceeds
    <3>2. CASE q = r /\ passed[r] # 1
      BY <1>1, <1>2, <3>2 DEF RunInv, Proceeds
    <3>3. CASE q # r
      BY <1>2, <3>3 DEF RunInv
    <3> QED BY <3>1, <3>2, <3>3
  <2> QED BY <2>1, <2>2, <2>3, <2>4, <2>5
<1> QED BY <1>2, <1>3, <1>4, <1>5, <1>6

(* A step that publishes no image, which the step after the seventh does.   *)
LEMMA NoImageInv ==
    ASSUME InductiveInv, NEW r \in Runs, Proceeds(r), UNCHANGED image,
           passed[r] = 1 /\ passed'[r] = 2 => MetadataMatches(tag[r]),
           passed[r] = 7 => passed'[r] = 7
    PROVE  ImageInv'
<1> USE DEF InductiveInv
<1>1. passed \in [Runs -> 0..10] /\ passed' \in [Runs -> 0..10]
  BY StepOrder, ProceedsRun DEF TypeOK
<1>2. ASSUME NEW v \in Versions, image[v] # None
      PROVE  status'[image[v]] # "idle" /\ tag[image[v]] = v /\ passed'[image[v]] >= 7
  <2>1. image[v] \in Runs
    BY <1>2 DEF TypeOK
  <2> QED BY <1>1, <1>2, <2>1, ProceedsRun DEF ImageInv
<1>3. ASSUME NEW q \in Runs, status'[q] = "running", passed'[q] >= 8
      PROVE  image[tag[q]] = q
  <2>1. q = r
    BY <1>3, ProceedsRun
  <2>2. passed[r] >= 8
    BY <1>1, <1>3, <2>1, ProceedsRun
  <2> QED BY <2>1, <2>2 DEF ImageInv, Proceeds
<1> QED BY <1>2, <1>3 DEF ImageInv, Proceeds

(* The push, whether or not the run survives it.                            *)
LEMMA PushInv ==
    ASSUME InductiveInv, NEW r \in Runs, Proceeds(r), passed[r] = 7,
           image' = [image EXCEPT ![ImageName(r)] = r]
    PROVE  ImageInv' /\ image' \in [Versions -> Runs \cup {None}]
<1> USE DEF InductiveInv
<1>1. passed \in [Runs -> 0..10] /\ passed' \in [Runs -> 0..10]
  BY StepOrder, ProceedsRun DEF TypeOK
<1>2. ImageName(r) = tag[r] /\ tag[r] \in Versions
  <2>1. tag[r] \in Versions /\ MetadataMatches(tag[r])
    BY DEF RunInv
  <2> QED BY <2>1 DEF ImageName, MetadataMatches, Fields
<1>3. image' \in [Versions -> Runs \cup {None}] /\ image'[tag[r]] = r
  BY <1>2 DEF TypeOK
<1>4. ASSUME NEW v \in Versions, image'[v] # None
      PROVE  status'[image'[v]] # "idle" /\ tag[image'[v]] = v /\ passed'[image'[v]] >= 7
  <2>1. CASE v = tag[r]
    <3>1. status'[r] # "idle" /\ passed'[r] >= 7
      BY <1>1, ProceedsRun DEF Proceeds
    <3> QED BY <1>3, <2>1, <3>1
  <2>2. CASE v # tag[r]
    <3>1. image'[v] = image[v] /\ image[v] \in Runs
      BY <1>2, <1>3, <1>4, <2>2 DEF TypeOK
    <3> QED BY <1>1, <1>4, <3>1, ProceedsRun DEF ImageInv
  <2> QED BY <2>1, <2>2
<1>5. ASSUME NEW q \in Runs, status'[q] = "running", passed'[q] >= 8
      PROVE  image'[tag[q]] = q
  BY <1>3, <1>5, ProceedsRun
<1> QED BY <1>3, <1>4, <1>5 DEF ImageInv, Proceeds

(* The step a running run is at, by its number.                             *)
LEMMA RunningAt ==
    ASSUME InductiveInv, NEW r \in Runs, status[r] = "running"
    PROVE  /\ passed[r] \in 0..9
           /\ NextStep(r) = "metadata" <=> passed[r] = 1
           /\ NextStep(r) = "push" <=> passed[r] = 7
           /\ NextStep(r) = "release" <=> passed[r] = 9
<1>1. passed[r] \in 0..9
  BY StepOrder DEF InductiveInv, TypeOK, RunInv
<1>2. passed[r] + 1 \in 1..10
  BY <1>1
<1> QED BY <1>1, <1>2, StepOrder DEF NextStep

(* A run that goes on to its next step proceeds, and so does one that fails.*)
LEMMA AdvanceProceeds ==
    ASSUME InductiveInv, NEW r \in Runs, status[r] = "running", UNCHANGED <<meta, tag>>,
           Advance(r) \/ (End(r) /\ UNCHANGED passed)
    PROVE  Proceeds(r)
<1>1. passed \in [Runs -> 0..10] /\ passed[r] \in 0..9
  BY StepOrder, RunningAt DEF InductiveInv, TypeOK
<1>2. CASE Advance(r)
  <2>1. passed' = [passed EXCEPT ![r] = @ + 1] /\ passed'[r] = passed[r] + 1
    BY <1>1, <1>2 DEF Advance
  <2>2. CASE passed[r] = 9
    BY <1>2, <2>1, <2>2, StepOrder DEF Advance, Proceeds
  <2>3. CASE passed[r] # 9
    <3>1. UNCHANGED status
      BY <1>1, <1>2, <2>3, StepOrder DEF Advance
    <3> QED BY <1>1, <1>2, <2>1, <2>3, <3>1 DEF Proceeds
  <2> QED BY <2>2, <2>3
<1>3. CASE ~Advance(r)
  BY <1>3 DEF Proceeds
<1> QED BY <1>2, <1>3

(* The steps of a run keep the invariant.                                   *)
LEMMA RunStepInv ==
    ASSUME InductiveInv, NEW r \in Runs,
           \/ Pass(r) \/ Push(r) \/ Release(r) \/ Fail(r) \/ FailAfterPush(r) \/ FailAfterRelease(r)
    PROVE  InductiveInv'
<1> USE DEF InductiveInv
<1>1. /\ status[r] = "running" /\ UNCHANGED <<meta, tag>>
      /\ Advance(r) \/ (End(r) /\ UNCHANGED passed)
  BY DEF Pass, Push, Release, Fail, FailAfterPush, FailAfterRelease, At
<1>2. passed[r] \in 0..9
  BY <1>1, RunningAt
<1>3. Proceeds(r)
  BY <1>1, AdvanceProceeds
<1>4. passed[r] = 1 /\ passed'[r] = 2 => MetadataMatches(tag[r])
  <2>1. CASE Pass(r)
    BY <1>1, <2>1, RunningAt DEF Pass
  <2>2. CASE Push(r) \/ Release(r) \/ FailAfterPush(r) \/ FailAfterRelease(r)
    BY <1>1, <2>2, RunningAt DEF Push, Release, FailAfterPush, FailAfterRelease, At
  <2>3. CASE Fail(r)
    BY <2>3 DEF Fail
  <2> QED BY <2>1, <2>2, <2>3
<1>5. /\ status' \in [Runs -> {"idle", "pending", "running", "over"}]
      /\ passed' \in [Runs -> 0..10] /\ GroupInv' /\ RunInv'
  BY <1>3, <1>4, ProceedsRun
<1>6. release' \in [Versions -> Runs \cup {None}]
  BY DEF Pass, Push, Release, Fail, FailAfterPush, FailAfterRelease, TypeOK
<1>7. ImageInv' /\ image' \in [Versions -> Runs \cup {None}]
  <2>1. CASE Push(r) \/ FailAfterPush(r)
    <3>1. passed[r] = 7 /\ image' = [image EXCEPT ![ImageName(r)] = r]
      BY <1>1, <2>1, RunningAt DEF Push, FailAfterPush, At
    <3> QED BY <1>3, <3>1, PushInv
  <2>2. CASE Pass(r) \/ Release(r) \/ Fail(r) \/ FailAfterRelease(r)
    <3>1. UNCHANGED image
      BY <2>2 DEF Pass, Release, Fail, FailAfterRelease
    <3>2. passed[r] = 7 => passed'[r] = 7
      <4>1. CASE Pass(r) \/ Release(r) \/ FailAfterRelease(r)
        BY <1>1, <4>1, RunningAt DEF Pass, Release, FailAfterRelease, At
      <4>2. CASE Fail(r)
        BY <4>2 DEF Fail
      <4> QED BY <2>2, <4>1, <4>2
    <3>3. ImageInv'
      BY <1>3, <1>4, <3>1, <3>2, NoImageInv
    <3> QED BY <3>1, <3>3 DEF TypeOK
  <2> QED BY <2>1, <2>2
<1>8. TypeOK'
  BY <1>1, <1>5, <1>6, <1>7, StepOrder DEF TypeOK
<1> QED BY <1>5, <1>7, <1>8

(* The invariant holds in every state of the workflow.                      *)
THEOREM JobInvariant == Spec => []InductiveInv
<1>1. InductiveInv /\ [Next]_vars => InductiveInv'
  <2> SUFFICES ASSUME InductiveInv, [Next]_vars PROVE InductiveInv'
    OBVIOUS
  <2>1. ASSUME NEW r \in Runs, NEW v \in Versions, Dispatch(r, v) PROVE InductiveInv'
    BY <2>1, DispatchInv
  <2>2. ASSUME NEW r \in Runs,
               \/ Pass(r) \/ Push(r) \/ Release(r)
               \/ Fail(r) \/ FailAfterPush(r) \/ FailAfterRelease(r)
        PROVE  InductiveInv'
    BY <2>2, RunStepInv
  <2>3. CASE UNCHANGED vars
    BY <2>3 DEF vars, InductiveInv, TypeOK, GroupInv, RunInv, ImageInv, MetadataMatches
  <2> QED BY <2>1, <2>2, <2>3 DEF Next, Done
<1> QED BY InitInv, <1>1, PTL DEF Spec

(* Every variable of the workflow keeps its type.                           *)
THEOREM JobTypes == Spec => []TypeOK
BY JobInvariant, PTL DEF InductiveInv

(* The steps an image's run had passed include every check.                 *)
LEMMA CheckedImage == InductiveInv => ImageIsChecked
<1> SUFFICES ASSUME InductiveInv, NEW v \in Versions, image[v] # None
             PROVE  tag[image[v]] = v /\ Checks \subseteq PassedSteps(image[v])
  BY DEF ImageIsChecked
<1>1. image[v] \in Runs /\ tag[image[v]] = v /\ passed[image[v]] \in 7..10
  <2>1. image[v] \in Runs /\ tag[image[v]] = v /\ passed[image[v]] >= 7
    BY DEF InductiveInv, ImageInv, TypeOK
  <2>2. passed[image[v]] \in 0..10
    BY <2>1, PassedType DEF InductiveInv
  <2> QED BY <2>1, <2>2
<1>2. 1..6 \subseteq 1..passed[image[v]]
  BY <1>1
<1>3. {Steps[i] : i \in 1..6} \subseteq PassedSteps(image[v])
  BY <1>2 DEF PassedSteps
<1> QED BY <1>1, <1>3, StepOrder

(* "Python tests, contract validation, widget tests/conformance, and a      *)
(* container import smoke test must pass before publication" (README.md):   *)
(* whatever failed and was run again, for any number of runs and versions.  *)
THEOREM CheckedBeforePublication == Spec => []ImageIsChecked
BY JobInvariant, CheckedImage, PTL

(* A release is created while the registry has the image it names: the      *)
(* concurrency group lets no other run push in between.                     *)
THEOREM ReleaseOfItsImage == Spec => ReleaseRecordsImage
<1>1. InductiveInv /\ [Next]_vars =>
        [\A v \in Versions : release'[v] # release[v] => image'[v] = release'[v]]_vars
  <2> SUFFICES ASSUME InductiveInv, Next, NEW v \in Versions, release'[v] # release[v]
               PROVE  image'[v] = release'[v]
    OBVIOUS
  <2>1. PICK r \in Runs : Release(r) \/ FailAfterRelease(r)
    BY DEF Next, Dispatch, Pass, Push, Fail, FailAfterPush, Done, vars
  <2>2. status[r] = "running" /\ passed[r] = 9
    BY <2>1, RunningAt DEF Release, FailAfterRelease, At
  <2>3. v = tag[r] /\ release'[v] = r
    BY <2>1 DEF Release, FailAfterRelease, InductiveInv, TypeOK
  <2>4. image'[v] = image[v]
    BY <2>1 DEF Release, FailAfterRelease
  <2> QED BY <2>2, <2>3, <2>4 DEF InductiveInv, ImageInv
<1> QED BY JobInvariant, <1>1, PTL DEF Spec, ReleaseRecordsImage
=============================================================================
