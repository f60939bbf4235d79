----------------------------- MODULE ReleaseJob -----------------------------
(***************************************************************************)
(* The release workflow (.github/workflows/release.yml) with the check of  *)
(* the tagged metadata (scripts/check_release.py).  A run builds an image  *)
(* of its own, so the run that pushed an image stands for its digest.      *)
(***************************************************************************)
EXTENDS Naturals, Sequences

CONSTANTS
    Versions,   \* versions; the tag of a version is named by it
    Runs,       \* runs of the workflow, which bounds their number
    None

ASSUME RunsAssumption == None \notin Runs \cup Versions

VARIABLES
    meta,      \* what each tagged commit says of its version
    status,    \* of each run: "idle", "pending", "running" or "over"
    tag,       \* the release_ref of each run
    passed,    \* how many steps of the job each run has passed
    image,     \* the registry: the run whose image has each version's name
    release    \* the run each version's GitHub release names as its image

vars == <<meta, status, tag, passed, image, release>>

Fields == {"manifest.version", "project.version", "INTEGRATION_VERSION",
           "manifest.image", "container.image"}

Checks == {"metadata", "tests", "contract", "widgets", "smoke test"}

(* MUTANT of Steps: the image is published before it is smoke-tested.       *)
StepsPushEarly == <<"checkout", "metadata", "tests", "contract", "widgets", "sign in",
                    "push", "smoke test", "package", "release">>

Steps == <<"checkout", "metadata", "tests", "contract", "widgets", "smoke test", "sign in",
           "push", "package", "release">>

Init ==
    /\ meta \in [Versions -> [Fields -> Versions]]
    /\ status = [r \in Runs |-> "idle"]
    /\ tag = [r \in Runs |-> None]
    /\ passed = [r \in Runs |-> 0]
    /\ image = [v \in Versions |-> None]
    /\ release = [v \in Versions |-> None]

-----------------------------------------------------------------------------
(* validate_release *)

MetadataMatches(v) == \A f \in Fields : meta[v][f] = v

-----------------------------------------------------------------------------
(* The concurrency group: one run at a time, one pending, and a run that is *)
(* dispatched takes the place of the pending one.                           *)

Running == {r \in Runs : status[r] = "running"}

(* MUTANTS of Dispatch: the workflow has no concurrency group; the run uses *)
(* its own ref instead of release_ref.                                      *)
DispatchAtOnce(r, v) ==
    /\ status[r] = "idle"
    /\ status' = [status EXCEPT ![r] = "running"]
    /\ tag' = [tag EXCEPT ![r] = v]
    /\ UNCHANGED <<meta, passed, image, release>>

DispatchOwnRef(r, v) ==
    /\ status[r] = "idle" /\ Running = {}
    /\ status' = [status EXCEPT ![r] = "running"]
    /\ tag' = [tag EXCEPT ![r] = r]
    /\ UNCHANGED <<meta, passed, image, release>>

Dispatch(r, v) ==
    /\ status[r] = "idle"
    /\ status' = [q \in Runs |->
                     CASE q = r -> IF Running = {} THEN "running" ELSE "pending"
                       [] status[q] = "pending" -> "over"
                       [] OTHER -> status[q]]
    /\ tag' = [tag EXCEPT ![r] = v]
    /\ UNCHANGED <<meta, passed, image, release>>

(* Run r is over: the pending run starts. *)
End(r) ==
    status' = [q \in Runs |-> CASE q = r -> "over"
                                [] status[q] = "pending" -> "running"
                                [] OTHER -> status[q]]

-----------------------------------------------------------------------------
(* The job *)

NextStep(r) == Steps[passed[r] + 1]
At(r, steps) == status[r] = "running" /\ NextStep(r) \in steps

(* The image of the version in the manifest, which is the tag's by then.    *)
ImageName(r) == meta[tag[r]]["manifest.image"]

Advance(r) ==
    /\ passed' = [passed EXCEPT ![r] = @ + 1]
    /\ IF passed[r] + 1 = Len(Steps) THEN End(r) ELSE UNCHANGED status

Pass(r) ==
    /\ status[r] = "running"
    /\ NextStep(r) \notin {"push", "release"}
    /\ NextStep(r) = "metadata" => MetadataMatches(tag[r])
    /\ Advance(r)
    /\ UNCHANGED <<meta, tag, image, release>>

Push(r) ==
    /\ At(r, {"push"})
    /\ image' = [image EXCEPT ![ImageName(r)] = r]
    /\ Advance(r)
    /\ UNCHANGED <<meta, tag, release>>

(* gh release create refuses a tag that has a release.                      *)
Release(r) ==
    /\ At(r, {"release"})
    /\ release[tag[r]] = None
    /\ release' = [release EXCEPT ![tag[r]] = r]
    /\ Advance(r)
    /\ UNCHANGED <<meta, tag, image>>

(* Any step may fail, time out or be cancelled ...                          *)
Fail(r) ==
    /\ status[r] = "running"
    /\ End(r)
    /\ UNCHANGED <<meta, tag, passed, image, release>>

(* ... and a publication may do so after it took effect.                    *)
FailAfterPush(r) ==
    /\ At(r, {"push"})
    /\ image' = [image EXCEPT ![ImageName(r)] = r]
    /\ End(r)
    /\ UNCHANGED <<meta, tag, passed, release>>

FailAfterRelease(r) ==
    /\ At(r, {"release"})
    /\ release[tag[r]] = None
    /\ release' = [release EXCEPT ![tag[r]] = r]
    /\ End(r)
    /\ UNCHANGED <<meta, tag, passed, image>>

(* Every run is over; running the job again is another run.                 *)
Done == (\A r \in Runs : status[r] = "over") /\ UNCHANGED vars

Next ==
    \/ \E r \in Runs, v \in Versions : Dispatch(r, v)
    \/ \E r \in Runs : \/ Pass(r) \/ Push(r) \/ Release(r)
                       \/ Fail(r) \/ FailAfterPush(r) \/ FailAfterRelease(r)
    \/ Done

Spec == Init /\ [][Next]_vars

-----------------------------------------------------------------------------
(* Properties *)

(* Every variable has its type.                                             *)
TypeOK ==
    /\ meta \in [Versions -> [Fields -> Versions]]
    /\ status \in [Runs -> {"idle", "pending", "running", "over"}]
    /\ tag \in [Runs -> Versions \cup {None}]
    /\ passed \in [Runs -> 0..Len(Steps)]
    /\ image \in [Versions -> Runs \cup {None}]
    /\ release \in [Versions -> Runs \cup {None}]

PassedSteps(r) == {Steps[i] : i \in 1..passed[r]}

(* "Python tests, contract validation, widget tests/conformance, and a      *)
(* container import smoke test must pass before publication" (README.md):   *)
(* whatever failed and was run again, the image a version's name points to  *)
(* was built from the commit of that version's tag, by a run that had       *)
(* passed every check.                                                      *)
ImageIsChecked ==
    \A v \in Versions : image[v] # None => tag[image[v]] = v /\ Checks \subseteq PassedSteps(image[v])

(* A release is created while the image it names is the one in the          *)
(* registry: no other run pushes between a run's push and its release.      *)
ReleaseRecordsImage ==
    [][\A v \in Versions : release'[v] # release[v] => image'[v] = release'[v]]_vars
=============================================================================
