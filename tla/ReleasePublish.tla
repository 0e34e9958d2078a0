--------------------------- MODULE ReleasePublish ---------------------------
(***************************************************************************)
(* The release workflow (.github/workflows/publish-release.yml): a run     *)
(* certifies one commit of main, and publishes it as the stable release of *)
(* its version unless that release exists.                                 *)
(*                                                                         *)
(* Each request to the repository is a step of its own, so that between    *)
(* any two of them main advances, CI runs end or are repeated, other       *)
(* people create and delete tags and releases, and the runner dies.        *)
(***************************************************************************)
EXTENDS Naturals, FiniteSets

CONSTANTS
  Run,            \* the workflow runs
  Commit,         \* the commits that may reach main
  Version,        \* the versions
  VersionOf,      \* VersionOf[c]: the version commit c declares
  Sound,          \* commits whose project files agree on that version
  Announced,      \* commits whose subject starts like a release subject
  Titled,         \* commits whose subject names exactly their version
  None,           \* no commit
  Meddling        \* bound: how often outsiders touch tags and releases

ASSUME CommitAssumption ==
  /\ VersionOf \in [Commit -> Version]
  /\ Sound \subseteq Commit
  /\ Titled \subseteq Announced
  /\ Announced \subseteq Commit
  /\ None \notin Commit
  /\ Meddling \in Nat

VARIABLES
  main,      \* the head of main
  landed,    \* the commits that are or were the head of main
  ci,        \* the latest exact-source CI run of each commit
  tag,       \* the commit the tag of each version resolves to
  release,   \* the release of each version
  stage,     \* how far each run has come
  event,     \* what triggered each run
  source,    \* the commit each run is to publish
  sawTag,    \* existing_tag: the tag as a run read it
  green,     \* (history) commits with a successful CI run
  foreign,   \* (history) versions whose tag or release outsiders touched
  touched,   \* (history) runs so disturbed since they last read the tag
  meddled    \* (bound) how often outsiders touched a tag or a release

remote == <<tag, release>>
world == <<main, landed, ci, green>>
runs == <<stage, event, source, sawTag>>
history == <<foreign, touched, meddled>>
vars == <<world, remote, runs, history>>

Running == {"identity", "ci", "main", "tag", "release", "create",
            "verify tag", "verify release"}
Ended == {"published", "unchanged", "rejected", "collided", "crashed",
          "skipped", "replaced"}

TypeOK ==
  /\ main \in Commit \cup {None}
  /\ landed \subseteq Commit
  /\ ci \in [Commit -> {"none", "running", "success", "failure"}]
  /\ tag \in [Version -> Commit \cup {None}]
  /\ release \in [Version -> {"none", "stable", "prerelease"}]
  /\ stage \in [Run -> {"idle", "waiting"} \cup Running \cup Ended]
  /\ event \in [Run -> {"push", "workflow_dispatch"}]
  /\ source \in [Run -> Commit \cup {None}]
  /\ sawTag \in [Run -> Commit \cup {None}]
  /\ green \subseteq landed
  /\ foreign \subseteq Version
  /\ touched \subseteq Run
  /\ meddled \in 0 .. Meddling

Init ==
  /\ main = None
  /\ landed = {}
  /\ ci = [c \in Commit |-> "none"]
  /\ tag = [v \in Version |-> None]
  /\ release = [v \in Version |-> "none"]
  /\ stage = [r \in Run |-> "idle"]
  /\ event = [r \in Run |-> "push"]
  /\ source = [r \in Run |-> None]
  /\ sawTag = [r \in Run |-> None]
  /\ green = {}
  /\ foreign = {}
  /\ touched = {}
  /\ meddled = 0

-----------------------------------------------------------------------------
(* Triggers.  The concurrency group holds one running and one pending run; *)
(* a newer pending run replaces an older one, a running one goes on.       *)
Queue(r, c, e) ==
  /\ stage[r] = "idle"
  /\ stage' = [s \in Run |-> IF s = r THEN "waiting"
                             ELSE IF stage[s] = "waiting" THEN "replaced"
                             ELSE stage[s]]
  /\ event' = [event EXCEPT ![r] = e]
  /\ source' = [source EXCEPT ![r] = c]

(* A commit reaches main; a push to the watched paths triggers a run.      *)
Push(r, c) ==
  /\ c \notin landed
  /\ main' = c
  /\ landed' = landed \cup {c}
  /\ Queue(r, c, "push")
  /\ UNCHANGED <<ci, green, remote, sawTag, history>>

PushElsewhere(c) ==
  /\ c \notin landed
  /\ main' = c
  /\ landed' = landed \cup {c}
  /\ UNCHANGED <<ci, green, remote, runs, history>>

Dispatch(r, c) ==
  /\ Queue(r, c, "workflow_dispatch")
  /\ UNCHANGED <<world, remote, sawTag, history>>

(* The workflow runs one publication at a time.  Mutant: no group.         *)
GroupIgnored(r) == stage[r] = "waiting"

GroupIsFree(r) == stage[r] = "waiting" /\ \A s \in Run : stage[s] \notin Running

Begin(r) ==
  /\ GroupIsFree(r)
  /\ stage' = [stage EXCEPT ![r] =
       IF event[r] = "workflow_dispatch" \/ source[r] \in Announced
       THEN "identity" ELSE "skipped"]
  /\ UNCHANGED <<world, remote, event, source, sawTag, history>>

-----------------------------------------------------------------------------
(* The steps of a run.                                                     *)
GoTo(r, s) == stage' = [stage EXCEPT ![r] = s]

CheckIdentity(r) ==
  /\ stage[r] = "identity"
  /\ GoTo(r, IF source[r] \in Sound /\ (event[r] = "push" => source[r] \in Titled)
             THEN "ci" ELSE "rejected")
  /\ UNCHANGED <<world, remote, event, source, sawTag, history>>

(* A poll that finds the latest CI run complete; other polls change        *)
(* nothing.  Mutant: any conclusion will do.                               *)
AcceptAnyConclusion(r) ==
  /\ stage[r] = "ci"
  /\ ci[source[r]] \in {"success", "failure"}
  /\ GoTo(r, "main")
  /\ UNCHANGED <<world, remote, event, source, sawTag, history>>

FindCI(r) ==
  /\ stage[r] = "ci"
  /\ ci[source[r]] \in {"success", "failure"}
  /\ GoTo(r, IF ci[source[r]] = "success" THEN "main" ELSE "rejected")
  /\ UNCHANGED <<world, remote, event, source, sawTag, history>>

(* Twenty minutes have passed.  Mutant: as long as CI has not started.     *)
NoDeadline(r) ==
  /\ stage[r] = "ci"
  /\ ci[source[r]] = "none"
  /\ GoTo(r, "rejected")
  /\ UNCHANGED <<world, remote, event, source, sawTag, history>>

MeetDeadline(r) ==
  /\ stage[r] = "ci"
  /\ GoTo(r, "rejected")
  /\ UNCHANGED <<world, remote, event, source, sawTag, history>>

CheckMain(r) ==
  /\ stage[r] = "main"
  /\ GoTo(r, IF main = source[r] THEN "tag" ELSE "rejected")
  /\ UNCHANGED <<world, remote, event, source, sawTag, history>>

(* The tag of this version may be missing or lead to this source.          *)
TagFits(r, t) == t \in {None, source[r]}

CheckTag(r) ==
  /\ stage[r] = "tag"
  /\ LET now == tag[VersionOf[source[r]]]
     IN  /\ sawTag' = [sawTag EXCEPT ![r] = now]
         /\ GoTo(r, IF TagFits(r, now) THEN "release" ELSE "rejected")
  /\ touched' = touched \ {r}
  /\ UNCHANGED <<world, remote, event, source, foreign, meddled>>

(* An existing release is left alone, and the run is a success when it is  *)
(* the stable release of this source.                                      *)
CheckRelease(r) ==
  /\ stage[r] = "release"
  /\ LET now == release[VersionOf[source[r]]]
     IN  GoTo(r, IF now = "none" THEN "create"
                 ELSE IF now = "stable" /\ sawTag[r] = source[r] THEN "unchanged"
                 ELSE "rejected")
  /\ UNCHANGED <<world, remote, event, source, sawTag, history>>

(* gh release create: creates the release, and the tag unless it exists;   *)
(* refuses an existing release and, with --verify-tag, a missing tag.      *)
Create(r) ==
  /\ stage[r] = "create"
  /\ LET v == VersionOf[source[r]]
     IN  IF release[v] = "none" /\ (sawTag[r] # None => tag[v] # None)
         THEN /\ release' = [release EXCEPT ![v] = "stable"]
              /\ tag' = [tag EXCEPT ![v] = IF tag[v] = None THEN source[r] ELSE tag[v]]
              /\ GoTo(r, "verify tag")
         ELSE /\ GoTo(r, "collided")
              /\ UNCHANGED remote
  /\ UNCHANGED <<world, event, source, sawTag, history>>

(* The published tag is dereferenced again.  Mutant: the tag that was seen *)
(* before is trusted.                                                      *)
TrustSeenTag(r) ==
  /\ stage[r] = "verify tag"
  /\ GoTo(r, "verify release")
  /\ touched' = touched \ {r}
  /\ UNCHANGED <<world, remote, event, source, sawTag, foreign, meddled>>

VerifyTag(r) ==
  /\ stage[r] = "verify tag"
  /\ GoTo(r, IF tag[VersionOf[source[r]]] = source[r] THEN "verify release" ELSE "collided")
  /\ touched' = touched \ {r}
  /\ UNCHANGED <<world, remote, event, source, sawTag, foreign, meddled>>

VerifyRelease(r) ==
  /\ stage[r] = "verify release"
  /\ GoTo(r, IF release[VersionOf[source[r]]] = "stable" THEN "published" ELSE "collided")
  /\ UNCHANGED <<world, remote, event, source, sawTag, history>>

(* The runner dies, a request fails, or thirty minutes have passed.        *)
Crash(r) ==
  /\ stage[r] \in Running
  /\ GoTo(r, "crashed")
  /\ UNCHANGED <<world, remote, event, source, sawTag, history>>

Step(r) ==
  \/ CheckIdentity(r) \/ FindCI(r) \/ MeetDeadline(r) \/ CheckMain(r)
  \/ CheckTag(r) \/ CheckRelease(r) \/ Create(r)
  \/ VerifyTag(r) \/ VerifyRelease(r)

-----------------------------------------------------------------------------
(* Everyone else.                                                          *)
StartCI(c) ==
  /\ c \in landed
  /\ ci[c] # "running"
  /\ ci' = [ci EXCEPT ![c] = "running"]
  /\ UNCHANGED <<main, landed, green, remote, runs, history>>

EndCI(c, conclusion) ==
  /\ ci[c] = "running"
  /\ ci' = [ci EXCEPT ![c] = conclusion]
  /\ green' = IF conclusion = "success" THEN green \cup {c} ELSE green
  /\ UNCHANGED <<main, landed, remote, runs, history>>

(* Someone else sets the tag and the release of a version.                 *)
Meddle(v, t, s) ==
  /\ meddled < Meddling
  /\ s # "none" => t # None
  /\ tag' = [tag EXCEPT ![v] = t]
  /\ release' = [release EXCEPT ![v] = s]
  /\ foreign' = foreign \cup {v}
  /\ touched' = touched \cup {r \in Run : source[r] # None /\ VersionOf[source[r]] = v}
  /\ meddled' = meddled + 1
  /\ UNCHANGED <<world, runs>>

Environment ==
  \/ \E c \in Commit : PushElsewhere(c) \/ StartCI(c)
  \/ \E c \in Commit, conclusion \in {"success", "failure"} : EndCI(c, conclusion)
  \/ \E v \in Version, t \in Commit \cup {None}, s \in {"none", "stable", "prerelease"} :
       Meddle(v, t, s)

Next ==
  \/ \E r \in Run, c \in Commit : Push(r, c) \/ Dispatch(r, c)
  \/ \E r \in Run : Begin(r) \/ Step(r) \/ Crash(r)
  \/ Environment

Spec == Init /\ [][Next]_vars

(* A runner does not stop between two steps without dying, and the group   *)
(* starts a pending run when it is free.                                   *)
FairSpec == Spec /\ \A r \in Run : WF_vars(Begin(r)) /\ WF_vars(Step(r))

-----------------------------------------------------------------------------
(* What nobody else touched is certified: the release of a version is      *)
(* stable, and its tag leads to a commit of main that declares this        *)
(* version consistently and has passed CI, whatever crashed or was rerun.  *)
ReleasesAreCertified ==
  \A v \in Version \ foreign :
    /\ (release[v] = "none" /\ tag[v] = None) \/ (release[v] = "stable" /\ tag[v] # None)
    /\ tag[v] # None => tag[v] \in Sound \cap green /\ VersionOf[tag[v]] = v

(* A run reports success only if the version's tag leads to its source and *)
(* its release is stable, unless outsiders touched them after its last     *)
(* look at the tag; what they did before that look does not excuse it.     *)
SuccessIsReal ==
  \A r \in Run \ touched : stage[r] \in {"published", "unchanged"} =>
    /\ tag[VersionOf[source[r]]] = source[r]
    /\ release[VersionOf[source[r]]] = "stable"

(* No run of this workflow gets in the way of another: publication and its *)
(* verification fail only where outsiders intervened.                      *)
CollisionsAreForeign ==
  \A r \in Run : stage[r] = "collided" => VersionOf[source[r]] \in foreign

(* A run publishes its own source: the tag of a release it has just        *)
(* created leads there unless outsiders intervened since it looked.        *)
PublishesItsSource ==
  \A r \in Run \ touched : stage[r] \in {"verify tag", "verify release"} =>
    tag[VersionOf[source[r]]] = source[r]

(* Every run that has been queued ends, although CI may never do.          *)
EveryRunEnds == \A r \in Run : stage[r] = "waiting" ~> stage[r] \in Ended

=============================================================================
