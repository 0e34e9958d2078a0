---------------------------- MODULE MaintenanceProofs -----------------------
(***************************************************************************)
(* Proofs about the two programs that maintain the project: the release    *)
(* workflow and the skill installer.                                       *)
(*                                                                         *)
(* For every set of runs, commits and versions: what the release workflow  *)
(* publishes is certified, a reported success is real, and runs do not     *)
(* collide with one another.  For every set of files, filters and          *)
(* contents: an install that ends leaves a copy --check accepts, and       *)
(* --check accepts no copy in which a file is missing, stale or cut short. *)
(***************************************************************************)
EXTENDS ReleasePublish, SkillInstall, TLAPS

Mine(r) == VersionOf[source[r]]

(* The group admits one run at a time.                                     *)
Exclusive == \A r, s \in Run : stage[r] \in Running /\ stage[s] \in Running => r = s

PastIdentity == Running \ {"identity"}
PastCI == PastIdentity \ {"ci"}

(* What a run knows at each stage, as far as nobody interfered since.      *)
Knows(r) ==
  /\ stage[r] # "idle" => source[r] \in Commit
  /\ stage[r] = "idle" => source[r] = None
  /\ r \in touched => stage[r] # "idle" /\ Mine(r) \in foreign
  /\ stage[r] \in PastIdentity => source[r] \in Sound
  /\ stage[r] \in PastCI => source[r] \in green
  /\ stage[r] \in {"release", "create"} => sawTag[r] \in {None, source[r]}
  /\ stage[r] \in {"release", "create"} /\ r \notin touched => tag[Mine(r)] = sawTag[r]
  /\ stage[r] = "create" /\ r \notin touched => release[Mine(r)] = "none"
  /\ stage[r] \in {"verify tag", "verify release"} /\ r \notin touched =>
       tag[Mine(r)] = source[r]
  /\ stage[r] \in {"published", "unchanged"} /\ r \notin touched =>
       tag[Mine(r)] = source[r] /\ release[Mine(r)] = "stable"
  /\ stage[r] = "collided" => Mine(r) \in foreign

(* CI runs on commits of main, and its successes are remembered.           *)
Remembered ==
  \A c \in Commit : /\ ci[c] # "none" => c \in landed
                    /\ ci[c] = "success" => c \in green

IInv ==
  /\ TypeOK
  /\ Remembered
  /\ Exclusive
  /\ \A r \in Run : Knows(r)
  /\ ReleasesAreCertified

LEMMA InitInv == Init => IInv
  <1> SUFFICES ASSUME Init PROVE IInv  OBVIOUS
  <1>1. TypeOK  BY CommitAssumption DEF Init, TypeOK
  <1>2. Exclusive  BY DEF Init, Exclusive, Running
  <1>3. \A r \in Run : Knows(r)  BY DEF Init, Knows, PastIdentity, PastCI, Running
  <1>4. ReleasesAreCertified  BY DEF Init, ReleasesAreCertified
  <1>5. Remembered  BY DEF Init, Remembered
  <1> QED  BY <1>1, <1>2, <1>3, <1>4, <1>5 DEF IInv

(* A step of run r other than Create: it changes the stage of r, what r    *)
(* saw, and whether r is disturbed.                                        *)
Quiet(r) ==
  /\ stage[r] \in Running
  /\ stage'[r] \in Running \cup Ended
  /\ stage' = [stage EXCEPT ![r] = stage'[r]]
  /\ sawTag'[r] \in Commit \cup {None}
  /\ sawTag' = [sawTag EXCEPT ![r] = sawTag'[r]]
  /\ touched' \in {touched, touched \ {r}}
  /\ UNCHANGED <<world, remote, event, source, foreign, meddled>>

LEMMA QuietKeepsOthers ==
  ASSUME IInv, NEW r \in Run, Quiet(r)
  PROVE  /\ TypeOK' /\ Remembered' /\ Exclusive' /\ ReleasesAreCertified'
         /\ \A q \in Run \ {r} : Knows(q)'
  <1> USE DEF world, remote
  <1>1. TypeOK'
    <2>1. stage' \in [Run -> {"idle", "waiting"} \cup Running \cup Ended]
      BY DEF IInv, TypeOK, Quiet
    <2>2. sawTag' \in [Run -> Commit \cup {None}]
      BY DEF IInv, TypeOK, Quiet
    <2> QED  BY <2>1, <2>2 DEF IInv, TypeOK, Quiet
  <1>2. Exclusive'
    BY DEF IInv, TypeOK, Exclusive, Quiet
  <1>3. ReleasesAreCertified'
    BY DEF IInv, ReleasesAreCertified, Quiet
  <1>4. ASSUME NEW q \in Run \ {r}
        PROVE  Knows(q)'
    <2>1. /\ stage'[q] = stage[q] /\ sawTag'[q] = sawTag[q]
          /\ q \in touched' <=> q \in touched
      BY DEF IInv, TypeOK, Quiet
    <2>2. UNCHANGED <<source, tag, release, green, foreign>>
      BY DEF Quiet
    <2> QED  BY <2>1, <2>2 DEF IInv, Knows, Mine
  <1>5. Remembered'
    BY DEF IInv, Remembered, Quiet
  <1> QED  BY <1>1, <1>2, <1>3, <1>4, <1>5

LEMMA CheckIdentityStep ==
  ASSUME IInv, NEW r \in Run, CheckIdentity(r)
  PROVE  IInv'
  <1>1. /\ stage[r] = "identity" /\ stage'[r] \in {"ci", "rejected"}
        /\ stage'[r] = "ci" => source[r] \in Sound
        /\ sawTag'[r] = sawTag[r]
        /\ r \in touched' <=> r \in touched
    BY DEF IInv, TypeOK, CheckIdentity, GoTo, Mine, TagFits, history, Running
  <1>2. UNCHANGED <<world, remote, event, source, foreign, meddled>>
    BY DEF CheckIdentity, history
  <1>3. Quiet(r)
    BY DEF IInv, TypeOK, CheckIdentity, GoTo, Quiet, Running, Ended, history
  <1>4. Knows(r)'
    BY <1>1, <1>2, CommitAssumption DEF IInv, TypeOK, Knows, Mine, Remembered, ReleasesAreCertified,
           Running, PastIdentity, PastCI, world, remote
  <1> QED  BY <1>3, <1>4, QuietKeepsOthers DEF IInv

LEMMA FindCIStep ==
  ASSUME IInv, NEW r \in Run, FindCI(r)
  PROVE  IInv'
  <1>1. /\ stage[r] = "ci" /\ stage'[r] \in {"main", "rejected"}
        /\ stage'[r] = "main" => ci[source[r]] = "success"
        /\ sawTag'[r] = sawTag[r]
        /\ r \in touched' <=> r \in touched
    BY DEF IInv, TypeOK, FindCI, GoTo, Mine, TagFits, history, Running
  <1>2. UNCHANGED <<world, remote, event, source, foreign, meddled>>
    BY DEF FindCI, history
  <1>3. Quiet(r)
    BY DEF IInv, TypeOK, FindCI, GoTo, Quiet, Running, Ended, history
  <1>4. Knows(r)'
    BY <1>1, <1>2, CommitAssumption DEF IInv, TypeOK, Knows, Mine, Remembered, ReleasesAreCertified,
           Running, PastIdentity, PastCI, world, remote
  <1> QED  BY <1>3, <1>4, QuietKeepsOthers DEF IInv

LEMMA MeetDeadlineStep ==
  ASSUME IInv, NEW r \in Run, MeetDeadline(r)
  PROVE  IInv'
  <1>1. /\ stage[r] = "ci" /\ stage'[r] = "rejected"
        /\ sawTag'[r] = sawTag[r]
        /\ r \in touched' <=> r \in touched
    BY DEF IInv, TypeOK, MeetDeadline, GoTo, Mine, TagFits, history, Running
  <1>2. UNCHANGED <<world, remote, event, source, foreign, meddled>>
    BY DEF MeetDeadline, history
  <1>3. Quiet(r)
    BY DEF IInv, TypeOK, MeetDeadline, GoTo, Quiet, Running, Ended, history
  <1>4. Knows(r)'
    BY <1>1, <1>2, CommitAssumption DEF IInv, TypeOK, Knows, Mine, Remembered, ReleasesAreCertified,
           Running, PastIdentity, PastCI, world, remote
  <1> QED  BY <1>3, <1>4, QuietKeepsOthers DEF IInv

LEMMA CheckMainStep ==
  ASSUME IInv, NEW r \in Run, CheckMain(r)
  PROVE  IInv'
  <1>1. /\ stage[r] = "main" /\ stage'[r] \in {"tag", "rejected"}
        /\ sawTag'[r] = sawTag[r]
        /\ r \in touched' <=> r \in touched
    BY DEF IInv, TypeOK, CheckMain, GoTo, Mine, TagFits, history, Running
  <1>2. UNCHANGED <<world, remote, event, source, foreign, meddled>>
    BY DEF CheckMain, history
  <1>3. Quiet(r)
    BY DEF IInv, TypeOK, CheckMain, GoTo, Quiet, Running, Ended, history
  <1>4. Knows(r)'
    BY <1>1, <1>2, CommitAssumption DEF IInv, TypeOK, Knows, Mine, Remembered, ReleasesAreCertified,
           Running, PastIdentity, PastCI, world, remote
  <1> QED  BY <1>3, <1>4, QuietKeepsOthers DEF IInv

LEMMA CheckReleaseStep ==
  ASSUME IInv, NEW r \in Run, CheckRelease(r)
  PROVE  IInv'
  <1>1. /\ stage[r] = "release" /\ stage'[r] \in {"create", "unchanged", "rejected"}
        /\ stage'[r] = "create" => release[Mine(r)] = "none"
        /\ stage'[r] = "unchanged" => release[Mine(r)] = "stable" /\ sawTag[r] = source[r]
        /\ sawTag'[r] = sawTag[r]
        /\ r \in touched' <=> r \in touched
    BY DEF IInv, TypeOK, CheckRelease, GoTo, Mine, TagFits, history, Running
  <1>2. UNCHANGED <<world, remote, event, source, foreign, meddled>>
    BY DEF CheckRelease, history
  <1>3. Quiet(r)
    BY DEF IInv, TypeOK, CheckRelease, GoTo, Quiet, Running, Ended, history
  <1>4. Knows(r)'
    BY <1>1, <1>2, CommitAssumption DEF IInv, TypeOK, Knows, Mine, Remembered, ReleasesAreCertified,
           Running, PastIdentity, PastCI, world, remote
  <1> QED  BY <1>3, <1>4, QuietKeepsOthers DEF IInv

LEMMA VerifyReleaseStep ==
  ASSUME IInv, NEW r \in Run, VerifyRelease(r)
  PROVE  IInv'
  <1>1. /\ stage[r] = "verify release" /\ stage'[r] \in {"published", "collided"}
        /\ stage'[r] = "published" <=> release[Mine(r)] = "stable"
        /\ sawTag'[r] = sawTag[r]
        /\ r \in touched' <=> r \in touched
    BY DEF IInv, TypeOK, VerifyRelease, GoTo, Mine, TagFits, history, Running
  <1>2. UNCHANGED <<world, remote, event, source, foreign, meddled>>
    BY DEF VerifyRelease, history
  <1>3. Quiet(r)
    BY DEF IInv, TypeOK, VerifyRelease, GoTo, Quiet, Running, Ended, history
  <1>4. Knows(r)'
    <2>1. source[r] \in Commit /\ source[r] # None /\ Mine(r) \in Version /\ Knows(r)
      BY <1>1, CommitAssumption DEF IInv, Knows, Mine
    <2>2. /\ UNCHANGED <<green, source, tag, release, foreign>>
          /\ Mine(r)' = Mine(r)
      BY <1>2 DEF world, remote, Mine
    <2>3. stage'[r] = "collided" => Mine(r) \in foreign
      BY <1>1, <2>1 DEF IInv, Knows, ReleasesAreCertified
    <2> QED
      BY <1>1, <2>1, <2>2, <2>3 DEF Knows, Running, PastIdentity, PastCI
  <1> QED  BY <1>3, <1>4, QuietKeepsOthers DEF IInv

LEMMA CrashStep ==
  ASSUME IInv, NEW r \in Run, Crash(r)
  PROVE  IInv'
  <1>1. /\ stage[r] \in Running /\ stage'[r] = "crashed"
        /\ sawTag'[r] = sawTag[r]
        /\ r \in touched' <=> r \in touched
    BY DEF IInv, TypeOK, Crash, GoTo, Mine, TagFits, history, Running
  <1>2. UNCHANGED <<world, remote, event, source, foreign, meddled>>
    BY DEF Crash, history
  <1>3. Quiet(r)
    BY DEF IInv, TypeOK, Crash, GoTo, Quiet, Running, Ended, history
  <1>4. Knows(r)'
    BY <1>1, <1>2, CommitAssumption DEF IInv, TypeOK, Knows, Mine, Remembered, ReleasesAreCertified,
           Running, PastIdentity, PastCI, world, remote
  <1> QED  BY <1>3, <1>4, QuietKeepsOthers DEF IInv

LEMMA CheckTagStep ==
  ASSUME IInv, NEW r \in Run, CheckTag(r)
  PROVE  IInv'
  <1>1. /\ stage[r] = "tag" /\ stage'[r] \in {"release", "rejected"}
        /\ sawTag'[r] = tag[Mine(r)]
        /\ stage'[r] = "release" => sawTag'[r] \in {None, source[r]}
        /\ r \notin touched'
    BY DEF IInv, TypeOK, CheckTag, GoTo, Mine, TagFits, history, Running
  <1>2. UNCHANGED <<world, remote, event, source, foreign, meddled>>
    BY DEF CheckTag, history
  <1>3. Quiet(r)
    <2>1. tag[Mine(r)] \in Commit \cup {None}
      BY <1>1, CommitAssumption DEF IInv, TypeOK, Knows, Mine
    <2> QED
      BY <1>1, <1>2, <2>1 DEF IInv, TypeOK, CheckTag, GoTo, Quiet, Running, Ended
  <1>4. Knows(r)'
    BY <1>1, <1>2, CommitAssumption DEF IInv, TypeOK, Knows, Mine, Remembered, ReleasesAreCertified,
           Running, PastIdentity, PastCI, world, remote
  <1> QED  BY <1>3, <1>4, QuietKeepsOthers DEF IInv

LEMMA VerifyTagStep ==
  ASSUME IInv, NEW r \in Run, VerifyTag(r)
  PROVE  IInv'
  <1>1. /\ stage[r] = "verify tag" /\ stage'[r] \in {"verify release", "collided"}
        /\ stage'[r] = "verify release" <=> tag[Mine(r)] = source[r]
        /\ sawTag'[r] = sawTag[r]
        /\ r \notin touched'
    BY DEF IInv, TypeOK, VerifyTag, GoTo, Mine, TagFits, history, Running
  <1>2. UNCHANGED <<world, remote, event, source, foreign, meddled>>
    BY DEF VerifyTag, history
  <1>3. Quiet(r)
    BY DEF IInv, TypeOK, VerifyTag, GoTo, Quiet, Running, Ended, history
  <1>4. Knows(r)'
    BY <1>1, <1>2, CommitAssumption DEF IInv, TypeOK, Knows, Mine, Remembered, ReleasesAreCertified,
           Running, PastIdentity, PastCI, world, remote
  <1> QED  BY <1>3, <1>4, QuietKeepsOthers DEF IInv

(* Creating a release.                                                     *)
LEMMA CreateStep ==
  ASSUME IInv, NEW r \in Run, Create(r)
  PROVE  IInv'
  <1> DEFINE v == Mine(r)
  <1>1. /\ stage[r] = "create" /\ source[r] \in Commit /\ source[r] # None
        /\ v \in Version /\ Knows(r)
    BY CommitAssumption DEF IInv, Create, Knows, Mine
  <1>2. UNCHANGED <<world, event, source, sawTag, history>>
    BY DEF Create
  <1>3. \A q \in Run \ {r} : stage'[q] = stage[q] /\ stage[q] \notin Running
    BY <1>1 DEF IInv, TypeOK, Exclusive, Create, GoTo, Running
  <1>4. CASE release[v] = "none" /\ (sawTag[r] # None => tag[v] # None)
    <2>1. /\ release' = [release EXCEPT ![v] = "stable"]
          /\ tag' = [tag EXCEPT ![v] = IF tag[v] = None THEN source[r] ELSE tag[v]]
          /\ stage' = [stage EXCEPT ![r] = "verify tag"]
      BY <1>4 DEF Create, GoTo, Mine
    <2>2. TypeOK'
      BY <1>1, <1>2, <2>1 DEF IInv, TypeOK, world, history, Running
    <2>3. Remembered' /\ Exclusive'
      BY <1>1, <1>2, <1>3, <2>1 DEF IInv, Remembered, Exclusive, world
    <2>4. ReleasesAreCertified'
      <3> SUFFICES ASSUME NEW w \in Version \ foreign'
                   PROVE  /\ (release'[w] = "none" /\ tag'[w] = None)
                               \/ (release'[w] = "stable" /\ tag'[w] # None)
                          /\ tag'[w] # None => tag'[w] \in Sound \cap green' /\ VersionOf[tag'[w]] = w
        BY DEF ReleasesAreCertified
      <3>1. w \notin foreign /\ green' = green
        BY <1>2 DEF world, history
      <3>2. CASE w = v
        <4>1. release[v] = "none" /\ tag[v] = None
          BY <1>1, <1>4, <3>1, <3>2 DEF IInv, ReleasesAreCertified
        <4>2. release'[v] = "stable" /\ tag'[v] = source[r]
          BY <1>1, <2>1, <4>1 DEF IInv, TypeOK
        <4>3. source[r] \in Sound /\ source[r] \in green
          BY <1>1 DEF Knows, PastIdentity, PastCI, Running
        <4> QED  BY <1>1, <3>1, <3>2, <4>2, <4>3 DEF Mine
      <3>3. CASE w # v
        BY <1>1, <2>1, <3>1, <3>3 DEF IInv, TypeOK, ReleasesAreCertified
      <3> QED  BY <3>2, <3>3
    <2>5. Knows(r)'
      BY <1>1, <1>2, <2>1 DEF IInv, TypeOK, Knows, Mine, world, history, Running,
         PastIdentity, PastCI
    <2>6. ASSUME NEW q \in Run \ {r}  PROVE Knows(q)'
      <3>1. Knows(q) /\ stage'[q] = stage[q] /\ stage[q] \notin Running
        BY <1>3 DEF IInv
      <3>2. /\ UNCHANGED <<green, source, sawTag, foreign, touched>>
            /\ Mine(q)' = Mine(q)
        BY <1>2 DEF world, history, Mine
      <3>3. stage[q] \in {"published", "unchanged"} /\ q \notin touched =>
              tag'[Mine(q)] = source[q] /\ release'[Mine(q)] = "stable"
        <4> SUFFICES ASSUME stage[q] \in {"published", "unchanged"}, q \notin touched
                     PROVE  tag'[Mine(q)] = source[q] /\ release'[Mine(q)] = "stable"
          OBVIOUS
        <4>1. Mine(q) \in Version /\ tag[Mine(q)] = source[q] /\ release[Mine(q)] = "stable"
          BY <3>1, CommitAssumption DEF Knows, Mine
        <4> QED  BY <1>1, <1>4, <2>1, <4>1 DEF IInv, TypeOK
      <3> QED  BY <3>1, <3>2, <3>3 DEF Knows, Running, PastIdentity, PastCI
    <2> QED  BY <2>2, <2>3, <2>4, <2>5, <2>6 DEF IInv
  <1>5. CASE ~ (release[v] = "none" /\ (sawTag[r] # None => tag[v] # None))
    <2>1. UNCHANGED remote /\ stage' = [stage EXCEPT ![r] = "collided"]
      BY <1>5 DEF Create, GoTo, Mine
    <2>2. TypeOK'
      BY <1>1, <1>2, <2>1 DEF IInv, TypeOK, world, history, remote, Ended
    <2>3. Remembered' /\ Exclusive' /\ ReleasesAreCertified'
      BY <1>1, <1>2, <1>3, <2>1 DEF IInv, TypeOK, Remembered, Exclusive, ReleasesAreCertified, world, remote, history
    <2>4. Knows(r)'
      BY <1>1, <1>2, <1>5, <2>1 DEF IInv, TypeOK, Knows, Mine, world, history, remote, Running,
         PastIdentity, PastCI
    <2>5. ASSUME NEW q \in Run \ {r}  PROVE Knows(q)'
      BY <1>2, <1>3, <2>1 DEF IInv, Knows, Mine, world, history, remote
    <2> QED  BY <2>2, <2>3, <2>4, <2>5 DEF IInv
  <1> QED  BY <1>4, <1>5

(* Queueing and starting.                                                  *)
LEMMA QueueStep ==
  ASSUME IInv, NEW r \in Run, NEW c \in Commit, NEW e \in {"push", "workflow_dispatch"},
         Queue(r, c, e), UNCHANGED <<ci, green, remote, sawTag, history>>,
         landed \subseteq landed', landed' \subseteq Commit, main' \in Commit \cup {None}
  PROVE  IInv'
  <1>1. TypeOK'
    BY DEF IInv, TypeOK, Queue, remote, history, Ended
  <1>2. Remembered' /\ ReleasesAreCertified'
    BY DEF IInv, Remembered, ReleasesAreCertified, remote, history
  <1>3. Exclusive'
    BY DEF IInv, TypeOK, Exclusive, Queue, Running
  <1>4. r \notin touched
    BY DEF IInv, Knows, Queue
  <1>5. /\ stage'[r] = "waiting" /\ source'[r] = c
        /\ \A q \in Run \ {r} :
             /\ source'[q] = source[q]
             /\ stage'[q] = stage[q] \/ (stage[q] = "waiting" /\ stage'[q] = "replaced")
    BY DEF IInv, TypeOK, Queue
  <1>6. ASSUME NEW q \in Run  PROVE Knows(q)'
    <2>1. UNCHANGED <<green, tag, release, sawTag, foreign, touched>> /\ Knows(q)
      BY DEF IInv, remote, history
    <2>2. CASE q = r
      BY <1>4, <1>5, <2>1, <2>2 DEF Knows, Running, PastIdentity, PastCI
    <2>3. CASE q # r /\ stage'[q] = stage[q]
      BY <1>5, <2>1, <2>3 DEF Knows, Mine
    <2>4. CASE q # r /\ stage[q] = "waiting" /\ stage'[q] = "replaced"
      BY <1>5, <2>1, <2>4 DEF Knows, Mine, Running, PastIdentity, PastCI
    <2> QED  BY <1>5, <2>2, <2>3, <2>4
  <1> QED  BY <1>1, <1>2, <1>3, <1>6 DEF IInv

LEMMA BeginStep ==
  ASSUME IInv, NEW r \in Run, Begin(r)
  PROVE  IInv'
  <1>1. /\ stage[r] = "waiting" /\ stage'[r] \in {"identity", "skipped"}
        /\ \A q \in Run \ {r} : stage'[q] = stage[q] /\ stage[q] \notin Running
        /\ stage' \in [Run -> {"idle", "waiting"} \cup Running \cup Ended]
    BY DEF IInv, TypeOK, Begin, GroupIsFree, Running, Ended
  <1>2. UNCHANGED <<world, remote, event, source, sawTag, history>>
    BY DEF Begin
  <1>3. TypeOK'
    BY <1>1, <1>2 DEF IInv, TypeOK, world, remote, history
  <1>4. Remembered' /\ ReleasesAreCertified'
    BY <1>2 DEF IInv, Remembered, ReleasesAreCertified, world, remote, history
  <1>5. Exclusive'
    BY <1>1 DEF Exclusive
  <1>6. Knows(r)'
    BY <1>1, <1>2 DEF IInv, Knows, Mine, Running, PastIdentity, PastCI, world, remote, history
  <1>7. ASSUME NEW q \in Run \ {r}  PROVE Knows(q)'
    <2>1. stage'[q] = stage[q] /\ Knows(q)  BY <1>1 DEF IInv
    <2>2. UNCHANGED <<green, tag, release, source, sawTag, foreign, touched>>
      BY <1>2 DEF world, remote, history
    <2> QED  BY <2>1, <2>2 DEF Knows, Mine
  <1> QED  BY <1>3, <1>4, <1>5, <1>6, <1>7 DEF IInv

(* What happens outside the workflow.                                      *)
LEMMA OutsideSteps ==
  ASSUME IInv, Environment
  PROVE  IInv'
  <1>1. CASE \E c \in Commit : PushElsewhere(c) \/ StartCI(c)
    <2>1. /\ UNCHANGED <<green, remote, runs, history>>
          /\ \A c \in Commit : ci'[c] = "success" => ci[c] = "success"
      BY <1>1 DEF IInv, TypeOK, PushElsewhere, StartCI
    <2>2. TypeOK'
      BY <1>1 DEF IInv, TypeOK, PushElsewhere, StartCI, remote, runs, history
    <2>3. Remembered'
      <3>1. CASE \E c \in Commit : PushElsewhere(c)
        BY <2>1, <3>1 DEF IInv, TypeOK, Remembered, PushElsewhere
      <3>2. CASE \E c \in Commit : StartCI(c)
        BY <2>1, <3>2 DEF IInv, TypeOK, Remembered, StartCI
      <3> QED  BY <1>1, <3>1, <3>2
    <2>4. Exclusive' /\ ReleasesAreCertified' /\ \A r \in Run : Knows(r)'
      BY <2>1 DEF IInv, Exclusive, Knows, Mine, ReleasesAreCertified, remote, runs, history
    <2> QED  BY <2>2, <2>3, <2>4 DEF IInv
  <1>2. CASE \E c \in Commit, conclusion \in {"success", "failure"} : EndCI(c, conclusion)
    <2>1. /\ UNCHANGED <<remote, runs, history>>
          /\ green \subseteq green'
          /\ TypeOK' /\ Remembered'
      BY <1>2 DEF IInv, TypeOK, Remembered, EndCI, remote, runs, history
    <2> QED
      BY <2>1 DEF IInv, Exclusive, Knows, Mine, ReleasesAreCertified,
         remote, runs, history
  <1>3. CASE \E v \in Version, t \in Commit \cup {None}, s \in {"none", "stable", "prerelease"} :
               Meddle(v, t, s)
    <2> PICK v \in Version, t \in Commit \cup {None}, s \in {"none", "stable", "prerelease"} :
               Meddle(v, t, s)
      BY <1>3
    <2>1. /\ UNCHANGED <<world, runs>>
          /\ foreign' = foreign \cup {v}
          /\ touched' = touched \cup {r \in Run : source[r] # None /\ Mine(r) = v}
          /\ \A w \in Version \ {v} : tag'[w] = tag[w] /\ release'[w] = release[w]
      BY DEF IInv, TypeOK, Meddle, Mine
    <2>2. TypeOK'
      BY CommitAssumption DEF IInv, TypeOK, Meddle, world, runs
    <2>3. Remembered' /\ Exclusive'
      BY <2>1 DEF IInv, Remembered, Exclusive, world, runs
    <2>4. ReleasesAreCertified'
      BY <2>1 DEF IInv, ReleasesAreCertified, world
    <2>5. ASSUME NEW q \in Run  PROVE Knows(q)'
      <3>1. Knows(q) /\ UNCHANGED <<green, stage, source, sawTag>>
        BY <2>1 DEF IInv, world, runs
      <3>2. CASE stage[q] = "idle"
        BY <2>1, <3>1, <3>2 DEF IInv, TypeOK, Knows, Mine, Running, PastIdentity, PastCI
      <3>3. CASE stage[q] # "idle"
        <4>1. source[q] \in Commit /\ source[q] # None /\ Mine(q) \in Version /\ Mine(q)' = Mine(q)
          BY <3>1, <3>3, CommitAssumption DEF Knows, Mine
        <4>2. CASE Mine(q) = v
          BY <2>1, <3>1, <3>3, <4>1, <4>2 DEF Knows
        <4>3. CASE Mine(q) # v
          BY <2>1, <3>1, <3>3, <4>1, <4>3 DEF Knows
        <4> QED  BY <4>2, <4>3
      <3> QED  BY <3>2, <3>3
    <2> QED  BY <2>2, <2>3, <2>4, <2>5 DEF IInv
  <1> QED  BY <1>1, <1>2, <1>3 DEF Environment

LEMMA NextInv == IInv /\ [Next]_vars => IInv'
  <1> SUFFICES ASSUME IInv, [Next]_vars PROVE IInv'  OBVIOUS
  <1>1. CASE \E r \in Run, c \in Commit : Push(r, c) \/ Dispatch(r, c)
    <2> PICK r \in Run, c \in Commit : Push(r, c) \/ Dispatch(r, c)  BY <1>1
    <2>1. CASE Push(r, c)
      BY <2>1, QueueStep DEF Push, IInv, TypeOK
    <2>2. CASE Dispatch(r, c)
      BY <2>2, QueueStep DEF Dispatch, IInv, TypeOK, world
    <2> QED  BY <2>1, <2>2
  <1>2. CASE \E r \in Run : Begin(r) \/ Step(r) \/ Crash(r)
    BY <1>2, BeginStep, CheckIdentityStep, FindCIStep, MeetDeadlineStep, CheckMainStep,
       CheckTagStep, CheckReleaseStep, CreateStep, VerifyTagStep, VerifyReleaseStep,
       CrashStep DEF Step
  <1>3. CASE Environment
    BY <1>3, OutsideSteps
  <1>4. CASE UNCHANGED vars
    BY <1>4 DEF vars, world, remote, runs, history, IInv, TypeOK, Remembered, Exclusive,
       Knows, Mine, ReleasesAreCertified
  <1> QED  BY <1>1, <1>2, <1>3, <1>4 DEF Next

LEMMA Invariance == Spec => []IInv
  BY InitInv, NextInv, PTL DEF Spec

(* Every state of the workflow and its surroundings is well typed.         *)
THEOREM TypeCorrect == Spec => []TypeOK
  BY Invariance, PTL DEF IInv

(* What nobody else touched was certified before it was published.         *)
THEOREM OnlyCertifiedReleases == Spec => []ReleasesAreCertified
  BY Invariance, PTL DEF IInv

(* A run that reports success has its source published as the stable       *)
(* release, and a run publishes its own source.                            *)
THEOREM SuccessIsPublication == Spec => [](SuccessIsReal /\ PublishesItsSource)
  <1>1. IInv => SuccessIsReal /\ PublishesItsSource
    BY DEF IInv, Knows, Mine, SuccessIsReal, PublishesItsSource
  <1> QED  BY <1>1, Invariance, PTL

(* The runs of the workflow never make one another fail.                   *)
THEOREM RunsDoNotCollide == Spec => []CollisionsAreForeign
  <1>1. IInv => CollisionsAreForeign
    BY DEF IInv, Knows, Mine, CollisionsAreForeign
  <1> QED  BY <1>1, Invariance, PTL

(* The tag of a release just created leads to the commit its run was       *)
(* started for, whatever the other runs did in between, unless outsiders   *)
(* intervened since the run looked (the verify steps after the creation).  *)
THEOREM RunsPublishTheirSource == Spec => []PublishesItsSource
  BY SuccessIsPublication, PTL

-----------------------------------------------------------------------------
(* How far a run has come, in the order of the steps of the workflow.      *)
Places == {"idle", "waiting"} \cup Running \cup Ended
Rank == [s \in Places |->
  CASE s = "idle" -> 0
    [] s = "waiting" -> 1
    [] s = "identity" -> 2
    [] s = "ci" -> 3
    [] s = "main" -> 4
    [] s = "tag" -> 5
    [] s = "release" -> 6
    [] s = "create" -> 7
    [] s = "verify tag" -> 8
    [] s = "verify release" -> 9
    [] OTHER -> 10]

(* The concurrency group holds back at most one run.                       *)
OnePending == \A r, s \in Run : stage[r] = "waiting" /\ stage[s] = "waiting" => r = s

LEMMA Ranks ==
  /\ Rank["idle"] = 0 /\ Rank["waiting"] = 1 /\ Rank["identity"] = 2 /\ Rank["ci"] = 3
  /\ Rank["main"] = 4 /\ Rank["tag"] = 5 /\ Rank["release"] = 6 /\ Rank["create"] = 7
  /\ Rank["verify tag"] = 8 /\ Rank["verify release"] = 9
  /\ \A s \in Ended : Rank[s] = 10
  BY DEF Rank, Places, Running, Ended

Ahead(s, t) == Rank[s] < Rank[t]

(* In a step a run moves ahead or stays where it is.                       *)
Forward == \A r \in Run : stage'[r] = stage[r] \/ Ahead(stage[r], stage'[r])

LEMMA Order ==
  /\ Ahead("idle", "waiting") /\ Ahead("waiting", "identity") /\ Ahead("identity", "ci")
  /\ Ahead("ci", "main") /\ Ahead("main", "tag") /\ Ahead("tag", "release")
  /\ Ahead("release", "create") /\ Ahead("create", "verify tag")
  /\ Ahead("verify tag", "verify release")
  /\ \A s \in Running \cup {"waiting"}, t \in Ended : Ahead(s, t)
<1>1. ASSUME NEW s \in Running \cup {"waiting"} PROVE Rank[s] \in {1, 2, 3, 4, 5, 6, 7, 8, 9}
  BY Zenon, Ranks DEF Running
<1>2. ASSUME NEW s \in Running \cup {"waiting"}, NEW t \in Ended PROVE Rank[s] < Rank[t]
  <2>1. Rank[t] = 10 /\ Rank[s] \in {1, 2, 3, 4, 5, 6, 7, 8, 9}
    BY <1>1, Ranks
  <2>2. QED
    BY <2>1
<1>3. ASSUME NEW s, NEW t, NEW k \in Nat, Rank[s] = k, Rank[t] = k + 1 PROVE Ahead(s, t)
  BY <1>3 DEF Ahead
<1>4. /\ 0 \in Nat /\ 1 \in Nat /\ 2 \in Nat /\ 3 \in Nat /\ 4 \in Nat
      /\ 5 \in Nat /\ 6 \in Nat /\ 7 \in Nat /\ 8 \in Nat
      /\ 0 + 1 = 1 /\ 1 + 1 = 2 /\ 2 + 1 = 3 /\ 3 + 1 = 4 /\ 4 + 1 = 5
      /\ 5 + 1 = 6 /\ 6 + 1 = 7 /\ 7 + 1 = 8 /\ 8 + 1 = 9
  OBVIOUS
<1>5. Ahead("idle", "waiting")
  BY Zenon, <1>3, <1>4, Ranks
<1>6. Ahead("waiting", "identity")
  BY Zenon, <1>3, <1>4, Ranks
<1>7. Ahead("identity", "ci")
  BY Zenon, <1>3, <1>4, Ranks
<1>8. Ahead("ci", "main")
  BY Zenon, <1>3, <1>4, Ranks
<1>9. Ahead("main", "tag")
  BY Zenon, <1>3, <1>4, Ranks
<1>10. Ahead("tag", "release")
  BY Zenon, <1>3, <1>4, Ranks
<1>11. Ahead("release", "create")
  BY Zenon, <1>3, <1>4, Ranks
<1>12. Ahead("create", "verify tag")
  BY Zenon, <1>3, <1>4, Ranks
<1>13. Ahead("verify tag", "verify release")
  BY Zenon, <1>3, <1>4, Ranks
<1>14. QED
  BY <1>2, <1>5, <1>6, <1>7, <1>8, <1>9, <1>10, <1>11, <1>12, <1>13 DEF Ahead

LEMMA NextForward ==
  ASSUME TypeOK, OnePending, [Next]_vars
  PROVE  Forward /\ OnePending'
<1>1. CASE UNCHANGED vars \/ Environment
  <2>1. stage' = stage
    BY <1>1 DEF vars, runs, Environment, PushElsewhere, StartCI, EndCI, Meddle
  <2>2. QED
    BY <2>1 DEF Forward, OnePending
<1>2. ASSUME NEW r \in Run, NEW c \in Commit, Push(r, c) \/ Dispatch(r, c)
      PROVE  Forward /\ OnePending'
  <2>1. PICK e \in {"push", "workflow_dispatch"} : Queue(r, c, e)
    BY <1>2 DEF Push, Dispatch
  <2>2. \A s \in Run : stage'[s] = IF s = r THEN "waiting"
                                   ELSE IF stage[s] = "waiting" THEN "replaced" ELSE stage[s]
    BY <2>1 DEF Queue
  <2>3. stage[r] = "idle" /\ stage'[r] = "waiting"
    BY <2>1, <2>2 DEF Queue
  <2>4. "replaced" \in Ended
    BY DEF Ended
  <2>5. ASSUME NEW s \in Run PROVE stage'[s] = stage[s] \/ Ahead(stage[s], stage'[s])
    <3>1. CASE s = r
      BY <2>3, <3>1, Order
    <3>2. CASE s # r /\ stage[s] = "waiting"
      BY <2>2, <2>4, <3>2, Order
    <3>3. QED
      BY <2>2, <3>1, <3>2
  <2>6. QED
    BY <2>2, <2>5 DEF Forward, OnePending
<1>3. ASSUME NEW r \in Run, Begin(r) \/ Step(r) \/ Crash(r)
      PROVE  Forward /\ OnePending'
  <2> DEFINE On == /\ \A s \in Run \ {r} : stage'[s] = stage[s]
                   /\ stage'[r] # "waiting"
                   /\ Ahead(stage[r], stage'[r])
  <2>1. ASSUME On PROVE Forward /\ OnePending'
    BY <2>1 DEF Forward, OnePending
  <2>2. CASE Begin(r)
    <3>1. On
      BY <2>2, Order DEF Running, Begin, GroupIsFree, TypeOK, Ended
    <3>2. QED
      BY <2>1, <3>1
  <2>3. CASE Crash(r)
    <3>1. On
      BY <2>3, Order DEF Crash, GoTo, TypeOK, Ended, Running
    <3>2. QED
      BY <2>1, <3>1
  <2>4. CASE CheckIdentity(r)
    <3>1. On
      BY <2>4, Order DEF Running, CheckIdentity, GoTo, TypeOK, Ended
    <3>2. QED
      BY <2>1, <3>1
  <2>5. CASE FindCI(r)
    <3>1. On
      BY <2>5, Order DEF Running, FindCI, GoTo, TypeOK, Ended
    <3>2. QED
      BY <2>1, <3>1
  <2>6. CASE MeetDeadline(r)
    <3>1. On
      BY <2>6, Order DEF Running, MeetDeadline, GoTo, TypeOK, Ended
    <3>2. QED
      BY <2>1, <3>1
  <2>7. CASE CheckMain(r)
    <3>1. On
      BY <2>7, Order DEF Running, CheckMain, GoTo, TypeOK, Ended
    <3>2. QED
      BY <2>1, <3>1
  <2>8. CASE CheckTag(r)
    <3>1. On
      BY <2>8, Order DEF Running, CheckTag, GoTo, TypeOK, Ended
    <3>2. QED
      BY <2>1, <3>1
  <2>9. CASE CheckRelease(r)
    <3>1. On
      BY <2>9, Order DEF Running, CheckRelease, GoTo, TypeOK, Ended
    <3>2. QED
      BY <2>1, <3>1
  <2>10. CASE Create(r)
    <3>1. On
      BY <2>10, Order DEF Running, Create, GoTo, TypeOK, Ended
    <3>2. QED
      BY <2>1, <3>1
  <2>11. CASE VerifyTag(r)
    <3>1. On
      BY <2>11, Order DEF Running, VerifyTag, GoTo, TypeOK, Ended
    <3>2. QED
      BY <2>1, <3>1
  <2>12. CASE VerifyRelease(r)
    <3>1. On
      BY <2>12, Order DEF Running, VerifyRelease, GoTo, TypeOK, Ended
    <3>2. QED
      BY <2>1, <3>1
  <2>13. QED
    BY <1>3, <2>2, <2>3, <2>4, <2>5, <2>6, <2>7, <2>8, <2>9, <2>10, <2>11, <2>12 DEF Step
<1>4. QED
  BY <1>1, <1>2, <1>3 DEF Next

(* No run goes back or starts again: each step of the workflow is taken at *)
(* most once by a run, in their order, so that one which has ended stays   *)
(* as it ended, and a run that waits, the only one that does, waits for no *)
(* more than the steps one running run has left (the concurrency group and *)
(* the jobs' steps of publish-release.yml).                                *)
THEOREM RunsOnlyMoveOn ==
  Spec => /\ [][Forward]_vars
          /\ [](OnePending /\ Exclusive)
<1>1. Init => OnePending
  BY DEF Init, OnePending
<1>2. IInv => TypeOK /\ Exclusive
  BY DEF IInv
<1>3. TypeOK /\ OnePending /\ [Next]_vars => OnePending' /\ [Forward]_vars
  BY NextForward
<1>4. QED
  BY <1>1, <1>2, <1>3, Invariance, PTL DEF Spec

-----------------------------------------------------------------------------
(***************************************************************************)
(* The installer.  Its two filters agree on every file considered          *)
(* (FiltersAgree), which is where the assumption on the paths is needed.   *)
(* The rest is what a run knows at each point: nothing is left when        *)
(* copying starts, what is there while it copies is what it copied, and    *)
(* one file at most is open.                                               *)
(***************************************************************************)
(* What a finished copy holds at f. *)
Copied(f) == IF checkout[f] # Absent /\ ~Ignored(f) THEN checkout[f] ELSE Absent

(* The checkout holds the skill throughout a run. *)
Found == pc \in Installing \cup {"done"} => SkillFound
(* Between removal and copying nothing is at the destination. *)
Cleared == pc = "make" => place = "missing"
(* While files are copied the destination holds copies and open files. *)
Copying ==
  pc \in {"copy", "torn"} =>
    /\ place = "dir"
    /\ \A f \in Path : installed[f] \in {Absent, Torn, Copied(f)}
(* No file is open between two copies, and one at most during a copy. *)
OneOpen ==
  /\ pc = "copy" => \A f \in Path : installed[f] # Torn
  /\ pc = "torn" => \A f, g \in Path : installed[f] = Torn /\ installed[g] = Torn => f = g
(* After the copying every file is as it should be. *)
Complete ==
  pc \in {"retire", "done"} => place = "dir" /\ \A f \in Path : installed[f] = Copied(f)
Withdrawn == pc = "done" => retired = {}
(* Only a file that is copied is ever cut short. *)
OnlyCopiesTear == \A f \in Path : installed[f] = Torn => ~Ignored(f)

Knowledge ==
  Found /\ Cleared /\ Copying /\ OneOpen /\ Complete /\ Withdrawn /\ OnlyCopiesTear

InstallInv == InstallTypeOK /\ Knowledge

-----------------------------------------------------------------------------
(***************************************************************************)
(* The copying (_copy_ignore, directory by directory) and the comparison   *)
(* (_is_ignored, on whole paths) leave out the same files.                 *)
(***************************************************************************)
THEOREM FiltersAgree ==
  ASSUME NEW f \in Path
  PROVE  Skipped(f) <=> Ignored(f)
<1>1. f \in Seq(STRING) /\ f # <<>>
  BY PathAssumption
<1>2. Len(f) \in Nat /\ Len(f) >= 1 /\ DOMAIN f = 1 .. Len(f)
  BY <1>1
<1>3. 1 \in DOMAIN f /\ Len(f) \in DOMAIN f
  BY <1>2
<1>4. ASSUME Skipped(f) PROVE Ignored(f)
  <2>1. CASE Cache \in Names(f)
    BY <2>1 DEF Names, Ignored
  <2>2. CASE f[Len(f)] \in Compiled
    BY <2>2, <1>3 DEF Ignored
  <2>3. CASE f[1] \notin ConsumerDirs /\ ~(Len(f) = 1 /\ f[1] \in ConsumerFiles)
    <3>1. f[1] \notin ConsumerFiles
      BY <2>3, PathAssumption
    <3>2. QED
      BY <3>1, <2>3, <1>3 DEF Ignored
  <2>4. QED
    BY <1>4, <2>1, <2>2, <2>3 DEF Skipped
<1>5. ASSUME Ignored(f) PROVE Skipped(f)
  <2>1. PICK k \in DOMAIN f :
          f[k] = Cache \/ f[k] \in Compiled \/ (k = 1 /\ f[k] \notin ConsumerFiles \cup ConsumerDirs)
    BY <1>5 DEF Ignored
  <2>2. CASE f[k] = Cache
    BY <2>2 DEF Skipped, Names
  <2>3. CASE f[k] \in Compiled
    <3>1. k = Len(f)
      <4>1. k \in 1 .. Len(f) /\ k \notin 1 .. Len(f) - 1
        BY <2>3, <1>2, PathAssumption
      <4>2. QED
        BY <4>1, <1>2
    <3>2. QED
      BY <3>1, <2>3 DEF Skipped
  <2>4. CASE k = 1 /\ f[k] \notin ConsumerFiles \cup ConsumerDirs
    BY <2>4 DEF Skipped
  <2>5. QED
    BY <2>1, <2>2, <2>3, <2>4
<1>6. QED
  BY <1>4, <1>5

-----------------------------------------------------------------------------
LEMMA Initially == InstallInit => InstallInv
<1>1. SUFFICES ASSUME InstallInit PROVE InstallInv
  OBVIOUS
<1>2. InstallTypeOK
  <2>1. edits \in 0 .. Edits
    BY <1>1, PathAssumption DEF InstallInit
  <2>2. QED
    BY <1>1, <2>1 DEF InstallInit, InstallTypeOK, Nothing
<1>3. OnlyCopiesTear
  BY <1>1, PathAssumption DEF InstallInit, OnlyCopiesTear
<1>4. QED
  BY <1>1, <1>2, <1>3
     DEF InstallInit, InstallInv, Knowledge, Found, Cleared, Copying, OneOpen, Complete, Withdrawn, Installing

LEMMA TypeIsKept == InstallTypeOK /\ Copying /\ [InstallNext]_installVars => InstallTypeOK'
<1> SUFFICES ASSUME InstallTypeOK, Copying, [InstallNext]_installVars PROVE InstallTypeOK'
  OBVIOUS
<1> USE DEF InstallTypeOK, Installing
<1>1. CASE BeginInstall
  BY <1>1 DEF BeginInstall
<1>2. ASSUME NEW f \in Path, RemoveFile(f) PROVE InstallTypeOK'
  BY <1>2 DEF RemoveFile
<1>3. ASSUME NEW f \in Path, OpenCopy(f) PROVE InstallTypeOK'
  BY <1>3 DEF OpenCopy, ToCopy, Copying
<1>4. ASSUME NEW f \in Path, CloseCopy(f) PROVE InstallTypeOK'
  BY <1>4, PathAssumption DEF CloseCopy, Copying
<1>5. CASE FinishRemoval
  BY <1>5 DEF FinishRemoval, Removed, Nothing
<1>6. CASE MakeDirectory
  BY <1>6 DEF MakeDirectory
<1>7. CASE FinishCopy
  BY <1>7 DEF FinishCopy
<1>8. ASSUME NEW s \in Retired, RemoveRetired(s) PROVE InstallTypeOK'
  BY <1>8 DEF RemoveRetired
<1>9. CASE Finish
  BY <1>9 DEF Finish
<1>10. CASE CutShort
  BY <1>10 DEF CutShort
<1>11. CASE Edit
  <2>1. edits' \in 0 .. Edits
    BY <1>11, PathAssumption DEF Edit
  <2>2. QED
    BY <1>11, <2>1 DEF Edit
<1>12. CASE UNCHANGED installVars
  BY <1>12 DEF installVars
<1>13. QED
  BY <1>1, <1>2, <1>3, <1>4, <1>5, <1>6, <1>7, <1>8, <1>9, <1>10, <1>11, <1>12 DEF InstallNext

(* The run's knowledge is kept: one step for each action. *)
LEMMA KnowledgeIsKept == InstallInv /\ [InstallNext]_installVars => InstallInv'
<1> SUFFICES ASSUME InstallInv, [InstallNext]_installVars PROVE InstallInv'
  OBVIOUS
<1> USE DEF InstallInv, Knowledge
<1>0. InstallTypeOK'
  BY TypeIsKept
<1>1. ASSUME BeginInstall PROVE Knowledge'
  BY <1>1 DEF BeginInstall, Found, Cleared, Copying, OneOpen, Complete, Withdrawn,
              OnlyCopiesTear, Installing, SkillFound, Ignored
<1>2. ASSUME NEW f \in Path, RemoveFile(f) PROVE Knowledge'
  <2>1. OnlyCopiesTear'
    BY <1>2, PathAssumption DEF RemoveFile, InstallTypeOK, OnlyCopiesTear, Ignored
  <2>2. QED
    BY <1>2, <2>1 DEF RemoveFile, Found, Cleared, Copying, OneOpen, Complete, Withdrawn,
                      Installing, SkillFound
<1>3. ASSUME NEW f \in Path, OpenCopy(f) PROVE Knowledge'
  <2>1. \A g \in Path : installed'[g] = IF g = f THEN Torn ELSE installed[g]
    BY <1>3 DEF OpenCopy, InstallTypeOK
  <2>2. \A g \in Path : installed[g] # Torn
    BY <1>3 DEF OpenCopy, OneOpen
  <2>3. Copying'
    BY <1>3, <2>1 DEF OpenCopy, Copying, Copied, Ignored
  <2>4. OneOpen'
    BY <1>3, <2>1, <2>2 DEF OpenCopy, OneOpen
  <2>5. OnlyCopiesTear'
    BY <1>3, <2>1, <2>2 DEF OpenCopy, ToCopy, OnlyCopiesTear, Ignored
  <2>6. QED
    BY <1>3, <2>3, <2>4, <2>5
       DEF OpenCopy, Found, Cleared, Complete, Withdrawn, Installing, SkillFound
<1>4. ASSUME NEW f \in Path, CloseCopy(f) PROVE Knowledge'
  <2>1. \A g \in Path : installed'[g] = IF g = f THEN checkout[f] ELSE installed[g]
    BY <1>4 DEF CloseCopy, InstallTypeOK
  <2>2. \A g \in Path : g # f => installed[g] # Torn
    BY <1>4 DEF CloseCopy, OneOpen
  <2>3. checkout[f] # Torn
    BY PathAssumption DEF InstallTypeOK
  <2>4. \A g \in Path : installed'[g] # Torn
    BY <2>1, <2>2, <2>3
  <2>5. checkout[f] \in {Absent, Copied(f)}
    BY <1>4 DEF CloseCopy, OnlyCopiesTear, Copied
  <2>6. Copying'
    BY <1>4, <2>1, <2>5 DEF CloseCopy, Copying, Copied, Ignored
  <2>7. QED
    BY <1>4, <2>4, <2>6
       DEF CloseCopy, Found, Cleared, OneOpen, Complete, Withdrawn, OnlyCopiesTear,
           Installing, SkillFound
<1>5. ASSUME FinishRemoval PROVE Knowledge'
  <2>1. installed' \in {installed, Nothing}
    BY <1>5 DEF FinishRemoval
  <2>2. OnlyCopiesTear'
    BY <2>1, PathAssumption DEF OnlyCopiesTear, Nothing, Ignored
  <2>3. QED
    BY <1>5, <2>2
       DEF FinishRemoval, Found, Cleared, Copying, OneOpen, Complete, Withdrawn,
           Installing, SkillFound
<1>6. ASSUME MakeDirectory PROVE Knowledge'
  <2>1. \A f \in Path : installed'[f] = Absent
    BY <1>6 DEF MakeDirectory, InstallTypeOK
  <2>2. Copying' /\ OneOpen' /\ OnlyCopiesTear'
    BY <1>6, <2>1, PathAssumption DEF MakeDirectory, Copying, OneOpen, OnlyCopiesTear
  <2>3. QED
    BY <1>6, <2>2
       DEF MakeDirectory, Found, Cleared, Complete, Withdrawn, Installing, SkillFound
<1>7. ASSUME FinishCopy PROVE Knowledge'
  <2>1. \A f \in Path : installed[f] = Copied(f)
    <3>1. TAKE f \in Path
    <3>2. installed[f] \in {Absent, Copied(f)}
      BY <1>7 DEF FinishCopy, Copying, OneOpen
    <3>3. ~(checkout[f] # Absent /\ ~Ignored(f) /\ installed[f] = Absent)
      BY <1>7 DEF FinishCopy, ToCopy
    <3>4. QED
      BY <3>2, <3>3 DEF Copied
  <2>2. Complete'
    BY <1>7, <2>1 DEF FinishCopy, Copying, Complete, Copied, Ignored
  <2>3. QED
    BY <1>7, <2>2
       DEF FinishCopy, Found, Cleared, Copying, OneOpen, Withdrawn, OnlyCopiesTear,
           Installing, SkillFound, Ignored
<1>8. ASSUME NEW s \in Retired, RemoveRetired(s) PROVE Knowledge'
  BY <1>8 DEF RemoveRetired, Found, Cleared, Copying, OneOpen, Complete, Withdrawn,
              OnlyCopiesTear, Installing, SkillFound, Copied, Ignored
<1>9. ASSUME Finish PROVE Knowledge'
  BY <1>9 DEF Finish, Found, Cleared, Copying, OneOpen, Complete, Withdrawn,
              OnlyCopiesTear, Installing, SkillFound, Copied, Ignored
<1>10. ASSUME CutShort PROVE Knowledge'
  BY <1>10 DEF CutShort, Found, Cleared, Copying, OneOpen, Complete, Withdrawn,
               OnlyCopiesTear, Installing, Ignored
<1>11. ASSUME Edit PROVE Knowledge'
  <2>1. \A f \in Path : installed'[f] = Torn => installed[f] = Torn
    <3>1. PICK f \in Path, x \in Content \cup {Absent} :
            UNCHANGED installed \/ installed' = [installed EXCEPT ![f] = x]
      BY <1>11 DEF Edit
    <3>2. x # Torn
      BY PathAssumption
    <3>3. QED
      BY <3>1, <3>2 DEF InstallTypeOK
  <2>2. OnlyCopiesTear'
    BY <2>1 DEF OnlyCopiesTear, Ignored
  <2>3. QED
    BY <1>11, <2>2
       DEF Edit, Found, Cleared, Copying, OneOpen, Complete, Withdrawn, Installing
<1>12. ASSUME UNCHANGED installVars PROVE Knowledge'
  BY <1>12 DEF installVars, Found, Cleared, Copying, OneOpen, Complete, Withdrawn,
               OnlyCopiesTear, SkillFound, Copied, Ignored
<1>13. Knowledge'
  BY <1>1, <1>2, <1>3, <1>4, <1>5, <1>6, <1>7, <1>8, <1>9, <1>10, <1>11, <1>12 DEF InstallNext
<1>14. QED
  BY <1>0, <1>13

THEOREM InstallInvariant == InstallSpec => []InstallInv
<1>1. QED
  BY Initially, KnowledgeIsKept, PTL DEF InstallSpec

-----------------------------------------------------------------------------
(***************************************************************************)
(* An install that ends leaves a copy --check accepts, whatever run        *)
(* crashed before it, wherever (install_skill, then compare_skill).        *)
(***************************************************************************)
THEOREM InstallIsCurrent == InstallSpec => []DoneIsCurrent
<1>1. InstallInv => DoneIsCurrent
  <2> SUFFICES ASSUME InstallInv, pc = "done" PROVE Current
    BY DEF DoneIsCurrent
  <2>1. place = "dir" /\ \A f \in Path : installed[f] = Copied(f)
    BY DEF InstallInv, Knowledge, Complete
  <2>2. \A f \in Path : f \in Wanted <=> Copied(f) # Absent
    BY FiltersAgree DEF Wanted, Copied
  <2>3. \A f \in Path : Copied(f) # Absent => Cache \notin Names(f)
    BY FiltersAgree DEF Copied, Skipped
  <2>4. Present = Wanted
    BY <2>1, <2>2, <2>3 DEF Present, Wanted
  <2>5. \A f \in Wanted : checkout[f] = installed[f]
    BY <2>1, <2>2 DEF Wanted, Copied
  <2>6. Differences = {}
    BY <2>4, <2>5 DEF Differences
  <2>7. QED
    BY <2>1, <2>6 DEF InstallInv, Knowledge, Found, Withdrawn, Current
<1>2. QED
  BY InstallInvariant, <1>1, PTL

(***************************************************************************)
(* A copy --check accepts is whole, after crashes too: every file the      *)
(* copying would bring is as in the checkout, no file is cut short         *)
(* (compare_skill looks at fewer files than there are).                    *)
(***************************************************************************)
THEOREM AcceptedIsWhole == InstallSpec => []CheckIsSound
<1>1. InstallInv => CheckIsSound
  <2> SUFFICES ASSUME InstallInv, Current PROVE
        /\ retired = {}
        /\ \A f \in Path : installed[f] # Torn
        /\ \A f \in Path : checkout[f] # Absent /\ ~Ignored(f) => installed[f] = checkout[f]
    BY DEF CheckIsSound
  <2>1. Wanted = Present /\ \A f \in Wanted : checkout[f] = installed[f]
    BY DEF Current, Differences
  <2>2. \A f \in Path : checkout[f] # Absent /\ ~Ignored(f) => installed[f] = checkout[f]
    BY <2>1, FiltersAgree DEF Wanted
  <2>3. ASSUME NEW f \in Path, installed[f] = Torn PROVE FALSE
    <3>1. ~Skipped(f)
      BY <2>3, FiltersAgree DEF InstallInv, Knowledge, OnlyCopiesTear
    <3>2. f \in Present
      BY <2>3, <3>1, PathAssumption DEF Present, Skipped
    <3>3. checkout[f] = Torn
      BY <2>1, <2>3, <3>2
    <3>4. QED
      BY <3>3, PathAssumption DEF InstallInv, InstallTypeOK
  <2>4. QED
    BY <2>2, <2>3 DEF Current
<1>2. QED
  BY InstallInvariant, <1>1, PTL

(* Every state of an install and its surroundings is well typed.           *)
THEOREM InstallTypeCorrect == InstallSpec => []InstallTypeOK
  BY InstallInvariant, PTL DEF InstallInv
=============================================================================
