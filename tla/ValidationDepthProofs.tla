------------------------ MODULE ValidationDepthProofs ------------------------
(***************************************************************************)
(* Proofs about ValidationDepth for every set of tasks: what a pass means, *)
(* that intervals are runs, that a missing input is reported once, and     *)
(* that the evaluation keeps the promise DatasetValidation relies on.      *)
(***************************************************************************)
EXTENDS ValidationDepth, TLAPS, FiniteSetTheorems, SequenceTheorems, WellFoundedInduction

(* The stages that follow a section.                                       *)
AfterDataset == Stages \ {"dataset"}
AfterSeries == AfterDataset \ {"series", "raised"}
AfterMapping == AfterSeries \ {"mapping"}
AfterTime == AfterMapping \ {"time"}
AfterScenarios == AfterTime \ {"scenarios"}
AfterSplit == AfterScenarios \ {"split"}
AfterPoints == AfterSplit \ {"points"}
AfterResiduals == AfterPoints \ {"intervals"}
AfterEnvelopes == AfterResiduals \ {"envelopes"}
AfterAdequacy == AfterEnvelopes \ {"adequacy"}

(* All that was found, at whatever place; nothing was found so far.        *)
AllOf(found) == UNION {found[k] : k \in DOMAIN found}
Quiet == AllOf(findings) = {}

(* An input was found not to be usable.                                    *)
InputFound(about) == \E f \in AllOf(findings) : OfInput(f) /\ f.about = about

(* No place has two findings about inputs.                                 *)
Single(found) == \A k \in DOMAIN found : \A f, g \in found[k] : OfInput(f) /\ OfInput(g) => f = g

(* What it means that a section had nothing to find.                       *)
DatasetGood ==
  /\ Range(task.files) \cap task.gone = {}
  /\ task.bench = "agrees"
  /\ section["dataset"] = "current"

MappingGood ==
  \A k \in DOMAIN task.roles : \E e \in Candidates(task.roles[k]) : ~Uncertain(Edges[e])

TimeGood ==
  /\ Valid # {}
  /\ Cardinality(Valid) = 1 => task.scope = "snapshot"
  /\ task.scope = "scenario_set" => ~(Cardinality(Scenarios) < 2)

SplitGood ==
  task.calibrated =>
    /\ task.training # <<>> /\ ~Overlap
    /\ Range(PathsOf(task.training \o task.holdout)) \cap task.gone = {}

ResultsGood == \A k \in DOMAIN results : results[k] = "pass"

AdequacyGood == ~task.short \/ section["adequacy"] = "not_applicable"

DatasetEarned == stage \in AfterDataset /\ Quiet => DatasetGood

SeriesEarned ==
  /\ stage \notin AfterSeries => points = <<>>
  /\ stage \in AfterSeries /\ Quiet /\ InputsAtHand => HasSeries

MappingEarned == stage \in AfterMapping /\ Quiet => MappingGood

TimeEarned == stage \in AfterTime /\ Quiet /\ HasSeries => TimeGood

ScenariosEarned ==
  stage \in AfterScenarios /\ Quiet /\ HasSeries => Scenarios = Declared

SplitEarned == stage \in AfterSplit /\ Quiet => SplitGood

PointsEarned ==
  /\ \A k \in DOMAIN results : results[k] = Outcome(points[k])
  /\ Quiet => \A k \in DOMAIN results : results[k] \in {"pass", "fail"}
  /\ stage \notin AfterSplit => results = <<>>
  /\ stage \notin AfterPoints => scanned = 0
  /\ stage \in AfterPoints /\ HasSeries /\ task.auditRead => Len(results) = Len(points)

ResidualsEarned ==
  stage \in AfterResiduals /\ HasSeries /\ task.auditRead =>
    /\ scanned = Len(results)
    /\ Quiet => ResultsGood /\ auditPass

EnvelopesEarned ==
  stage \in AfterEnvelopes =>
    /\ section["envelopes"] = "blocked" <=> "error" \in Violations
    /\ \A s \in Violations : \E f \in AllOf(findings) : ~OfInput(f) /\ f.severity = s

AdequacyEarned == stage \in AfterAdequacy /\ Quiet /\ InputsAtHand => AdequacyGood

VerdictEarned == Done /\ auditPass => section["envelopes"] # "blocked"

(* What each section passed has left behind, so that a list without a      *)
(* finding says that there was nothing to find.                            *)
Earned ==
  /\ DatasetEarned /\ SeriesEarned /\ MappingEarned /\ TimeEarned /\ ScenariosEarned
  /\ SplitEarned /\ PointsEarned /\ ResidualsEarned /\ EnvelopesEarned /\ AdequacyEarned
  /\ VerdictEarned

(* A file that is not there has been found.                                *)
GoneFound ==
  /\ stage \in AfterDataset => \A path \in Range(task.files) \cap task.gone : InputFound(path)
  /\ stage \in AfterSeries /\ task.seriesFile \in task.gone => InputFound(task.seriesFile)

(* The intervals so far: each is a run of failures of one block and        *)
(* scenario that the next point does not continue, they come in order, and *)
(* no failure is left out.                                                 *)
Runs ==
  /\ \A i \in DOMAIN intervals :
       /\ intervals[i].first \in 1 .. intervals[i].last
       /\ intervals[i].last \in 1 .. scanned
       /\ \A l \in intervals[i].first .. intervals[i].last :
            /\ results[l] = "fail"
            /\ points[l].block = intervals[i].block
            /\ points[l].scenario = intervals[i].scenario
       /\ LET next == intervals[i].last + 1 IN
          next <= scanned /\ results[next] = "fail" =>
            ~(/\ points[next].block = intervals[i].block
              /\ points[next].scenario = intervals[i].scenario)
  /\ \A i, j \in DOMAIN intervals : i < j => intervals[i].last < intervals[j].last
  /\ \A l \in 1 .. scanned : results[l] = "fail" =>
       \E i \in DOMAIN intervals : l \in intervals[i].first .. intervals[i].last

Given == task \in Task

(* Findings about one input are one finding, in one place.                 *)
Once(found) ==
  \A j, k \in DOMAIN found : \A f \in found[j], g \in found[k] :
    OfInput(f) /\ OfInput(g) /\ f.about = g.about => j = k /\ f = g

OnceAtEnd == Done => Once(findings)

IInv ==
  TypeOK /\ Given /\ Earned /\ Single(findings) /\ GoneFound /\ Runs /\ OnceAtEnd

-----------------------------------------------------------------------------
(* Least elements stand in for induction: of the lengths for which a       *)
(* statement fails, one would be the least.                                *)
Less == {ss \in Nat \X Nat : ss[1] < ss[2]}

LEMMA LessIsWellFounded == IsWellFoundedOn(Less, Nat)
BY NatLessThanWellFounded DEF OpToRel, Less

LEMMA SomeLeast ==
  ASSUME NEW S, S \subseteq Nat, S # {}
  PROVE  \E n \in S : \A m \in S : n <= m
<1>1. PICK n \in S : \A m \in S : ~(<<m, n>> \in Less)
  BY LessIsWellFounded, WFMin
<1>2. ASSUME NEW m \in S PROVE n <= m
  <2>1. n \in Nat /\ m \in Nat
    BY <1>1
  <2>2. <<m, n>> \in Nat \X Nat
    BY <2>1
  <2>3. ~(<<m, n>>[1] < <<m, n>>[2])
    BY <1>1, <2>2 DEF Less
  <2>4. QED
    BY <2>1, <2>3
<1>3. QED
  BY <1>1, <1>2

(* A set of numbers that has 0 and the next of each has all of them.       *)
LEMMA AllNumbers ==
  ASSUME NEW S, S \subseteq Nat, 0 \in S, \A n \in S : n + 1 \in S
  PROVE  S = Nat
<1>1. SUFFICES ASSUME Nat \ S # {} PROVE FALSE
  OBVIOUS
<1>2. PICK n \in Nat \ S : \A m \in Nat \ S : n <= m
  BY <1>1, SomeLeast
<1>3. n # 0 /\ n - 1 \in Nat /\ n - 1 \in S
  BY <1>2
<1>4. QED
  BY <1>2, <1>3

(* The sequences that a sequence of sequences is joined from, one after    *)
(* the other.                                                              *)
Joined(g, ss, n) ==
  g = [i \in 1 .. n |-> IF i = 1 THEN ss[i] ELSE g[i - 1] \o ss[i]]

LEMMA SomeJoined ==
  ASSUME NEW ss
  PROVE  \A n \in Nat : \E g : Joined(g, ss, n)
<1> DEFINE P == {n \in Nat : \E g : Joined(g, ss, n)}
<1>1. 0 \in P
  <2>1. Joined([i \in 1 .. 0 |-> IF i = 1 THEN ss[i] ELSE 0], ss, 0)
    BY 1 .. 0 = {} DEF Joined
  <2>2. QED
    BY <2>1
<1>2. ASSUME NEW n \in P PROVE n + 1 \in P
  <2>1. n \in Nat
    OBVIOUS
  <2>2. PICK g : Joined(g, ss, n)
    OBVIOUS
  <2> DEFINE h == [i \in 1 .. n + 1 |-> IF i = 1 THEN ss[i]
                                        ELSE IF i = n + 1 THEN g[n] \o ss[i] ELSE g[i]]
  <2> HIDE DEF P
  <2>3. ASSUME NEW i \in 1 .. n + 1 PROVE h[i] = IF i = 1 THEN ss[i] ELSE h[i - 1] \o ss[i]
    <3>1. i \in 1 .. n => g[i] = IF i = 1 THEN ss[i] ELSE g[i - 1] \o ss[i]
      BY <2>2, Zenon DEF Joined
    <3>2. 1 \in 1 .. n => g[1] = ss[1]
      BY <2>2 DEF Joined
    <3>3. CASE i = 1
      BY <3>3
    <3>4. CASE i # 1
      <4>1. i - 1 \in 1 .. n /\ i - 1 \in 1 .. n + 1 /\ i - 1 # n + 1 /\ i - 1 \in Nat
        BY <2>1, <3>4
      <4>2. h[i - 1] = g[i - 1]
        BY <4>1, <3>2
      <4>3. i # n + 1 => h[i] = g[i] /\ i \in 1 .. n
        BY <2>1, <3>4
      <4>4. i = n + 1 => h[i] = g[i - 1] \o ss[i]
        <5>1. h[i] = IF i = n + 1 THEN g[n] \o ss[i] ELSE g[i]
          BY <3>4
        <5>2. i = n + 1 => i - 1 = n
          BY <2>1
        <5> HIDE DEF h
        <5>3. QED
          BY <5>1, <5>2
      <4> HIDE DEF h
      <4>5. QED
        BY <3>1, <3>4, <4>2, <4>3, <4>4
    <3>5. QED
      BY <3>3, <3>4
  <2>4. h = [i \in 1 .. n + 1 |-> h[i]]
    OBVIOUS
  <2> HIDE DEF h
  <2>5. Joined(h, ss, n + 1)
    BY <2>3, <2>4 DEF Joined
  <2>6. QED
    BY <2>1, <2>5 DEF P
<1> HIDE DEF P
<1>3. P = Nat
  <2>1. P \subseteq Nat
    BY DEF P
  <2>2. QED
    BY <1>1, <1>2, <2>1, AllNumbers
<1>4. QED
  BY <1>3 DEF P

(* Sequences joined give a sequence of the same elements, which is not     *)
(* empty if none of them is.                                               *)
LEMMA FlattenType ==
  ASSUME NEW S, NEW ss \in Seq(Seq(S))
  PROVE  /\ FlattenSeq(ss) \in Seq(S)
         /\ ss # <<>> /\ (\A i \in DOMAIN ss : ss[i] # <<>>) => FlattenSeq(ss) # <<>>
<1>1. CASE Len(ss) = 0
  <2>1. ss = <<>>
    BY <1>1, EmptySeq
  <2>2. QED
    BY <1>1, <2>1, EmptySeq DEF FlattenSeq
<1>2. CASE Len(ss) # 0
  <2> DEFINE n == Len(ss)
             g == CHOOSE f : Joined(f, ss, n)
             Full == \A i \in DOMAIN ss : ss[i] # <<>>
             Q == {m \in Nat : m + 1 <= n => g[m + 1] \in Seq(S) /\ (Full => g[m + 1] # <<>>)}
  <2>1. n \in Nat /\ n # 0 /\ DOMAIN ss = 1 .. n
    BY <1>2, LenProperties
  <2>2. Joined(g, ss, n)
    BY SomeJoined, <2>1
  <2>3. FlattenSeq(ss) = g[n]
    BY <2>1 DEF FlattenSeq, Joined
  <2> HIDE DEF g, n
  <2>4. \A i \in 1 .. n : g[i] = IF i = 1 THEN ss[i] ELSE g[i - 1] \o ss[i]
    BY <2>2, Zenon DEF Joined
  <2>5. \A i \in 1 .. n : ss[i] \in Seq(S)
    BY <2>1
  <2>6. 0 \in Q
    <3>1. 1 \in 1 .. n /\ 0 + 1 = 1
      BY <2>1
    <3>2. g[1] = ss[1] /\ ss[1] \in Seq(S) /\ (Full => ss[1] # <<>>)
      BY <2>1, <2>4, <2>5, <3>1
    <3> HIDE DEF Full
    <3>3. QED
      BY <3>1, <3>2
  <2>7. ASSUME NEW m \in Q PROVE m + 1 \in Q
    <3>1. SUFFICES ASSUME m + 2 <= n
                   PROVE  g[m + 2] \in Seq(S) /\ (Full => g[m + 2] # <<>>)
      BY <2>1
    <3>2. m + 2 \in 1 .. n /\ m + 2 # 1 /\ (m + 2) - 1 = m + 1 /\ m + 1 <= n
      BY <2>1, <3>1
    <3>3. g[m + 2] = g[m + 1] \o ss[m + 2]
      BY <2>4, <3>2
    <3>4. g[m + 1] \in Seq(S) /\ (Full => g[m + 1] # <<>>) /\ ss[m + 2] \in Seq(S)
      BY <2>5, <3>2
    <3>5. QED
      BY <3>3, <3>4, ConcatProperties, EmptySeq, LenProperties
  <2> HIDE DEF Q, Full
  <2>8. Q = Nat
    <3>1. Q \subseteq Nat
      BY DEF Q
    <3>2. QED
      BY <2>6, <2>7, <3>1, AllNumbers
  <2>9. n - 1 \in Q /\ (n - 1) + 1 = n
    BY <2>1, <2>8
  <2>10. QED
    BY <2>3, <2>9 DEF Q, Full
<1>3. QED
  BY <1>1, <1>2

-----------------------------------------------------------------------------
(* Lists of findings.                                                      *)
Types == InputTypes \cup SectionTypes \cup RolloutTypes
Lists == Seq(SUBSET Findings)

LEMMA FindingTypes ==
  ASSUME NEW type \in Types, NEW about \in Name
  PROVE  /\ Error(type, about) \in Findings
         /\ Warning(type, about) \in Findings
BY DEF Error, Warning, Findings, Severities, Types

LEMMA ListByPlace ==
  ASSUME NEW n \in Nat, NEW found, found = [k \in 1 .. n |-> found[k]],
         \A k \in 1 .. n : found[k] \in SUBSET Findings
  PROVE  found \in Lists
<1>1. found \in [1 .. n -> SUBSET Findings]
  OBVIOUS
<1>2. QED
  BY <1>1 DEF Lists

LEMMA NothingFound ==
  ASSUME NEW a \in Lists
  PROVE  AnyFound(a) <=> AllOf(a) # {}
BY DEF AnyFound, AllOf, Lists

LEMMA ListsJoin ==
  ASSUME NEW a \in Lists, NEW b \in Lists
  PROVE  /\ a \o b \in Lists
         /\ AllOf(a \o b) = AllOf(a) \cup AllOf(b)
         /\ Single(a) /\ Single(b) => Single(a \o b)
<1>1. a \o b \in Lists
  BY ConcatProperties DEF Lists
<1>2. /\ Len(a) \in Nat /\ Len(b) \in Nat
      /\ DOMAIN a = 1 .. Len(a) /\ DOMAIN b = 1 .. Len(b)
      /\ DOMAIN (a \o b) = 1 .. Len(a) + Len(b)
      /\ \A k \in 1 .. Len(a) + Len(b) :
           (a \o b)[k] = IF k <= Len(a) THEN a[k] ELSE b[k - Len(a)]
  BY <1>1, ConcatProperties, LenProperties DEF Lists
<1>3. \A k \in DOMAIN (a \o b) : \/ k \in DOMAIN a /\ (a \o b)[k] = a[k]
                                 \/ k - Len(a) \in DOMAIN b /\ (a \o b)[k] = b[k - Len(a)]
  BY <1>2
<1>4. \A k \in DOMAIN a : k \in DOMAIN (a \o b) /\ (a \o b)[k] = a[k]
  BY <1>2
<1>5. \A k \in DOMAIN b : Len(a) + k \in DOMAIN (a \o b) /\ (a \o b)[Len(a) + k] = b[k]
  BY <1>2
<1> HIDE <1>2
<1>6. AllOf(a \o b) = AllOf(a) \cup AllOf(b)
  BY <1>3, <1>4, <1>5 DEF AllOf
<1>7. Single(a) /\ Single(b) => Single(a \o b)
  BY <1>3 DEF Single
<1>8. QED
  BY <1>1, <1>6, <1>7

LEMMA EmptyList == <<>> \in Lists /\ AllOf(<<>>) = {} /\ Single(<<>>)
BY EmptySeq DEF Lists, AllOf, Single

LEMMA OnePlace ==
  ASSUME NEW A \in SUBSET Findings
  PROVE  /\ <<A>> \in Lists /\ AllOf(<<A>>) = A
         /\ (\A f, g \in A : OfInput(f) /\ OfInput(g) => f = g) => Single(<<A>>)
<1>1. <<A>> \in Lists /\ DOMAIN <<A>> = {1} /\ <<A>>[1] = A
  BY DEF Lists
<1>2. QED
  BY <1>1 DEF AllOf, Single

LEMMA TwoPlaces ==
  ASSUME NEW A \in SUBSET Findings, NEW B \in SUBSET Findings
  PROVE  /\ <<A, B>> \in Lists /\ AllOf(<<A, B>>) = A \cup B
         /\ /\ \A f, g \in A : OfInput(f) /\ OfInput(g) => f = g
            /\ \A f, g \in B : OfInput(f) /\ OfInput(g) => f = g
            => Single(<<A, B>>)
<1>1. <<A, B>> \in Lists /\ DOMAIN <<A, B>> = {1, 2} /\ <<A, B>>[1] = A /\ <<A, B>>[2] = B
  BY DEF Lists
<1>2. QED
  BY <1>1 DEF AllOf, Single

(* A finding about each of the missing files.                              *)
LEMMA LostFiles ==
  ASSUME NEW type \in Types, NEW paths \in Seq(Name)
  PROVE  /\ Lost(type, paths) \in Lists /\ Single(Lost(type, paths))
         /\ \A path \in Range(paths) \cap task.gone : Error(type, path) \in AllOf(Lost(type, paths))
<1> DEFINE L == Lost(type, paths)
<1>1. /\ DOMAIN L = DOMAIN paths
      /\ \A k \in DOMAIN L : L[k] = When(Gone(paths[k]), Error(type, paths[k]))
  BY DEF Lost
<1>2. \A k \in DOMAIN paths : paths[k] \in Name
  OBVIOUS
<1>3. \A k \in DOMAIN L : L[k] \in SUBSET Findings
  BY <1>1, <1>2, FindingTypes DEF When
<1>4. L \in Lists
  <2>1. L = [k \in 1 .. Len(paths) |-> L[k]] /\ DOMAIN L = 1 .. Len(paths) /\ Len(paths) \in Nat
    BY <1>1, LenProperties DEF Lost
  <2> HIDE DEF L
  <2>2. QED
    BY <2>1, <1>3, ListByPlace
<1>5. Single(L)
  BY <1>1 DEF Single, When
<1>6. ASSUME NEW path \in Range(paths) \cap task.gone PROVE Error(type, path) \in AllOf(L)
  <2>1. PICK k \in DOMAIN paths : paths[k] = path
    BY DEF Range
  <2>2. Error(type, path) \in L[k]
    BY <2>1, <1>1 DEF Gone, When
  <2>3. QED
    BY <2>2, <1>1 DEF AllOf
<1>7. QED
  BY <1>4, <1>5, <1>6

-----------------------------------------------------------------------------
(* What each section finds, and what it means to find nothing.             *)
LEMMA Files ==
  ASSUME TypeOK, Given
  PROVE  /\ task.files \in Seq(Name) /\ Len(task.files) \in Nat /\ Len(task.files) >= 3
         /\ DOMAIN task.files = 1 .. Len(task.files)
         /\ \A k \in DOMAIN task.files : task.files[k] \in Name
         /\ Bench \in Name /\ Bench \in Range(task.files)
         /\ SchemaFile \in Name /\ SchemaFile \in Range(task.files)
         /\ RolesFile \in Name /\ RolesFile \in Range(task.files)
<1>1. task.files \in Seq(Name) /\ Len(task.files) >= 3
  BY TaskAssumption DEF TypeOK, Given, Plan
<1>2. Len(task.files) \in Nat /\ DOMAIN task.files = 1 .. Len(task.files)
  BY <1>1, LenProperties
<1>3. /\ Len(task.files) \in DOMAIN task.files
      /\ Len(task.files) - 1 \in DOMAIN task.files
      /\ Len(task.files) - 2 \in DOMAIN task.files
  BY <1>1, <1>2
<1>4. \A k \in DOMAIN task.files : task.files[k] \in Name
  BY <1>1
<1>5. QED
  BY <1>1, <1>2, <1>3, <1>4 DEF Bench, SchemaFile, RolesFile, Last, Range

LEMMA DatasetList ==
  ASSUME TypeOK, Given
  PROVE  /\ DatasetFindings \in Lists /\ Single(DatasetFindings)
         /\ \A path \in Range(task.files) \cap task.gone :
              \E f \in AllOf(DatasetFindings) : OfInput(f) /\ f.about = path
         /\ AllOf(DatasetFindings) = {} =>
              /\ Range(task.files) \cap task.gone = {}
              /\ task.bench = "agrees"
              /\ DatasetStatus = "current"
<1> DEFINE L == Lost("dataset_file_missing", task.files)
           A == When(~Gone(Bench) /\ ~BenchRead, Error("testbench_identity_unreadable", Bench))
           B == When(BenchRead /\ task.bench # "agrees", Error("testbench_version_mismatch", Bench))
<1>1. /\ L \in Lists /\ Single(L)
      /\ \A path \in Range(task.files) \cap task.gone :
           Error("dataset_file_missing", path) \in AllOf(L)
  <2>1. task.files \in Seq(Name) /\ "dataset_file_missing" \in Types
    BY Files DEF Types, InputTypes
  <2>2. QED
    BY <2>1, LostFiles, Zenon
<1>2. A \in SUBSET Findings /\ B \in SUBSET Findings
  <2>1. /\ Error("testbench_identity_unreadable", Bench) \in Findings
        /\ Error("testbench_version_mismatch", Bench) \in Findings
    BY Files, FindingTypes DEF Types, InputTypes, SectionTypes
  <2>2. QED
    BY <2>1 DEF When
<1>3. /\ \A f, g \in A : f = g
      /\ \A f, g \in B : f = g
  BY DEF When
<1>4. A = {} /\ B = {} /\ ~Gone(Bench) => task.bench = "agrees"
  BY DEF When, BenchRead
<1> HIDE DEF L, A, B
<1>5. <<A, B>> \in Lists /\ Single(<<A, B>>) /\ AllOf(<<A, B>>) = A \cup B
  BY <1>2, <1>3, TwoPlaces
<1>6. /\ DatasetFindings = L \o <<A, B>>
      /\ DatasetFindings \in Lists /\ Single(DatasetFindings)
      /\ AllOf(DatasetFindings) = AllOf(L) \cup (A \cup B)
  BY <1>1, <1>5, ListsJoin DEF DatasetFindings, L, A, B
<1>7. \A path : /\ OfInput(Error("dataset_file_missing", path))
                /\ Error("dataset_file_missing", path).about = path
  BY DEF OfInput, Error, InputTypes
<1>8. ASSUME AllOf(DatasetFindings) = {}
      PROVE  /\ Range(task.files) \cap task.gone = {}
             /\ task.bench = "agrees"
             /\ DatasetStatus = "current"
  <2>1. Range(task.files) \cap task.gone = {}
    BY <1>1, <1>6, <1>8
  <2>2. ~Gone(Bench)
    BY <2>1, Files DEF Gone
  <2>3. task.bench = "agrees"
    BY <2>2, <1>4, <1>6, <1>8
  <2>4. \A k \in DOMAIN task.files : ~Gone(task.files[k])
    BY <2>1 DEF Gone, Range
  <2>5. QED
    BY <2>1, <2>3, <2>4 DEF DatasetStatus
<1>9. QED
  BY <1>1, <1>6, <1>7, <1>8

LEMMA Contracts ==
  ASSUME TypeOK, Given
  PROVE  /\ task.contracts \in Seq(Contract) /\ Len(task.contracts) \in Nat
         /\ DOMAIN task.contracts = 1 .. Len(task.contracts)
         /\ \A k \in DOMAIN task.contracts :
              /\ task.contracts[k] \in Contract
              /\ task.contracts[k].state = "fine" => task.contracts[k].points # <<>>
<1>1. task.contracts \in Seq(Contract)
  BY DEF TypeOK, Plan
<1>2. \A k \in DOMAIN task.contracts :
        task.contracts[k].state = "fine" => task.contracts[k].points # <<>>
  BY TaskAssumption DEF Given
<1>3. QED
  BY <1>1, <1>2, LenProperties

(* The findings about contracts of one kind.                               *)
LEMMA ContractList ==
  ASSUME TypeOK, Given, NEW type \in Types, NEW S \in SUBSET DOMAIN task.contracts,
         NEW L, L = [k \in DOMAIN task.contracts |->
                       When(k \in S, Error(type, task.contracts[k].path))]
  PROVE  L \in Lists /\ Single(L) /\ (AllOf(L) = {} => S = {})
<1>1. \A k \in DOMAIN task.contracts : Error(type, task.contracts[k].path) \in Findings
  BY Contracts, FindingTypes DEF Contract
<1>2. \A k \in DOMAIN task.contracts : L[k] \in SUBSET Findings
  BY <1>1 DEF When
<1>3. L \in Lists
  BY <1>2, Contracts, ListByPlace
<1>4. Single(L)
  BY DEF Single, When
<1>5. AllOf(L) = {} => S = {}
  <2>1. ASSUME NEW k \in S PROVE Error(type, task.contracts[k].path) \in AllOf(L)
    BY DEF AllOf, When
  <2>2. QED
    BY <2>1
<1>6. QED
  BY <1>3, <1>4, <1>5

LEMMA SeriesFileList ==
  ASSUME TypeOK, NEW b
  PROVE  LET L == <<When(b, Error("observed_series_unreadable", task.seriesFile))>>
         IN  /\ L \in Lists /\ Single(L)
             /\ b => \E f \in AllOf(L) : OfInput(f) /\ f.about = task.seriesFile
<1> DEFINE E == Error("observed_series_unreadable", task.seriesFile)
           A == When(b, E)
<1>1. E \in Findings /\ OfInput(E) /\ E.about = task.seriesFile
  <2>1. task.seriesFile \in Name
    BY DEF TypeOK, Plan
  <2>2. E \in Findings
    BY <2>1, FindingTypes DEF Types, InputTypes
  <2>3. QED
    BY <2>2 DEF OfInput, InputTypes, Error
<1>2. A \in SUBSET Findings /\ (\A f, g \in A : f = g) /\ (b => E \in A)
  BY <1>1 DEF When
<1> HIDE DEF E, A
<1>3. <<A>> \in Lists /\ Single(<<A>>) /\ AllOf(<<A>>) = A
  BY <1>2, OnePlace
<1>4. QED
  BY <1>1, <1>2, <1>3 DEF A, E

LEMMA ContractSeries ==
  ASSUME TypeOK, Given
  PROVE  /\ SeriesOfContracts \in Seq(Point)
         /\ /\ task.contracts # <<>>
            /\ \A k \in DOMAIN task.contracts : task.contracts[k].state = "fine"
            => SeriesOfContracts # <<>>
<1> DEFINE labelled(c) ==
             IF Len(task.contracts) = 1 THEN c.points
             ELSE [k \in DOMAIN c.points |-> [c.points[k] EXCEPT !.scenario = c.id]]
           ss == [k \in DOMAIN task.contracts |-> labelled(task.contracts[k])]
<1>1. ASSUME NEW c \in Contract
      PROVE  labelled(c) \in Seq(Point) /\ (c.points # <<>> => labelled(c) # <<>>)
  <2>1. /\ c.points \in Seq(Point) /\ c.id \in Name
        /\ Len(c.points) \in Nat /\ DOMAIN c.points = 1 .. Len(c.points)
    BY LenProperties DEF Contract
  <2>2. \A k \in DOMAIN c.points : c.points[k] \in Point
    BY <2>1
  <2>3. \A p \in Point : [p EXCEPT !.scenario = c.id] \in Point
    BY <2>1 DEF Point
  <2>4. [k \in DOMAIN c.points |-> [c.points[k] EXCEPT !.scenario = c.id]]
          \in [1 .. Len(c.points) -> Point]
    BY <2>1, <2>2, <2>3
  <2>5. [k \in DOMAIN c.points |-> [c.points[k] EXCEPT !.scenario = c.id]] \in Seq(Point)
    BY <2>1, <2>4
  <2>6. c.points # <<>> => 1 \in DOMAIN c.points
    BY <2>1, EmptySeq
  <2>7. c.points # <<>> => [k \in DOMAIN c.points |-> [c.points[k] EXCEPT !.scenario = c.id]] # <<>>
    BY <2>6, EmptySeq
  <2>8. QED
    BY <2>1, <2>5, <2>7
<1> HIDE DEF labelled
<1>2. ss \in [1 .. Len(task.contracts) -> Seq(Point)]
  BY <1>1, Contracts
<1>3. ss \in Seq(Seq(Point)) /\ DOMAIN ss = DOMAIN task.contracts
  BY <1>2, Contracts
<1>4. task.contracts # <<>> => ss # <<>>
  BY <1>3, Contracts, EmptySeq
<1>5. (\A k \in DOMAIN task.contracts : task.contracts[k].state = "fine")
        => \A k \in DOMAIN ss : ss[k] # <<>>
  BY <1>1, Contracts
<1>6. SeriesOfContracts =
        IF \A k \in DOMAIN task.contracts : task.contracts[k].state = "fine"
        THEN FlattenSeq(ss) ELSE <<>>
  BY DEF SeriesOfContracts, labelled
<1> HIDE DEF ss
<1>7. /\ FlattenSeq(ss) \in Seq(Point)
      /\ ss # <<>> /\ (\A i \in DOMAIN ss : ss[i] # <<>>) => FlattenSeq(ss) # <<>>
  BY <1>3, FlattenType
<1>8. QED
  BY <1>4, <1>5, <1>6, <1>7, EmptySeq

LEMMA SeriesList ==
  ASSUME TypeOK, Given
  PROVE  /\ ContractFindings \in Lists /\ Single(ContractFindings)
         /\ AllOf(ContractFindings) = {} /\ InputsAtHand => SeriesOfContracts # <<>>
<1> DEFINE S == {k \in DOMAIN task.contracts : Unreadable(task.contracts[k])}
           K == [k \in DOMAIN task.contracts |->
                   When(k \in S, Error("observed_series_unreadable", task.contracts[k].path))]
           A == When(task.contracts = <<>>, Error("observed_series_missing", "plan"))
<1>1. ContractFindings = K \o <<A>>
  <2>1. [k \in DOMAIN task.contracts |->
             When(Unreadable(task.contracts[k]),
                  Error("observed_series_unreadable", task.contracts[k].path))] = K
    BY Zenon DEF When
  <2>2. QED
    BY <2>1 DEF ContractFindings
<1>2. K \in Lists /\ Single(K) /\ (AllOf(K) = {} => S = {})
  <2>1. "observed_series_unreadable" \in Types
    BY DEF Types, InputTypes
  <2>2. QED
    BY <2>1, ContractList
<1>3. /\ A \in SUBSET Findings /\ (\A f, g \in A : f = g)
      /\ A = {} => task.contracts # <<>>
  <2>1. Error("observed_series_missing", "plan") \in Findings
    BY FindingTypes, NameAssumption DEF Types, InputTypes
  <2>2. QED
    BY <2>1 DEF When
<1>4. S = {} /\ InputsAtHand => \A k \in DOMAIN task.contracts : task.contracts[k].state = "fine"
  BY DEF Unreadable, InputsAtHand
<1> HIDE DEF K, A, S
<1>5. <<A>> \in Lists /\ Single(<<A>>) /\ AllOf(<<A>>) = A
  BY <1>3, OnePlace
<1>6. K \o <<A>> \in Lists /\ Single(K \o <<A>>) /\ AllOf(K \o <<A>>) = AllOf(K) \cup A
  BY <1>2, <1>5, ListsJoin
<1>7. QED
  BY <1>1, <1>2, <1>3, <1>4, <1>6, ContractSeries

LEMMA UnreadList ==
  ASSUME TypeOK, Given PROVE UnreadEdges \in Lists /\ Single(UnreadEdges)
<1> DEFINE S == {k \in DOMAIN task.contracts : task.contracts[k].state = "gone"}
<1>1. UnreadEdges = [k \in DOMAIN task.contracts |->
        When(k \in S, Error("validation_mapping_edges_unreadable", task.contracts[k].path))]
  BY Zenon DEF UnreadEdges, When
<1>2. "validation_mapping_edges_unreadable" \in Types
  BY DEF Types, InputTypes
<1> HIDE DEF S
<1>3. S \in SUBSET DOMAIN task.contracts
  BY DEF S
<1>4. QED
  BY <1>1, <1>2, <1>3, ContractList

(* Among finitely many numbers there is a greatest, and it occurs first    *)
(* somewhere.                                                              *)
LEMMA SomeGreatest ==
  ASSUME NEW c, NEW n \in Nat, NEW S \in SUBSET (1 .. n), S # {}, \A k \in S : c[k] \in Nat
  PROVE  \E k \in S : \A j \in S : c[j] <= c[k]
<1> DEFINE Some(T) == \E k \in T : \A j \in T : c[j] <= c[k]
           P == {m \in Nat : \A T \in SUBSET (1 .. m) :
                   T # {} /\ (\A k \in T : c[k] \in Nat) => Some(T)}
<1>1. 0 \in P
  <2>1. \A T \in SUBSET (1 .. 0) : T = {}
    OBVIOUS
  <2> HIDE DEF Some
  <2>2. QED
    BY <2>1
<1>2. ASSUME NEW m \in P PROVE m + 1 \in P
  <2>1. m \in Nat /\ m + 1 \in Nat
    OBVIOUS
  <2>2. ASSUME NEW T \in SUBSET (1 .. m + 1), T # {}, \A k \in T : c[k] \in Nat
        PROVE  Some(T)
    <3> DEFINE U == T \ {m + 1}
    <3>1. U \in SUBSET (1 .. m) /\ \A k \in U : c[k] \in Nat
      BY <2>1, <2>2
    <3>2. CASE U = {}
      <4>1. T = {m + 1}
        BY <2>2, <3>2
      <4>2. QED
        BY <2>2, <4>1
    <3>3. CASE U # {}
      <4>1. PICK k \in U : \A j \in U : c[j] <= c[k]
        BY <3>1, <3>3
      <4>2. CASE m + 1 \in T /\ c[m + 1] > c[k]
        <5>1. \A j \in T : c[j] <= c[m + 1]
          BY <2>2, <4>1, <4>2
        <5>2. QED
          BY <4>2, <5>1
      <4>3. CASE ~(m + 1 \in T /\ c[m + 1] > c[k])
        <5>1. \A j \in T : c[j] <= c[k]
          BY <2>2, <4>1, <4>3
        <5>2. QED
          BY <4>1, <5>1
      <4>4. QED
        BY <4>2, <4>3
    <3>4. QED
      BY <3>2, <3>3
  <2>3. QED
    BY <2>1, <2>2
<1> HIDE DEF P
<1>3. P = Nat
  <2>1. P \subseteq Nat
    BY DEF P
  <2>2. QED
    BY <1>1, <1>2, <2>1, AllNumbers
<1>4. QED
  BY <1>3 DEF P

LEMMA EdgesType ==
  ASSUME TypeOK, Given
  PROVE  /\ Len(Edges) \in Nat /\ DOMAIN Edges = 1 .. Len(Edges)
         /\ \A k \in DOMAIN Edges : Edges[k] \in Edge
<1> DEFINE ss == [k \in DOMAIN task.contracts |-> task.contracts[k].edges]
<1>1. \A k \in DOMAIN task.contracts : task.contracts[k].edges \in Seq(Edge)
  BY Contracts DEF Contract
<1>2. ss \in [1 .. Len(task.contracts) -> Seq(Edge)]
  BY <1>1, Contracts
<1>3. ss \in Seq(Seq(Edge))
  BY <1>2, Contracts
<1> HIDE DEF ss
<1>4. FlattenSeq(ss) \in Seq(Edge)
  BY <1>3, FlattenType
<1>5. Edges \in Seq(Edge)
  BY <1>4 DEF Edges, ss
<1>6. QED
  BY <1>5, LenProperties

(* The edge that counts for a role is one of its candidates.               *)
LEMMA BestIsCandidate ==
  ASSUME TypeOK, Given, NEW role, Candidates(role) # {}
  PROVE  \E k \in Candidates(role) : BestEdge(role) = Edges[k]
<1> DEFINE S == Candidates(role)
           c == [k \in DOMAIN Edges |-> Edges[k].confidence]
           best(k) == \A j \in S : /\ Edges[j].confidence <= Edges[k].confidence
                                   /\ j < k => Edges[j].confidence # Edges[k].confidence
<1>1. S \in SUBSET DOMAIN Edges
  BY DEF Candidates
<1>2. \A k \in S : Edges[k].confidence \in Nat /\ k \in Nat
  BY <1>1, EdgesType DEF Edge
<1>3. PICK k \in S : \A j \in S : Edges[j].confidence <= Edges[k].confidence
  <2>1. \A j \in S : c[j] = Edges[j].confidence
    BY <1>1
  <2> HIDE DEF c
  <2>2. \E k \in S : \A j \in S : c[j] <= c[k]
    BY <1>1, <1>2, <2>1, EdgesType, SomeGreatest
  <2>3. QED
    BY <2>1, <2>2
<1> DEFINE Top == {j \in S : Edges[j].confidence = Edges[k].confidence}
<1>4. PICK first \in Top : \A j \in Top : first <= j
  <2>1. Top \subseteq Nat /\ k \in Top
    BY <1>2
  <2> HIDE DEF Top
  <2>2. QED
    BY <2>1, SomeLeast
<1>5. best(first)
  BY <1>2, <1>3, <1>4
<1>6. BestEdge(role) = Edges[CHOOSE j \in S : best(j)]
  BY DEF BestEdge
<1>7. QED
  BY <1>4, <1>5, <1>6

LEMMA MappingList ==
  ASSUME TypeOK, Given
  PROVE  /\ MappingFindings \in Lists /\ Single(MappingFindings)
         /\ AllOf(MappingFindings) = {} => MappingGood
<1> DEFINE R == [target : Name, source : Name]
<1>1. /\ task.roles \in Seq(R) /\ Len(task.roles) \in Nat
      /\ DOMAIN task.roles = 1 .. Len(task.roles)
  BY LenProperties DEF TypeOK, Plan
<1>2. ASSUME NEW role \in R
      PROVE  /\ RoleFindings(role) \in SUBSET Findings
             /\ \A f, g \in RoleFindings(role) : f = g
             /\ RoleFindings(role) = {} => \E e \in Candidates(role) : ~Uncertain(Edges[e])
  <2>1. /\ Error("mapping_required_signal_missing", role.target) \in Findings
        /\ Error("mapping_required_signal_uncertain", role.target) \in Findings
    BY FindingTypes DEF Types, SectionTypes
  <2>2. CASE Candidates(role) = {}
    BY <2>1, <2>2 DEF RoleFindings
  <2>3. CASE Candidates(role) # {}
    <3>1. RoleFindings(role) =
            When(Uncertain(BestEdge(role)), Error("mapping_required_signal_uncertain", role.target))
      BY <2>3 DEF RoleFindings
    <3>2. QED
      BY <2>1, <2>3, <3>1, BestIsCandidate DEF When
  <2>4. QED
    BY <2>2, <2>3
<1> HIDE DEF R
<1>3. \A k \in DOMAIN task.roles : task.roles[k] \in R
  BY <1>1
<1>4. MappingFindings \in Lists
  <2>1. \A k \in 1 .. Len(task.roles) : MappingFindings[k] \in SUBSET Findings
    BY <1>1, <1>2, <1>3 DEF MappingFindings
  <2>2. MappingFindings = [k \in 1 .. Len(task.roles) |-> MappingFindings[k]]
    BY <1>1 DEF MappingFindings
  <2>3. QED
    BY <1>1, <2>1, <2>2, ListByPlace
<1>5. Single(MappingFindings)
  BY <1>2, <1>3 DEF Single, MappingFindings
<1>6. AllOf(MappingFindings) = {} => MappingGood
  <2>1. ASSUME AllOf(MappingFindings) = {}, NEW k \in DOMAIN task.roles
        PROVE  RoleFindings(task.roles[k]) = {}
    BY <2>1 DEF AllOf, MappingFindings
  <2>2. QED
    BY <1>2, <1>3, <2>1 DEF MappingGood
<1>7. QED
  BY <1>4, <1>5, <1>6

LEMMA PointTypes ==
  ASSUME TypeOK
  PROVE  /\ Len(points) \in Nat /\ DOMAIN points = 1 .. Len(points)
         /\ \A k \in DOMAIN points : points[k] \in Point
         /\ HasSeries <=> DOMAIN points # {}
<1>1. points \in Seq(Point)
  BY DEF TypeOK
<1>2. Len(points) \in Nat /\ DOMAIN points = 1 .. Len(points)
  BY <1>1, LenProperties
<1>3. HasSeries <=> DOMAIN points # {}
  <2>1. points = <<>> <=> Len(points) = 0
    BY <1>1, EmptySeq
  <2>2. Len(points) = 0 <=> 1 .. Len(points) = {}
    BY <1>2
  <2>3. QED
    BY <1>2, <2>1, <2>2 DEF HasSeries
<1>4. QED
  BY <1>1, <1>2, <1>3

LEMMA TimeList ==
  ASSUME TypeOK
  PROVE  /\ TimeFindings \in Lists /\ Single(TimeFindings)
         /\ AllOf(TimeFindings) = {} => TimeGood
<1>1. /\ Error("validation_series_empty", "") \in Findings
      /\ Error("snapshot_scope_overclaim", "") \in Findings
      /\ Error("scenario_set_scope_overclaim", "") \in Findings
      /\ Error("time_series_timestamp_missing", "") \in Findings
      /\ Error("time_scope_point_count_mismatch", "") \in Findings
      /\ Error("time_scope_start_mismatch", "") \in Findings
      /\ Error("time_scope_end_mismatch", "") \in Findings
      /\ Error("time_scope_unit_mismatch", "") \in Findings
  BY FindingTypes, NameAssumption DEF Types, SectionTypes
<1> DEFINE A == When(Valid = {}, Error("validation_series_empty", ""))
           B == When(Cardinality(Valid) = 1 /\ task.scope # "snapshot",
                     Error("snapshot_scope_overclaim", ""))
           C == When(task.scope = "scenario_set" /\ Cardinality(Scenarios) < 2,
                     Error("scenario_set_scope_overclaim", ""))
           D == When(Cardinality(Valid) > 1 /\ \E k \in Valid : points[k].time = 0,
                     Error("time_series_timestamp_missing", ""))
           E == When(Differs(task.count, Len(points)), Error("time_scope_point_count_mismatch", ""))
           F == When(Differs(task.first, Earliest), Error("time_scope_start_mismatch", ""))
           G == When(Differs(task.last, Latest), Error("time_scope_end_mismatch", ""))
           H == When(~task.unitAgrees, Error("time_scope_unit_mismatch", ""))
<1>2. /\ A \in SUBSET Findings /\ B \in SUBSET Findings /\ C \in SUBSET Findings
      /\ D \in SUBSET Findings /\ E \in SUBSET Findings /\ F \in SUBSET Findings
      /\ G \in SUBSET Findings /\ H \in SUBSET Findings
  BY <1>1 DEF When
<1>3. /\ \A f, g \in A : f = g
      /\ \A f, g \in B : f = g
      /\ \A f, g \in C : f = g
      /\ \A f, g \in D : f = g
      /\ \A f, g \in E : f = g
      /\ \A f, g \in F : f = g
      /\ \A f, g \in G : f = g
      /\ \A f, g \in H : f = g
  BY DEF When
<1>4. A = {} /\ B = {} /\ C = {} => TimeGood
  BY DEF When, TimeGood
<1>5. TimeFindings = <<A, B, C, D, E, F, G, H>>
  BY DEF TimeFindings
<1> HIDE DEF A, B, C, D, E, F, G, H
<1>6. TimeFindings \in Lists
  BY <1>2, <1>5 DEF Lists
<1>7. /\ DOMAIN TimeFindings = 1 .. 8
      /\ TimeFindings[1] = A /\ TimeFindings[2] = B /\ TimeFindings[3] = C
      /\ TimeFindings[4] = D /\ TimeFindings[5] = E /\ TimeFindings[6] = F
      /\ TimeFindings[7] = G /\ TimeFindings[8] = H
  BY <1>5
<1>8. \A k \in 1 .. 8 : k \in {1, 2, 3, 4, 5, 6, 7, 8}
  OBVIOUS
<1>9. Single(TimeFindings)
  BY <1>3, <1>7, <1>8 DEF Single
<1>10. A \cup B \cup C \subseteq AllOf(TimeFindings)
  BY <1>7 DEF AllOf
<1>11. QED
  BY <1>4, <1>6, <1>9, <1>10

LEMMA ScenarioList ==
  ASSUME TypeOK
  PROVE  /\ ScenarioFindings \in Lists /\ Single(ScenarioFindings)
         /\ AllOf(ScenarioFindings) = {} => Scenarios = Declared
<1> DEFINE A == When(~(Declared \subseteq Scenarios), Error("declared_scenarios_missing", ""))
           B == When(~(Scenarios \subseteq Declared), Error("observed_scenarios_undeclared", ""))
           each(s) == When(s.unperturbed, Error("scenario_perturbation_missing", s.id))
                        \cup When(~(s.cases \subseteq CasesSeen(s.id)),
                                  Error("scenario_cases_missing", s.id))
           L == [k \in DOMAIN task.scenarios |-> each(task.scenarios[k])]
           S == [id : Name, cases : SUBSET Name, unperturbed : BOOLEAN]
<1>1. /\ A \in SUBSET Findings /\ B \in SUBSET Findings
      /\ A = {} /\ B = {} => Scenarios = Declared
  <2>1. /\ Error("declared_scenarios_missing", "") \in Findings
        /\ Error("observed_scenarios_undeclared", "") \in Findings
    BY FindingTypes, NameAssumption DEF Types, SectionTypes
  <2>2. QED
    BY <2>1 DEF When
<1>2. ASSUME NEW s \in S
      PROVE  each(s) \in SUBSET Findings /\ \A f \in each(s) : ~OfInput(f)
  <2>1. /\ Error("scenario_perturbation_missing", s.id) \in Findings
        /\ Error("scenario_cases_missing", s.id) \in Findings
    BY FindingTypes DEF Types, SectionTypes
  <2>2. /\ ~OfInput(Error("scenario_perturbation_missing", s.id))
        /\ ~OfInput(Error("scenario_cases_missing", s.id))
    BY DEF OfInput, InputTypes, Error
  <2>3. QED
    BY <2>1, <2>2 DEF When
<1>3. \A f, g \in A : f = g
  BY DEF When
<1>4. \A f, g \in B : f = g
  BY DEF When
<1>5. ScenarioFindings = <<A, B>> \o L
  BY DEF ScenarioFindings
<1> HIDE DEF A, B, S, each
<1>6. /\ task.scenarios \in Seq(S) /\ Len(task.scenarios) \in Nat
      /\ DOMAIN task.scenarios = 1 .. Len(task.scenarios)
  BY LenProperties DEF TypeOK, Plan, S
<1>7. \A k \in DOMAIN task.scenarios : task.scenarios[k] \in S
  BY <1>6
<1>8. L \in Lists
  <2>1. \A k \in 1 .. Len(task.scenarios) : L[k] \in SUBSET Findings
    BY <1>2, <1>6, <1>7
  <2>2. L = [k \in 1 .. Len(task.scenarios) |-> L[k]]
    BY <1>6
  <2> HIDE DEF L
  <2>3. QED
    BY <1>6, <2>1, <2>2, ListByPlace
<1>9. Single(L)
  BY <1>2, <1>7 DEF Single
<1> HIDE DEF L
<1>10. <<A, B>> \in Lists /\ Single(<<A, B>>) /\ AllOf(<<A, B>>) = A \cup B
  BY <1>1, <1>3, <1>4, TwoPlaces
<1>11. /\ ScenarioFindings \in Lists /\ Single(ScenarioFindings)
       /\ AllOf(ScenarioFindings) = (A \cup B) \cup AllOf(L)
  BY <1>5, <1>8, <1>9, <1>10, ListsJoin
<1>12. QED
  BY <1>1, <1>11

LEMMA SplitFiles ==
  ASSUME TypeOK
  PROVE  /\ PathsOf(task.training \o task.holdout) \in Seq(Name)
         /\ task.training \in Seq(SplitFile) /\ task.holdout \in Seq(SplitFile)
<1>1. task.training \in Seq(SplitFile) /\ task.holdout \in Seq(SplitFile)
  BY DEF TypeOK, Plan
<1> DEFINE files == task.training \o task.holdout
<1>2. files \in Seq(SplitFile)
  BY <1>1, ConcatProperties
<1> HIDE DEF files
<1>3. \A k \in DOMAIN files : files[k].path \in Name
  <2>1. \A f \in SplitFile : f.path \in Name
    BY DEF SplitFile
  <2>2. \A k \in DOMAIN files : files[k] \in SplitFile
    BY <1>2
  <2>3. QED
    BY <2>1, <2>2
<1>4. [k \in DOMAIN files |-> files[k].path] \in [1 .. Len(files) -> Name]
  BY <1>2, <1>3, LenProperties
<1>5. [k \in DOMAIN files |-> files[k].path] \in Seq(Name)
  BY <1>2, <1>4, LenProperties
<1>6. QED
  BY <1>1, <1>5 DEF PathsOf, files

LEMMA SplitList ==
  ASSUME TypeOK
  PROVE  /\ SplitFindings \in Lists /\ Single(SplitFindings)
         /\ task.training # <<>> /\ AllOf(SplitFindings) = {} => SplitGood
<1> DEFINE paths == PathsOf(task.training \o task.holdout)
           A == When(UsedOutside(task.trainUsed, task.training)
                       \/ UsedOutside(task.holdoutUsed, task.holdout),
                     Error("calibration_split_missing_active_evidence", ""))
           B == When(Overlap, Error("calibration_holdout_identity_overlap", ""))
<1>1. /\ A \in SUBSET Findings /\ B \in SUBSET Findings
      /\ B = {} => ~Overlap
  <2>1. /\ Error("calibration_split_missing_active_evidence", "") \in Findings
        /\ Error("calibration_holdout_identity_overlap", "") \in Findings
    BY FindingTypes, NameAssumption DEF Types, SectionTypes
  <2>2. QED
    BY <2>1 DEF When
<1>2. (\A f, g \in A : f = g) /\ (\A f, g \in B : f = g)
  BY DEF When
<1>3. SplitFindings = LostSplitFiles \o <<A, B>>
  BY DEF SplitFindings
<1> HIDE DEF A, B, paths
<1>4. /\ LostSplitFiles \in Lists /\ Single(LostSplitFiles)
      /\ AllOf(LostSplitFiles) = {} => Range(paths) \cap task.gone = {}
  <2>1. paths \in Seq(Name) /\ "calibration_split_file_missing" \in Types
    BY SplitFiles DEF paths, Types, InputTypes
  <2>2. LostSplitFiles = Lost("calibration_split_file_missing", paths)
    BY DEF LostSplitFiles, paths
  <2>3. /\ LostSplitFiles \in Lists /\ Single(LostSplitFiles)
        /\ \A path \in Range(paths) \cap task.gone :
             Error("calibration_split_file_missing", path) \in AllOf(LostSplitFiles)
    BY <2>1, <2>2, LostFiles, Zenon
  <2>4. QED
    BY <2>3
<1>5. <<A, B>> \in Lists /\ Single(<<A, B>>) /\ AllOf(<<A, B>>) = A \cup B
  BY <1>1, <1>2, TwoPlaces
<1>6. /\ SplitFindings \in Lists /\ Single(SplitFindings)
      /\ AllOf(SplitFindings) = AllOf(LostSplitFiles) \cup (A \cup B)
  BY <1>3, <1>4, <1>5, ListsJoin
<1>7. QED
  BY <1>1, <1>4, <1>6 DEF SplitGood, paths

LEMMA UndeclaredSplitList ==
  LET L == <<{Error("calibration_split_not_declared", "")}>>
  IN  L \in Lists /\ Single(L) /\ AllOf(L) # {}
<1> DEFINE E == Error("calibration_split_not_declared", "")
<1>1. E \in Findings
  BY FindingTypes, NameAssumption DEF Types, SectionTypes
<1> HIDE DEF E
<1>2. {E} \in SUBSET Findings /\ \A f, g \in {E} : f = g
  BY <1>1
<1>3. <<{E}>> \in Lists /\ Single(<<{E}>>) /\ AllOf(<<{E}>>) = {E}
  BY <1>2, OnePlace
<1>4. QED
  BY <1>3 DEF E

LEMMA PointList ==
  ASSUME NEW p \in Point
  PROVE  /\ PointFindings(p) \in SUBSET Findings
         /\ \A f \in PointFindings(p) : ~OfInput(f)
         /\ PointFindings(p) = {} => Outcome(p) \in {"pass", "fail"}
         /\ Outcome(p) \in {"invalid", "missing", "pass", "fail"}
<1>1. /\ Error("residual_series_invalid_point", "") \in Findings
      /\ Error("residual_series_point_evaluation_failed", "") \in Findings
      /\ Error("residual_series_required_values_missing", "") \in Findings
  BY FindingTypes, NameAssumption DEF Types, SectionTypes
<1>2. /\ ~OfInput(Error("residual_series_invalid_point", ""))
      /\ ~OfInput(Error("residual_series_point_evaluation_failed", ""))
      /\ ~OfInput(Error("residual_series_required_values_missing", ""))
  BY DEF OfInput, InputTypes, Error
<1>3. PointFindings(p) \in SUBSET Findings /\ \A f \in PointFindings(p) : ~OfInput(f)
  BY <1>1, <1>2 DEF PointFindings, When
<1>4. p.valid \in BOOLEAN /\ p.audit \in {"refused", "missing", "pass", "fail"}
  BY DEF Point
<1>5. Outcome(p) \in {"invalid", "missing", "pass", "fail"}
  BY <1>4 DEF Outcome
<1>6. PointFindings(p) = {} =>
        p.valid /\ ~(p.valid /\ p.audit = "refused") /\ Outcome(p) # "missing"
  BY DEF PointFindings, When
<1>7. QED
  BY <1>3, <1>4, <1>5, <1>6 DEF Outcome

LEMMA IntervalList ==
  ASSUME TypeOK
  PROVE  LET L == [k \in DOMAIN intervals |-> {Warning("residual_series_interval_failed", "")}]
         IN  L \in Lists /\ Single(L) /\ (AllOf(L) = {} => DOMAIN intervals = {})
<1> DEFINE E == Warning("residual_series_interval_failed", "")
           L == [k \in DOMAIN intervals |-> {E}]
<1>1. E \in Findings
  BY FindingTypes, NameAssumption DEF Types, SectionTypes
<1>2. Len(intervals) \in Nat /\ DOMAIN intervals = 1 .. Len(intervals)
  BY LenProperties DEF TypeOK
<1> HIDE DEF E
<1>3. L \in [1 .. Len(intervals) -> SUBSET Findings]
  BY <1>1, <1>2
<1>4. L \in Lists
  BY <1>2, <1>3 DEF Lists
<1>5. Single(L) /\ (AllOf(L) = {} => DOMAIN intervals = {})
  BY DEF Single, AllOf
<1>6. QED
  BY <1>4, <1>5 DEF E

LEMMA EnvelopeList ==
  ASSUME TypeOK
  PROVE  /\ EnvelopeFindings \in Lists /\ Single(EnvelopeFindings)
         /\ \A s \in Violations :
              \E f \in AllOf(EnvelopeFindings) : ~OfInput(f) /\ f.severity = s
<1> DEFINE E(s) == [severity |-> s, type |-> "physical_envelope_interval_violation", about |-> ""]
<1>1. \A s : ~OfInput(E(s)) /\ E(s).severity = s
  BY DEF OfInput, InputTypes
<1>2. \A s \in Severities : E(s) \in Findings
  <2>1. "physical_envelope_interval_violation" \in Types /\ "" \in Name
    BY NameAssumption DEF Types, SectionTypes
  <2>2. QED
    BY <2>1 DEF Findings, Types
<1> DEFINE L == [k \in DOMAIN points |-> {E(s) : s \in IF points[k].valid THEN points[k].outside ELSE {}}]
<1>3. EnvelopeFindings = L
  BY DEF EnvelopeFindings
<1> HIDE DEF E
<1>4. \A k \in DOMAIN points : points[k].outside \in SUBSET Severities
  BY PointTypes DEF Point
<1>5. \A k \in DOMAIN points : L[k] \in SUBSET Findings /\ \A f \in L[k] : ~OfInput(f)
  BY <1>1, <1>2, <1>4
<1>6. L \in Lists
  <2>1. L \in [1 .. Len(points) -> SUBSET Findings]
    BY <1>5, PointTypes
  <2>2. QED
    BY <2>1, PointTypes DEF Lists
<1>7. Single(L)
  BY <1>5 DEF Single
<1>8. ASSUME NEW s \in Violations PROVE E(s) \in AllOf(L)
  <2>1. PICK k \in DOMAIN points : points[k].valid /\ s \in points[k].outside
    BY DEF Violations, Valid
  <2>2. E(s) \in L[k]
    BY <2>1
  <2>3. QED
    BY <2>1, <2>2 DEF AllOf
<1>9. QED
  BY <1>1, <1>3, <1>6, <1>7, <1>8

LEMMA AdequacyList ==
  ASSUME TypeOK, Given
  PROVE  /\ AdequacyFindings \in Lists /\ Single(AdequacyFindings)
         /\ AllOf(AdequacyFindings) = {} =>
              /\ ~(~Gone(SchemaFile) /\ SchemaFile \in task.malformed)
              /\ ~(~Gone(RolesFile) /\ RolesFile \in task.malformed)
              /\ ~(AdequacyInputs /\ task.short)
<1> DEFINE A == When(~Gone(SchemaFile) /\ SchemaFile \in task.malformed,
                     Error("validation_manifest_unreadable", SchemaFile))
           B == When(~Gone(RolesFile) /\ RolesFile \in task.malformed,
                     Error("validation_role_matrix_unreadable", RolesFile))
           C == When(AdequacyInputs /\ task.short, Warning("adequacy_shortfall", ""))
<1>1. A \in SUBSET Findings /\ B \in SUBSET Findings /\ C \in SUBSET Findings
  <2>1. /\ Error("validation_manifest_unreadable", SchemaFile) \in Findings
        /\ Error("validation_role_matrix_unreadable", RolesFile) \in Findings
        /\ Warning("adequacy_shortfall", "") \in Findings
    BY Files, FindingTypes, NameAssumption DEF Types, InputTypes, SectionTypes
  <2>2. QED
    BY <2>1 DEF When
<1>2. (\A f, g \in A : f = g) /\ (\A f, g \in B : f = g) /\ (\A f, g \in C : f = g)
  BY DEF When
<1>3. A = {} /\ B = {} /\ C = {} =>
        /\ ~(~Gone(SchemaFile) /\ SchemaFile \in task.malformed)
        /\ ~(~Gone(RolesFile) /\ RolesFile \in task.malformed)
        /\ ~(AdequacyInputs /\ task.short)
  BY DEF When
<1>4. AdequacyFindings = <<A, B, C>>
  BY DEF AdequacyFindings
<1> HIDE DEF A, B, C
<1>5. /\ AdequacyFindings \in Lists /\ DOMAIN AdequacyFindings = {1, 2, 3}
      /\ AdequacyFindings[1] = A /\ AdequacyFindings[2] = B /\ AdequacyFindings[3] = C
  BY <1>1, <1>4 DEF Lists
<1>6. Single(AdequacyFindings)
  BY <1>2, <1>5 DEF Single
<1>7. AllOf(AdequacyFindings) = A \cup B \cup C
  BY <1>5 DEF AllOf
<1>8. QED
  BY <1>3, <1>5, <1>6, <1>7

LEMMA RolloutList ==
  ASSUME TypeOK, Given PROVE task.rollout \in Lists /\ Single(task.rollout)
<1>1. task.rollout \in Lists
  BY DEF TypeOK, Plan, Lists
<1>2. Single(task.rollout)
  BY TaskAssumption DEF Given, Single
<1>3. QED
  BY <1>1, <1>2

LEMMA RolesList ==
  ASSUME NEW b
  PROVE  LET L == <<When(b, Error("validation_roles_empty", ""))>>
         IN  L \in Lists /\ Single(L)
<1> DEFINE A == When(b, Error("validation_roles_empty", ""))
<1>1. Error("validation_roles_empty", "") \in Findings
  BY FindingTypes, NameAssumption DEF Types, SectionTypes
<1>2. A \in SUBSET Findings /\ \A f, g \in A : f = g
  BY <1>1 DEF When
<1> HIDE DEF A
<1>3. <<A>> \in Lists /\ Single(<<A>>)
  BY <1>2, OnePlace
<1>4. QED
  BY <1>3 DEF A

(* What is left of a list when an input counts once: nothing new, every    *)
(* finding that is not about an input, and one about each input.           *)
LEMMA InputsOnce ==
  ASSUME NEW found \in Lists, Single(found)
  PROVE  LET kept == UniqueInputFindings(found)
         IN  /\ kept \in Lists /\ Single(kept)
             /\ AllOf(kept) \subseteq AllOf(found)
             /\ \A f \in AllOf(found) : ~OfInput(f) => f \in AllOf(kept)
             /\ \A f \in AllOf(found) :
                  OfInput(f) => \E g \in AllOf(kept) : OfInput(g) /\ g.about = f.about
             /\ \A j, k \in DOMAIN kept : \A f \in kept[j], g \in kept[k] :
                  OfInput(f) /\ OfInput(g) /\ f.about = g.about => j = k /\ f = g
<1> DEFINE kept == UniqueInputFindings(found)
           Early(f, k) == \E j \in 1 .. k - 1 : \E g \in found[j] : OfInput(g) /\ g.about = f.about
<1>1. Len(found) \in Nat /\ DOMAIN found = 1 .. Len(found)
  BY LenProperties DEF Lists
<1>2. /\ DOMAIN kept = DOMAIN found
      /\ kept = [k \in 1 .. Len(found) |-> kept[k]]
      /\ \A k \in DOMAIN found :
           /\ kept[k] \subseteq found[k]
           /\ \A f \in found[k] : f \in kept[k] <=> (OfInput(f) => ~Early(f, k))
  BY <1>1 DEF UniqueInputFindings
<1> HIDE DEF kept
<1>3. \A k \in DOMAIN found : found[k] \in SUBSET Findings
  BY DEF Lists
<1>4. kept \in Lists
  BY <1>1, <1>2, <1>3, ListByPlace
<1>5. Single(kept)
  BY <1>2 DEF Single
<1>6. AllOf(kept) \subseteq AllOf(found)
  BY <1>2 DEF AllOf
<1>7. ASSUME NEW f \in AllOf(found), ~OfInput(f) PROVE f \in AllOf(kept)
  <2>1. PICK k \in DOMAIN found : f \in found[k]
    BY DEF AllOf
  <2>2. f \in kept[k] /\ k \in DOMAIN kept
    BY <1>2, <1>7, <2>1
  <2>3. QED
    BY <2>2 DEF AllOf
<1>8. ASSUME NEW f \in AllOf(found), OfInput(f)
      PROVE  \E g \in AllOf(kept) : OfInput(g) /\ g.about = f.about
  <2> DEFINE Places == {k \in DOMAIN found : \E g \in found[k] : OfInput(g) /\ g.about = f.about}
  <2>1. Places # {} /\ Places \subseteq Nat
    BY <1>1, <1>8 DEF AllOf
  <2>2. PICK k \in Places : \A j \in Places : k <= j
    BY <2>1, SomeLeast
  <2>3. PICK g \in found[k] : OfInput(g) /\ g.about = f.about
    BY <2>2
  <2>4. ~Early(g, k)
    <3>1. SUFFICES ASSUME NEW j \in 1 .. k - 1, NEW h \in found[j],
                          OfInput(h), h.about = g.about
                   PROVE  FALSE
      OBVIOUS
    <3>2. j \in Places /\ ~(k <= j)
      BY <1>1, <2>1, <2>3, <3>1
    <3>3. QED
      BY <2>2, <3>2
  <2>5. g \in kept[k]
    BY <1>2, <2>3, <2>4
  <2>6. QED
    BY <1>2, <2>3, <2>5 DEF AllOf
<1>9. ASSUME NEW j \in DOMAIN kept, NEW k \in DOMAIN kept, NEW f \in kept[j], NEW g \in kept[k],
             OfInput(f), OfInput(g), f.about = g.about
      PROVE  j = k /\ f = g
  <2>1. j \in Nat /\ k \in Nat /\ 1 <= j /\ 1 <= k
    BY <1>1, <1>2
  <2>2. f \in found[j] /\ g \in found[k]
    BY <1>2
  <2>3. ~(j < k)
    <3>1. j < k => j \in 1 .. k - 1
      BY <2>1
    <3>2. j < k => Early(g, k)
      BY <1>9, <2>2, <3>1
    <3>3. QED
      BY <1>2, <1>9, <2>2, <3>2
  <2>4. ~(k < j)
    <3>1. k < j => k \in 1 .. j - 1
      BY <2>1
    <3>2. k < j => Early(f, j)
      BY <1>9, <2>2, <3>1
    <3>3. QED
      BY <1>2, <1>9, <2>2, <3>2
  <2>5. j = k
    BY <2>1, <2>3, <2>4
  <2>6. QED
    BY <1>2, <1>9, <2>2, <2>5 DEF Single
<1>10. QED
  BY <1>4, <1>5, <1>6, <1>7, <1>8, <1>9 DEF kept

-----------------------------------------------------------------------------
(* Steps.  What was found stays found.                                     *)
Grew ==
  /\ findings' \in Lists /\ Single(findings')
  /\ AllOf(findings') = {} => AllOf(findings) = {}
  /\ \A f \in AllOf(findings) :
       IF OfInput(f) THEN \E g \in AllOf(findings') : OfInput(g) /\ g.about = f.about
       ELSE f \in AllOf(findings')

LEMMA Adding ==
  ASSUME TypeOK, Single(findings), NEW L \in Lists, Single(L), findings' = findings \o L
  PROVE  Grew /\ AllOf(findings') = AllOf(findings) \cup AllOf(L)
<1>1. findings \in Lists
  BY DEF TypeOK, Lists
<1>2. /\ findings' \in Lists /\ Single(findings')
      /\ AllOf(findings') = AllOf(findings) \cup AllOf(L)
  BY <1>1, ListsJoin
<1>3. QED
  BY <1>2 DEF Grew

LEMMA AddingNone ==
  ASSUME TypeOK, Single(findings), findings' = findings
  PROVE  Grew
BY DEF Grew, TypeOK, Lists

(* What each action adds to the findings.                                  *)
LEMMA DatasetAdds ==
  ASSUME IInv, CheckDataset
  PROVE  Grew /\ AllOf(findings') = AllOf(findings) \cup AllOf(DatasetFindings)
BY DatasetList, Adding DEF IInv, CheckDataset, Close

LEMMA SeriesFileAdds ==
  ASSUME IInv, ReadSeriesFile
  PROVE  /\ Grew
         /\ points' = <<>> \/ Gone(task.seriesFile) =>
              \E f \in AllOf(findings') : OfInput(f) /\ f.about = task.seriesFile
         /\ AllOf(findings') = {} => points' # <<>> /\ section' = section
         /\ points' \in Seq(Point)
<1> DEFINE readable == ~Gone(task.seriesFile) /\ task.series # <<>>
           L == <<When(~readable, Error("observed_series_unreadable", task.seriesFile))>>
<1>1. /\ points' = IF readable THEN task.series ELSE <<>>
      /\ section' = [section EXCEPT !["dataset"] =
                       IF readable THEN section["dataset"]
                       ELSE IF Gone(task.seriesFile) THEN "missing" ELSE "unreadable"]
      /\ findings' = findings \o L
  BY DEF ReadSeriesFile, Close
<1>2. /\ L \in Lists /\ Single(L)
      /\ ~readable => \E f \in AllOf(L) : OfInput(f) /\ f.about = task.seriesFile
  BY SeriesFileList DEF IInv
<1>3. readable => section' = section
  BY <1>1 DEF IInv, TypeOK
<1>4. task.series \in Seq(Point)
  BY DEF IInv, TypeOK, Plan
<1> HIDE DEF L
<1>5. Grew /\ AllOf(findings') = AllOf(findings) \cup AllOf(L)
  BY <1>1, <1>2, Adding DEF IInv
<1>6. QED
  BY <1>1, <1>2, <1>3, <1>4, <1>5, EmptySeq

LEMMA ContractSeriesAdds ==
  ASSUME IInv, ReadContractSeries
  PROVE  /\ Grew
         /\ AllOf(findings') = {} /\ InputsAtHand => points' # <<>>
         /\ points' \in Seq(Point)
<1>1. points' = SeriesOfContracts /\ findings' = findings \o ContractFindings
  BY DEF ReadContractSeries
<1>2. Grew /\ AllOf(findings') = AllOf(findings) \cup AllOf(ContractFindings)
  BY <1>1, SeriesList, Adding DEF IInv
<1>3. QED
  BY <1>1, <1>2, SeriesList, ContractSeries DEF IInv

LEMMA MappingAdds ==
  ASSUME IInv, ReviewMapping
  PROVE  Grew /\ (AllOf(findings') = {} => MappingGood)
<1>1. CASE AnyFound(UnreadEdges)
  <2>1. findings' = findings \o UnreadEdges
    BY <1>1 DEF ReviewMapping, Close
  <2>2. UnreadEdges \in Lists /\ Single(UnreadEdges) /\ AllOf(UnreadEdges) # {}
    BY <1>1, UnreadList, NothingFound DEF IInv
  <2>3. QED
    BY <2>1, <2>2, Adding DEF IInv
<1>2. CASE ~AnyFound(UnreadEdges)
  <2>1. findings' = findings \o MappingFindings
    BY <1>2 DEF ReviewMapping, Close
  <2>2. QED
    BY <2>1, MappingList, Adding DEF IInv
<1>3. QED
  BY <1>1, <1>2

LEMMA TimeAdds ==
  ASSUME IInv, CheckTime
  PROVE  Grew /\ (AllOf(findings') = {} /\ HasSeries => TimeGood)
<1>1. CASE HasSeries
  <2>1. findings' = findings \o TimeFindings
    BY <1>1 DEF CheckTime, Close
  <2>2. QED
    BY <2>1, TimeList, Adding DEF IInv
<1>2. CASE ~HasSeries
  <2>1. findings' = findings \o <<>>
    BY <1>2 DEF CheckTime, Close
  <2>2. QED
    BY <1>2, <2>1, EmptyList, Adding DEF IInv
<1>3. QED
  BY <1>1, <1>2

LEMMA ScenariosAdd ==
  ASSUME IInv, CheckScenarios
  PROVE  Grew /\ (AllOf(findings') = {} /\ HasSeries => Scenarios = Declared)
<1>1. CASE HasSeries
  <2>1. findings' = findings \o ScenarioFindings
    BY <1>1 DEF CheckScenarios, Close
  <2>2. QED
    BY <2>1, ScenarioList, Adding DEF IInv
<1>2. CASE ~HasSeries
  <2>1. findings' = findings \o <<>>
    BY <1>2 DEF CheckScenarios, Close
  <2>2. QED
    BY <1>2, <2>1, EmptyList, Adding DEF IInv
<1>3. QED
  BY <1>1, <1>2

LEMMA SplitAdds ==
  ASSUME IInv, CheckSplit
  PROVE  Grew /\ (AllOf(findings') = {} => SplitGood)
<1>1. CASE ~task.calibrated
  <2>1. findings' = findings \o <<>>
    BY <1>1 DEF CheckSplit, Close
  <2>2. QED
    BY <1>1, <2>1, EmptyList, Adding DEF IInv, SplitGood
<1>2. CASE task.calibrated /\ task.training = <<>>
  <2>1. findings' = findings \o <<{Error("calibration_split_not_declared", "")}>>
    BY <1>2 DEF CheckSplit, Close
  <2>2. QED
    BY <2>1, UndeclaredSplitList, Adding DEF IInv
<1>3. CASE task.calibrated /\ task.training # <<>>
  <2>1. findings' = findings \o SplitFindings
    BY <1>3 DEF CheckSplit, Close
  <2>2. QED
    BY <1>3, <2>1, SplitList, Adding DEF IInv
<1>4. QED
  BY <1>1, <1>2, <1>3

LEMMA PointAdds ==
  ASSUME IInv, EvaluatePoint
  PROVE  LET p == points[Len(results) + 1]
         IN  /\ Grew
             /\ p \in Point /\ results' = Append(results, Outcome(p))
             /\ Outcome(p) \in {"invalid", "missing", "pass", "fail"}
             /\ AllOf(findings') = {} => Outcome(p) \in {"pass", "fail"}
<1> DEFINE p == points[Len(results) + 1]
<1>1. p \in Point
  <2>1. Len(results) \in Nat /\ Len(results) < Len(points)
    BY LenProperties DEF IInv, TypeOK, EvaluatePoint
  <2>2. QED
    BY <2>1, PointTypes DEF IInv
<1>2. findings' = Append(findings, PointFindings(p)) /\ results' = Append(results, Outcome(p))
  BY DEF EvaluatePoint
<1> HIDE DEF p
<1>3. /\ PointFindings(p) \in SUBSET Findings
      /\ \A f \in PointFindings(p) : ~OfInput(f)
      /\ PointFindings(p) = {} => Outcome(p) \in {"pass", "fail"}
      /\ Outcome(p) \in {"invalid", "missing", "pass", "fail"}
  BY <1>1, PointList
<1>4. /\ <<PointFindings(p)>> \in Lists /\ Single(<<PointFindings(p)>>)
      /\ AllOf(<<PointFindings(p)>>) = PointFindings(p)
  BY <1>3, OnePlace
<1>5. findings' = findings \o <<PointFindings(p)>>
  <2>1. findings \in Seq(SUBSET Findings)
    BY DEF IInv, TypeOK
  <2>2. QED
    BY <1>2, <1>3, <2>1, AppendIsConcat
<1>6. Grew /\ AllOf(findings') = AllOf(findings) \cup PointFindings(p)
  BY <1>4, <1>5, Adding DEF IInv
<1>7. QED
  BY <1>1, <1>2, <1>3, <1>6 DEF p

LEMMA SkippingAdds ==
  ASSUME IInv, SkipPoints PROVE Grew
<1>1. findings' = findings \o <<>>
  BY DEF SkipPoints, Close
<1>2. QED
  BY <1>1, EmptyList, Adding DEF IInv

LEMMA ResidualsAdd ==
  ASSUME IInv, EndResiduals
  PROVE  Grew /\ (AllOf(findings') = {} => DOMAIN intervals = {})
<1> DEFINE L == [k \in DOMAIN intervals |-> {Warning("residual_series_interval_failed", "")}]
<1>1. findings' = findings \o L
  BY DEF EndResiduals, Close
<1>2. L \in Lists /\ Single(L) /\ (AllOf(L) = {} => DOMAIN intervals = {})
  BY IntervalList DEF IInv
<1> HIDE DEF L
<1>3. QED
  BY <1>1, <1>2, Adding DEF IInv

LEMMA EnvelopesAdd ==
  ASSUME IInv, CheckEnvelopes
  PROVE  /\ Grew
         /\ \A s \in Violations : \E f \in AllOf(findings') : ~OfInput(f) /\ f.severity = s
<1>1. CASE HasSeries
  <2>1. findings' = findings \o EnvelopeFindings
    BY <1>1 DEF CheckEnvelopes, Close
  <2>2. Grew /\ AllOf(findings') = AllOf(findings) \cup AllOf(EnvelopeFindings)
    BY <2>1, EnvelopeList, Adding DEF IInv
  <2>3. QED
    BY <2>2, EnvelopeList DEF IInv
<1>2. CASE ~HasSeries
  <2>1. findings' = findings \o <<>>
    BY <1>2 DEF CheckEnvelopes, Close
  <2>2. Violations = {}
    BY <1>2, PointTypes DEF Violations, Valid, IInv
  <2>3. QED
    BY <2>1, <2>2, EmptyList, Adding DEF IInv
<1>3. QED
  BY <1>1, <1>2

LEMMA AdequacyAdds ==
  ASSUME IInv, CheckAdequacy
  PROVE  /\ Grew
         /\ \/ section' = [section EXCEPT !["adequacy"] = "not_applicable"]
            \/ AllOf(findings') = AllOf(findings) \cup AllOf(AdequacyFindings)
<1>1. CASE task.scope = "snapshot" /\ ~task.floors
  <2>1. /\ findings' = findings \o <<>>
        /\ section' = [section EXCEPT !["adequacy"] = "not_applicable"]
    BY <1>1 DEF CheckAdequacy, Close
  <2>2. QED
    BY <2>1, EmptyList, Adding DEF IInv
<1>2. CASE ~(task.scope = "snapshot" /\ ~task.floors)
  <2>1. findings' = findings \o AdequacyFindings
    BY <1>2 DEF CheckAdequacy, Close
  <2>2. QED
    BY <2>1, AdequacyList, Adding DEF IInv
<1>3. QED
  BY <1>1, <1>2

LEMMA RolloutAdds ==
  ASSUME IInv, CheckRollout PROVE Grew
<1>1. findings' = findings \o task.rollout
  BY DEF CheckRollout
<1>2. QED
  BY <1>1, RolloutList, Adding DEF IInv

LEMMA ConcludingKeeps ==
  ASSUME IInv, Conclude
  PROVE  /\ Grew
         /\ \A j, k \in DOMAIN findings' : \A f \in findings'[j], g \in findings'[k] :
              OfInput(f) /\ OfInput(g) /\ f.about = g.about => j = k /\ f = g
<1> DEFINE L == <<When(task.scope # "snapshot" /\ task.roles = <<>> /\ HasSeries,
                       Error("validation_roles_empty", ""))>>
           all == findings \o L
<1>1. findings' = UniqueInputFindings(all)
  BY DEF Conclude
<1>2. L \in Lists /\ Single(L)
  BY RolesList
<1> HIDE DEF L
<1>3. findings \in Lists /\ Single(findings)
  BY DEF IInv, TypeOK, Lists
<1>4. all \in Lists /\ Single(all) /\ AllOf(all) = AllOf(findings) \cup AllOf(L)
  BY <1>2, <1>3, ListsJoin
<1> HIDE DEF all
<1>5. /\ findings' \in Lists /\ Single(findings')
      /\ \A f \in AllOf(all) : ~OfInput(f) => f \in AllOf(findings')
      /\ \A f \in AllOf(all) :
           OfInput(f) => \E g \in AllOf(findings') : OfInput(g) /\ g.about = f.about
      /\ \A j, k \in DOMAIN findings' : \A f \in findings'[j], g \in findings'[k] :
           OfInput(f) /\ OfInput(g) /\ f.about = g.about => j = k /\ f = g
  BY <1>1, <1>4, InputsOnce
<1>6. Grew
  BY <1>4, <1>5 DEF Grew
<1>7. QED
  BY <1>5, <1>6

LEMMA StepGrew ==
  ASSUME IInv, [Next]_vars PROVE Grew
<1>1. CASE RefuseContracts \/ EndPoints \/ ExtendInterval \/ UNCHANGED vars
  <2>1. findings' = findings
    BY <1>1 DEF RefuseContracts, EndPoints, ExtendInterval, vars
  <2>2. QED
    BY <2>1, AddingNone DEF IInv
<1>2. QED
  BY <1>1, DatasetAdds, SeriesFileAdds, ContractSeriesAdds, MappingAdds, TimeAdds, ScenariosAdd,
     SplitAdds, SkippingAdds, PointAdds, ResidualsAdd, EnvelopesAdd, AdequacyAdds, RolloutAdds,
     ConcludingKeeps DEF Next

(* Where a step can lead, and what it leaves alone.                        *)
LEMMA Flow ==
  ASSUME Next
  PROVE  /\ task' = task
         /\ stage' \in AfterDataset => stage \in AfterDataset \/ CheckDataset
         /\ stage' \in AfterSeries =>
              stage \in AfterSeries \/ ReadSeriesFile \/ ReadContractSeries
         /\ stage' \in AfterMapping => stage \in AfterMapping \/ ReviewMapping
         /\ stage' \in AfterTime => stage \in AfterTime \/ CheckTime
         /\ stage' \in AfterScenarios => stage \in AfterScenarios \/ CheckScenarios
         /\ stage' \in AfterSplit => stage \in AfterSplit \/ CheckSplit
         /\ stage' \in AfterPoints => stage \in AfterPoints \/ SkipPoints \/ EndPoints
         /\ stage' \in AfterResiduals => stage \in AfterResiduals \/ SkipPoints \/ EndResiduals
         /\ stage' \in AfterEnvelopes => stage \in AfterEnvelopes \/ CheckEnvelopes
         /\ stage' \in AfterAdequacy => stage \in AfterAdequacy \/ CheckAdequacy
         /\ stage' = "done" => Conclude
         /\ points' # points => ReadSeriesFile \/ ReadContractSeries
         /\ results' # results => EvaluatePoint
         /\ scanned' # scanned => ExtendInterval
         /\ intervals' # intervals => ExtendInterval
BY DEF Next, CheckDataset, ReadSeriesFile, ReadContractSeries, RefuseContracts, ReviewMapping,
       CheckTime, CheckScenarios, CheckSplit, SkipPoints, EvaluatePoint, EndPoints,
       ExtendInterval, EndResiduals, CheckEnvelopes, CheckAdequacy, CheckRollout, Conclude,
       AfterDataset, AfterSeries, AfterMapping, AfterTime, AfterScenarios, AfterSplit, AfterPoints,
       AfterResiduals, AfterEnvelopes, AfterAdequacy, Stages

(* The types of what a step changes.                                       *)
Statuses ==
  {"", "current", "missing", "stale", "unreadable", "not_run", "not_applicable", "not_declared",
   "pass", "partial", "blocked"}

(* A section gets a status.                                                *)
Sets(name) == \E status \in Statuses : section' = [section EXCEPT ![name] = status]

LEMMA SetsOnly ==
  ASSUME TypeOK, NEW name \in Sections, Sets(name)
  PROVE  /\ section' \in [Sections -> Statuses]
         /\ \A other \in Sections \ {name} : section'[other] = section[other]
<1>1. section \in [Sections -> Statuses]
  BY DEF TypeOK, Statuses
<1>2. PICK status \in Statuses : section' = [section EXCEPT ![name] = status]
  BY DEF Sets
<1>3. QED
  BY <1>1, <1>2

LEMMA ActionSets ==
  ASSUME TypeOK
  PROVE  /\ CheckDataset => Sets("dataset")
         /\ ReadSeriesFile => Sets("dataset")
         /\ ReviewMapping => Sets("mapping")
         /\ CheckTime => Sets("time")
         /\ CheckScenarios => Sets("scenarios")
         /\ CheckSplit => Sets("split")
         /\ SkipPoints => Sets("residual")
         /\ EndResiduals => Sets("residual")
         /\ CheckEnvelopes => Sets("envelopes")
         /\ CheckAdequacy => Sets("adequacy")
         /\ Conclude => Sets("residual")
<1>1. CheckDataset => Sets("dataset")
  BY DEF CheckDataset, Close, DatasetStatus, Sets, Statuses
<1>2. ReadSeriesFile => Sets("dataset")
  <2>1. section["dataset"] \in Statuses
    BY DEF TypeOK, Statuses, Sections
  <2>2. QED
    BY <2>1 DEF ReadSeriesFile, Close, Sets, Statuses
<1>3. ReviewMapping => Sets("mapping")
  BY DEF ReviewMapping, Close, Sets, Statuses
<1>4. CheckTime => Sets("time")
  BY DEF CheckTime, Close, Sets, Statuses
<1>5. CheckScenarios => Sets("scenarios")
  BY DEF CheckScenarios, Close, Sets, Statuses
<1>6. CheckSplit => Sets("split")
  BY DEF CheckSplit, Close, Sets, Statuses
<1>7. SkipPoints => Sets("residual")
  BY DEF SkipPoints, Close, Sets, Statuses
<1>8. EndResiduals => Sets("residual")
  BY DEF EndResiduals, Close, Sets, Statuses
<1>9. CheckEnvelopes => Sets("envelopes")
  BY DEF CheckEnvelopes, Close, Sets, Statuses
<1>10. CheckAdequacy => Sets("adequacy")
  BY DEF CheckAdequacy, Close, Sets, Statuses
<1>11. Conclude => Sets("residual")
  <2>1. section["residual"] \in Statuses
    BY DEF TypeOK, Statuses, Sections
  <2>2. QED
    BY <2>1 DEF Conclude, Sets, Statuses
<1>12. QED
  BY <1>1, <1>2, <1>3, <1>4, <1>5, <1>6, <1>7, <1>8, <1>9, <1>10, <1>11

LEMMA SectionFlow ==
  ASSUME TypeOK, Next
  PROVE  /\ section' \in [Sections -> Statuses]
         /\ section'["dataset"] # section["dataset"] => CheckDataset \/ ReadSeriesFile
         /\ section'["envelopes"] # section["envelopes"] => CheckEnvelopes
         /\ section'["adequacy"] # section["adequacy"] => CheckAdequacy
<1>1. {"dataset", "mapping", "time", "scenarios", "split", "residual", "envelopes",
       "adequacy"} \subseteq Sections
  BY DEF Sections
<1>2. CASE CheckDataset \/ ReadSeriesFile
  <2>1. Sets("dataset")
    BY <1>2, ActionSets
  <2>2. /\ section' \in [Sections -> Statuses]
        /\ \A other \in Sections \ {"dataset"} : section'[other] = section[other]
    BY <1>1, <2>1, SetsOnly
  <2>3. QED
    BY <1>1, <1>2, <2>2
<1>3. CASE CheckEnvelopes
  <2>1. Sets("envelopes")
    BY <1>3, ActionSets
  <2>2. /\ section' \in [Sections -> Statuses]
        /\ \A other \in Sections \ {"envelopes"} : section'[other] = section[other]
    BY <1>1, <2>1, SetsOnly
  <2>3. QED
    BY <1>1, <1>3, <2>2
<1>4. CASE CheckAdequacy
  <2>1. Sets("adequacy")
    BY <1>4, ActionSets
  <2>2. /\ section' \in [Sections -> Statuses]
        /\ \A other \in Sections \ {"adequacy"} : section'[other] = section[other]
    BY <1>1, <2>1, SetsOnly
  <2>3. QED
    BY <1>1, <1>4, <2>2
<1>5. CASE ReviewMapping \/ CheckTime \/ CheckScenarios \/ CheckSplit \/ SkipPoints
             \/ EndResiduals \/ Conclude
  <2>1. PICK name \in {"mapping", "time", "scenarios", "split", "residual"} : Sets(name)
    BY <1>5, ActionSets
  <2>2. name \in Sections
    BY <1>1
  <2>3. /\ section' \in [Sections -> Statuses]
        /\ \A other \in Sections \ {name} : section'[other] = section[other]
    BY <2>1, <2>2, SetsOnly
  <2>4. {"dataset", "envelopes", "adequacy"} \subseteq Sections \ {name}
    BY <1>1
  <2>5. QED
    BY <2>3, <2>4
<1>6. CASE ReadContractSeries \/ RefuseContracts \/ EvaluatePoint \/ EndPoints \/ ExtendInterval
             \/ CheckRollout
  <2>1. section' = section
    BY <1>6 DEF ReadContractSeries, RefuseContracts, EvaluatePoint, EndPoints, ExtendInterval,
                CheckRollout
  <2>2. QED
    BY <2>1 DEF TypeOK, Statuses
<1>7. QED
  BY <1>2, <1>3, <1>4, <1>5, <1>6 DEF Next

LEMMA VerdictFlow ==
  ASSUME TypeOK, Next
  PROVE  auditPass' \in BOOLEAN /\ (auditPass' # auditPass => EndResiduals \/ Conclude)
<1>1. auditPass' # auditPass => EndResiduals \/ Conclude
  BY DEF Next, CheckDataset, ReadSeriesFile, ReadContractSeries, RefuseContracts, ReviewMapping,
         CheckTime, CheckScenarios, CheckSplit, SkipPoints, EvaluatePoint, EndPoints,
         ExtendInterval, CheckEnvelopes, CheckAdequacy, CheckRollout
<1>2. auditPass \in BOOLEAN
  BY DEF TypeOK
<1>3. EndResiduals \/ Conclude => auditPass' \in BOOLEAN
  BY DEF EndResiduals, Conclude
<1>4. QED
  BY <1>1, <1>2, <1>3

Interval == [first : Nat, last : Nat, block : Name, scenario : Name]

LEMMA IntervalTypes ==
  ASSUME IInv, ExtendInterval
  PROVE  intervals' \in Seq(Interval) /\ scanned' = scanned + 1 /\ scanned' \in 1 .. Len(results)
<1> DEFINE k == scanned + 1
           new == [first |-> k, last |-> k, block |-> points[k].block,
                   scenario |-> points[k].scenario]
           longer == [intervals EXCEPT ![Len(intervals)].last = k]
<1>1. intervals \in Seq(Interval)
  BY DEF IInv, TypeOK, Interval
<1>2. /\ Len(results) \in Nat /\ Len(results) <= Len(points)
      /\ scanned \in Nat /\ scanned < Len(results)
  <2>1. results \in Seq({"invalid", "missing", "pass", "fail"})
    BY DEF IInv, TypeOK
  <2>2. Len(results) \in Nat
    BY <2>1, LenProperties
  <2>3. Len(results) <= Len(points) /\ scanned \in 0 .. Len(results)
    BY DEF IInv, TypeOK
  <2>4. scanned < Len(results)
    BY DEF ExtendInterval
  <2>5. QED
    BY <2>2, <2>3, <2>4
<1>3. k \in Nat /\ k \in DOMAIN points
  BY <1>2, PointTypes DEF IInv
<1>4. points[k] \in Point
  BY <1>3, PointTypes DEF IInv
<1>5. new \in Interval
  BY <1>3, <1>4 DEF Point, Interval
<1>6. longer \in Seq(Interval)
  <2>1. Len(intervals) \in Nat /\ DOMAIN intervals = 1 .. Len(intervals)
    BY <1>1, LenProperties
  <2>2. \A i \in DOMAIN intervals : intervals[i] \in Interval
    BY <1>1
  <2>3. \A v \in Interval : [v EXCEPT !.last = k] \in Interval
    BY <1>3 DEF Interval
  <2>4. /\ DOMAIN longer = 1 .. Len(intervals)
        /\ longer = [i \in DOMAIN longer |-> longer[i]]
    BY <2>1
  <2>5. \A i \in 1 .. Len(intervals) :
          longer[i] = IF i = Len(intervals) THEN [intervals[i] EXCEPT !.last = k] ELSE intervals[i]
    BY <2>1
  <2> HIDE DEF longer, k
  <2>6. longer \in [1 .. Len(intervals) -> Interval]
    BY <2>1, <2>2, <2>3, <2>4, <2>5
  <2>7. QED
    BY <2>1, <2>6
<1>7. Append(intervals, new) \in Seq(Interval)
  BY <1>1, <1>5, AppendProperties
<1>8. (intervals' = intervals \/ intervals' = longer \/ intervals' = Append(intervals, new))
      /\ scanned' = k
  BY DEF ExtendInterval
<1> HIDE DEF new, longer
<1>9. QED
  BY <1>1, <1>2, <1>6, <1>7, <1>8

LEMMA TypeStep ==
  ASSUME IInv, [Next]_vars PROVE TypeOK' /\ Given'
<1>1. CASE UNCHANGED vars
  BY <1>1 DEF IInv, TypeOK, Given, vars
<1>2. CASE Next
  <2>1. task' = task /\ Given' /\ task' \in Plan
    BY <1>2, Flow DEF IInv, Given, TypeOK
  <2>2. stage' \in Stages
    BY <1>2 DEF IInv, TypeOK, Stages, Next, CheckDataset, ReadSeriesFile, ReadContractSeries,
       RefuseContracts, ReviewMapping, CheckTime, CheckScenarios, CheckSplit, SkipPoints,
       EvaluatePoint, EndPoints, ExtendInterval, EndResiduals, CheckEnvelopes, CheckAdequacy,
       CheckRollout, Conclude
  <2>3. findings' \in Seq(SUBSET Findings)
    BY StepGrew DEF Grew, Lists
  <2>4. section' \in [Sections -> Statuses] /\ auditPass' \in BOOLEAN
    BY <1>2, SectionFlow, VerdictFlow DEF IInv
  <2>5. points' \in Seq(Point)
    BY <1>2, Flow, SeriesFileAdds, ContractSeriesAdds DEF IInv, TypeOK
  <2>6. /\ results' \in Seq({"invalid", "missing", "pass", "fail"})
        /\ Len(results') <= Len(points')
        /\ scanned' \in 0 .. Len(results')
    <3>1. /\ results \in Seq({"invalid", "missing", "pass", "fail"})
          /\ Len(results) \in Nat /\ Len(results) <= Len(points)
          /\ scanned \in 0 .. Len(results)
      BY LenProperties DEF IInv, TypeOK
    <3>2. CASE EvaluatePoint
      <4>1. PICK o \in {"invalid", "missing", "pass", "fail"} : results' = Append(results, o)
        BY <3>2, PointAdds
      <4>2. /\ results' \in Seq({"invalid", "missing", "pass", "fail"})
            /\ Len(results') = Len(results) + 1
        BY <3>1, <4>1, AppendProperties
      <4>3. Len(results) < Len(points) /\ points' = points /\ scanned' = scanned
        BY <3>2 DEF EvaluatePoint
      <4>4. QED
        BY <3>1, <4>2, <4>3, PointTypes DEF IInv
    <3>3. CASE ReadSeriesFile \/ ReadContractSeries
      <4>1. results = <<>> /\ results' = results /\ scanned' = scanned
        BY <3>3 DEF ReadSeriesFile, ReadContractSeries, IInv, Earned, PointsEarned, AfterSplit,
                    AfterScenarios, AfterTime, AfterMapping, AfterSeries
      <4>2. Len(results') = 0 /\ Len(points') \in Nat
        BY <2>5, <4>1, EmptySeq, LenProperties
      <4>3. QED
        BY <3>1, <4>1, <4>2
    <3>4. CASE ExtendInterval
      <4>1. results' = results /\ points' = points
        BY <3>4 DEF ExtendInterval
      <4>2. QED
        BY <3>1, <3>4, <4>1, IntervalTypes
    <3>5. CASE ~(EvaluatePoint \/ ReadSeriesFile \/ ReadContractSeries \/ ExtendInterval)
      BY <1>2, <3>1, <3>5, Flow
    <3>6. QED
      BY <3>2, <3>3, <3>4, <3>5
  <2>7. intervals' \in Seq(Interval)
    BY <1>2, Flow, IntervalTypes DEF IInv, TypeOK, Interval
  <2>8. QED
    BY <2>1, <2>2, <2>3, <2>4, <2>5, <2>6, <2>7 DEF TypeOK, Statuses, Interval
<1>3. QED
  BY <1>1, <1>2

-----------------------------------------------------------------------------
(* Each part of the invariant is kept.                                     *)
LEMMA Onward ==
  ASSUME Next
  PROVE  /\ stage \in AfterSeries => stage' \in AfterSeries
         /\ stage \in AfterSplit => stage' \in AfterSplit
         /\ stage \in AfterPoints => stage' \in AfterPoints
BY DEF Next, CheckDataset, ReadSeriesFile, ReadContractSeries, RefuseContracts, ReviewMapping,
       CheckTime, CheckScenarios, CheckSplit, SkipPoints, EvaluatePoint, EndPoints,
       ExtendInterval, EndResiduals, CheckEnvelopes, CheckAdequacy, CheckRollout, Conclude,
       AfterDataset, AfterSeries, AfterMapping, AfterTime, AfterScenarios, AfterSplit, AfterPoints,
       Stages

(* The stages that the actions belong to.                                  *)
LEMMA Order ==
  /\ CheckDataset => stage = "dataset" /\ stage' = "series"
  /\ ReadSeriesFile \/ ReadContractSeries =>
       /\ stage = "series" /\ stage \in AfterDataset /\ stage \notin AfterSeries
       /\ stage \notin AfterTime /\ stage \notin AfterSplit /\ stage \notin AfterPoints
       /\ stage' = "mapping" /\ stage' \in AfterSeries /\ stage' \notin AfterMapping
       /\ stage' \notin AfterTime /\ stage' \notin AfterScenarios /\ stage' \notin AfterSplit
       /\ stage' \notin AfterPoints /\ stage' \notin AfterResiduals
       /\ stage' \notin AfterEnvelopes /\ stage' \notin AfterAdequacy
  /\ EvaluatePoint => /\ stage = "points" /\ stage' = "points" /\ stage' \in AfterSplit
                      /\ stage \notin AfterPoints /\ stage' \notin AfterPoints
  /\ ExtendInterval => /\ stage = "intervals" /\ stage' = "intervals"
                       /\ stage' \in AfterPoints /\ stage \notin AfterResiduals
  /\ EndResiduals => stage = "intervals" /\ stage \in AfterPoints /\ stage \notin AfterResiduals
  /\ CheckEnvelopes => stage = "envelopes" /\ stage \notin AfterEnvelopes
  /\ CheckAdequacy => /\ stage = "adequacy" /\ stage \in AfterDataset /\ stage \in AfterSeries
                      /\ stage \notin AfterAdequacy
  /\ Conclude => /\ stage = "conclude" /\ stage' = "done" /\ stage \in AfterEnvelopes
                 /\ stage \in AfterResiduals
<1> USE DEF AfterDataset, AfterSeries, AfterMapping, AfterTime, AfterScenarios, AfterSplit,
            AfterPoints, AfterResiduals, AfterEnvelopes, AfterAdequacy, Stages
<1>1. CheckDataset => stage = "dataset" /\ stage' = "series"
  BY DEF CheckDataset
<1>2. ReadSeriesFile \/ ReadContractSeries => stage = "series" /\ stage' = "mapping"
  BY DEF ReadSeriesFile, ReadContractSeries
<1>3. EvaluatePoint => stage = "points" /\ stage' = "points"
  BY DEF EvaluatePoint
<1>4. ExtendInterval => stage = "intervals" /\ stage' = "intervals"
  BY DEF ExtendInterval
<1>5. /\ EndResiduals => stage = "intervals"
      /\ CheckEnvelopes => stage = "envelopes"
      /\ CheckAdequacy => stage = "adequacy"
      /\ Conclude => stage = "conclude" /\ stage' = "done"
  BY DEF EndResiduals, CheckEnvelopes, CheckAdequacy, Conclude
<1>6. QED
  BY <1>1, <1>2, <1>3, <1>4, <1>5

LEMMA QuietBefore ==
  ASSUME IInv, Next PROVE Quiet' => Quiet
BY StepGrew DEF Grew, Quiet

LEMMA DatasetStep ==
  ASSUME IInv, Next PROVE DatasetEarned'
<1>1. SUFFICES ASSUME stage' \in AfterDataset, Quiet' PROVE DatasetGood'
  BY DEF DatasetEarned
<1>2. task' = task /\ Quiet /\ TypeOK /\ Given /\ DatasetEarned
  BY Flow, QuietBefore, <1>1 DEF IInv, Earned
<1>3. CASE CheckDataset
  <2>1. AllOf(DatasetFindings) = {}
    BY <1>1, <1>3, DatasetAdds DEF Quiet
  <2>2. section' = [section EXCEPT !["dataset"] = DatasetStatus]
    BY <1>3 DEF CheckDataset, Close
  <2>3. section'["dataset"] = DatasetStatus
    BY <1>2, <2>2 DEF TypeOK, Sections
  <2>4. QED
    BY <1>2, <2>1, <2>3, DatasetList DEF DatasetGood
<1>4. CASE ~CheckDataset
  <2>1. stage \in AfterDataset
    BY <1>1, <1>4, Flow
  <2>2. DatasetGood
    BY <1>2, <2>1 DEF DatasetEarned
  <2>3. section'["dataset"] = section["dataset"]
    <3>1. ReadSeriesFile => section' = section
      BY <1>1, SeriesFileAdds DEF Quiet
    <3>2. QED
      BY <1>2, <1>4, <3>1, SectionFlow
  <2>4. QED
    BY <1>2, <2>2, <2>3 DEF DatasetGood
<1>5. QED
  BY <1>3, <1>4

LEMMA SeriesStep ==
  ASSUME IInv, Next PROVE SeriesEarned'
<1>1. task' = task /\ SeriesEarned
  BY Flow DEF IInv, Earned
<1>2. stage' \notin AfterSeries => points' = <<>>
  BY <1>1, Flow, Onward, Order DEF SeriesEarned
<1>3. ASSUME stage' \in AfterSeries, Quiet', InputsAtHand' PROVE HasSeries'
  <2>1. InputsAtHand /\ Quiet
    BY <1>1, <1>3, QuietBefore DEF InputsAtHand, Reported
  <2>2. CASE ReadSeriesFile \/ ReadContractSeries
    BY <1>3, <2>1, <2>2, SeriesFileAdds, ContractSeriesAdds DEF Quiet, HasSeries
  <2>3. CASE ~(ReadSeriesFile \/ ReadContractSeries)
    <3>1. points' = points /\ stage \in AfterSeries
      BY <1>3, <2>3, Flow
    <3>2. QED
      BY <1>1, <2>1, <3>1 DEF SeriesEarned, HasSeries
  <2>4. QED
    BY <2>2, <2>3
<1>4. QED
  BY <1>2, <1>3 DEF SeriesEarned

LEMMA MappingStep ==
  ASSUME IInv, Next PROVE MappingEarned'
<1>1. SUFFICES ASSUME stage' \in AfterMapping, Quiet' PROVE MappingGood'
  BY DEF MappingEarned
<1>2. task' = task /\ Quiet /\ MappingEarned
  BY Flow, QuietBefore, <1>1 DEF IInv, Earned
<1>3. MappingGood
  BY <1>1, <1>2, Flow, MappingAdds DEF MappingEarned, Quiet
<1>4. Edges' = Edges
  BY <1>2 DEF Edges
<1>5. \A role : Candidates(role)' = Candidates(role)
  BY <1>4 DEF Candidates
<1>6. QED
  BY <1>2, <1>3, <1>4, <1>5 DEF MappingGood, Uncertain

(* The points stay from where the series has been read.                    *)
LEMMA PointsStay ==
  ASSUME Next, points' = points
  PROVE  /\ Valid' = Valid /\ Scenarios' = Scenarios /\ Declared' = Declared
         /\ Violations' = Violations /\ (HasSeries' <=> HasSeries)
<1>1. task' = task
  BY Flow
<1>2. Valid' = Valid
  BY DEF Valid
<1>3. QED
  BY <1>1, <1>2 DEF Scenarios, Declared, Violations, HasSeries

LEMMA TimeStep ==
  ASSUME IInv, Next PROVE TimeEarned'
<1>1. SUFFICES ASSUME stage' \in AfterTime, Quiet', HasSeries' PROVE TimeGood'
  BY DEF TimeEarned
<1>2. task' = task /\ Quiet /\ TimeEarned
  BY Flow, QuietBefore, <1>1 DEF IInv, Earned
<1>3. points' = points
  BY <1>1, Flow, Order
<1>4. TimeGood
  BY <1>1, <1>2, <1>3, Flow, TimeAdds, PointsStay DEF TimeEarned, Quiet
<1>5. QED
  BY <1>2, <1>3, <1>4, PointsStay DEF TimeGood

LEMMA ScenariosStep ==
  ASSUME IInv, Next PROVE ScenariosEarned'
<1>1. SUFFICES ASSUME stage' \in AfterScenarios, Quiet', HasSeries' PROVE (Scenarios = Declared)'
  BY DEF ScenariosEarned
<1>2. Quiet /\ ScenariosEarned
  BY QuietBefore, <1>1 DEF IInv, Earned
<1>3. points' = points
  BY <1>1, Flow, Order
<1>4. Scenarios = Declared
  BY <1>1, <1>2, <1>3, Flow, ScenariosAdd, PointsStay DEF ScenariosEarned, Quiet
<1>5. QED
  BY <1>3, <1>4, PointsStay

LEMMA SplitStep ==
  ASSUME IInv, Next PROVE SplitEarned'
<1>1. SUFFICES ASSUME stage' \in AfterSplit, Quiet' PROVE SplitGood'
  BY DEF SplitEarned
<1>2. task' = task /\ Quiet /\ SplitEarned
  BY Flow, QuietBefore, <1>1 DEF IInv, Earned
<1>3. SplitGood
  BY <1>1, <1>2, Flow, SplitAdds DEF SplitEarned, Quiet
<1>4. Overlap' <=> Overlap
  BY <1>2 DEF Overlap, Gone
<1>5. QED
  BY <1>2, <1>3, <1>4 DEF SplitGood

LEMMA PointsStep ==
  ASSUME IInv, Next PROVE PointsEarned'
<1>1. TypeOK /\ PointsEarned /\ task' = task
  BY Flow DEF IInv, Earned
<1>2. results \in Seq({"invalid", "missing", "pass", "fail"})
  BY <1>1 DEF TypeOK
<1>3. CASE EvaluatePoint
  <2> DEFINE p == points[Len(results) + 1]
  <2>1. /\ points' = points /\ scanned' = scanned
        /\ results' = Append(results, Outcome(p))
        /\ Quiet' => Outcome(p) \in {"pass", "fail"}
        /\ Outcome(p) \in {"invalid", "missing", "pass", "fail"}
    BY <1>3, PointAdds DEF EvaluatePoint, Quiet
  <2>2. /\ DOMAIN results' = 1 .. Len(results) + 1
        /\ \A k \in 1 .. Len(results) : results'[k] = results[k]
        /\ results'[Len(results) + 1] = Outcome(p)
        /\ DOMAIN results = 1 .. Len(results) /\ Len(results) \in Nat
    BY <1>2, <2>1, AppendProperties, LenProperties
  <2>3. \A k \in DOMAIN results' : k \in DOMAIN results \/ k = Len(results) + 1
    BY <2>2
  <2>4. \A k \in DOMAIN results' : results'[k] = Outcome(points'[k])
    BY <1>1, <2>1, <2>2, <2>3 DEF PointsEarned
  <2>5. Quiet' => \A k \in DOMAIN results' : results'[k] \in {"pass", "fail"}
    BY <1>1, <2>1, <2>2, <2>3, QuietBefore DEF PointsEarned
  <2>6. scanned' = 0 /\ stage' \in AfterSplit /\ stage' \notin AfterPoints
    BY <1>1, <1>3, <2>1, Order DEF PointsEarned
  <2>7. QED
    BY <2>4, <2>5, <2>6 DEF PointsEarned
<1>4. CASE ReadSeriesFile \/ ReadContractSeries
  <2>1. results = <<>> /\ scanned = 0
    BY <1>1, <1>4, Order DEF PointsEarned
  <2>2. results' = <<>> /\ scanned' = 0 /\ stage' \notin AfterPoints
    BY <1>4, <2>1, Order DEF ReadSeriesFile, ReadContractSeries
  <2>3. DOMAIN results' = {}
    BY <2>2
  <2>4. QED
    BY <2>2, <2>3 DEF PointsEarned
<1>5. CASE ~(EvaluatePoint \/ ReadSeriesFile \/ ReadContractSeries)
  <2>1. results' = results /\ points' = points
    BY <1>5, Flow
  <2>2. \A k \in DOMAIN results' : results'[k] = Outcome(points'[k])
    BY <1>1, <2>1 DEF PointsEarned
  <2>3. Quiet' => \A k \in DOMAIN results' : results'[k] \in {"pass", "fail"}
    BY <1>1, <2>1, QuietBefore DEF PointsEarned
  <2>4. stage' \notin AfterSplit => results' = <<>>
    BY <1>1, <2>1, Onward DEF PointsEarned
  <2>5. stage' \notin AfterPoints => scanned' = 0
    BY <1>1, Flow, Onward, Order DEF PointsEarned
  <2>6. stage' \in AfterPoints /\ HasSeries' /\ task'.auditRead => Len(results') = Len(points')
    <3>1. SkipPoints => ~(HasSeries /\ task.auditRead)
      BY DEF SkipPoints
    <3>2. EndPoints => Len(results) = Len(points)
      BY DEF EndPoints
    <3>3. QED
      BY <1>1, <2>1, <3>1, <3>2, Flow, PointsStay DEF PointsEarned
  <2>7. QED
    BY <2>2, <2>3, <2>4, <2>5, <2>6 DEF PointsEarned
<1>6. QED
  BY <1>3, <1>4, <1>5

LEMMA ResidualsStep ==
  ASSUME IInv, Next PROVE ResidualsEarned'
<1>1. SUFFICES ASSUME stage' \in AfterResiduals, HasSeries', task'.auditRead
               PROVE  scanned' = Len(results') /\ (Quiet' => ResultsGood' /\ auditPass')
  BY DEF ResidualsEarned
<1>2. /\ TypeOK /\ PointsEarned /\ ResidualsEarned /\ EnvelopesEarned /\ Runs
      /\ task' = task /\ points' = points
  BY <1>1, Flow, Order DEF IInv, Earned
<1>3. HasSeries /\ task.auditRead /\ (Quiet' => Quiet)
  BY <1>1, <1>2, PointsStay, QuietBefore
<1>4. CASE EndResiduals
  <2>1. scanned' = scanned /\ results' = results /\ scanned = Len(results)
    BY <1>4 DEF EndResiduals
  <2>2. ASSUME Quiet' PROVE ResultsGood' /\ auditPass'
    <3>1. DOMAIN intervals = {}
      BY <1>4, <2>2, ResidualsAdd DEF Quiet
    <3>2. \A l \in 1 .. scanned : results[l] # "fail"
      BY <1>2, <3>1 DEF Runs
    <3>3. DOMAIN results = 1 .. scanned
      BY <1>2, <2>1, LenProperties DEF TypeOK
    <3>4. \A k \in DOMAIN results : results[k] = "pass"
      BY <1>2, <1>3, <2>2, <3>2, <3>3 DEF PointsEarned
    <3>5. Range(results) \subseteq {"pass"}
      BY <3>4 DEF Range
    <3>6. auditPass'
      BY <1>4, <3>5 DEF EndResiduals
    <3>7. QED
      BY <2>1, <3>4, <3>6 DEF ResultsGood
  <2>3. QED
    BY <2>1, <2>2
<1>5. CASE ~EndResiduals
  <2>1. stage \in AfterResiduals
    BY <1>1, <1>3, <1>5, Flow DEF SkipPoints
  <2>2. scanned' = scanned /\ results' = results
    <3>1. stage # "points" /\ stage # "intervals"
      BY <2>1 DEF AfterResiduals, AfterPoints
    <3>2. QED
      BY <3>1, Flow, Order
  <2>3. scanned = Len(results) /\ (Quiet => ResultsGood /\ auditPass)
    BY <1>2, <1>3, <2>1 DEF ResidualsEarned
  <2>4. ASSUME Quiet' PROVE auditPass'
    <3>1. auditPass
      BY <1>3, <2>3, <2>4
    <3>2. CASE Conclude
      <4>1. ~Withdrawn
        BY <1>2, <1>3, <2>4, <3>2, Order DEF EnvelopesEarned, Withdrawn, Quiet
      <4>2. QED
        BY <3>1, <3>2, <4>1 DEF Conclude
    <3>3. CASE ~Conclude
      BY <1>2, <1>5, <3>1, <3>3, VerdictFlow
    <3>4. QED
      BY <3>2, <3>3
  <2>5. QED
    BY <1>3, <2>2, <2>3, <2>4 DEF ResultsGood
<1>6. QED
  BY <1>4, <1>5

LEMMA EnvelopesStep ==
  ASSUME IInv, Next PROVE EnvelopesEarned'
<1>1. SUFFICES ASSUME stage' \in AfterEnvelopes
               PROVE  /\ section'["envelopes"] = "blocked" <=> "error" \in Violations'
                      /\ \A s \in Violations' :
                           \E f \in AllOf(findings') : ~OfInput(f) /\ f.severity = s
  BY DEF EnvelopesEarned, OfInput
<1>2. TypeOK /\ EnvelopesEarned /\ points' = points
  BY <1>1, Flow, Order DEF IInv, Earned
<1>3. Violations' = Violations
  BY <1>2, PointsStay
<1>4. CASE CheckEnvelopes
  <2>1. ~HasSeries => Violations = {}
    BY <1>2, PointTypes DEF Violations, Valid
  <2>2. section'["envelopes"] = "blocked" <=> "error" \in Violations
    <3>1. "envelopes" \in Sections /\ section \in [Sections -> Statuses]
      BY <1>2 DEF Sections, TypeOK, Statuses
    <3>2. CASE HasSeries
      <4>1. section' = [section EXCEPT !["envelopes"] =
                          IF "error" \in Violations THEN "blocked"
                          ELSE IF Violations # {} THEN "partial" ELSE "pass"]
        BY <1>4, <3>2 DEF CheckEnvelopes, Close
      <4>2. QED
        BY <3>1, <4>1
    <3>3. CASE ~HasSeries
      <4>1. section' = [section EXCEPT !["envelopes"] = "not_run"]
        BY <1>4, <3>3 DEF CheckEnvelopes, Close
      <4>2. QED
        BY <2>1, <3>1, <3>3, <4>1
    <3>4. QED
      BY <3>2, <3>3
  <2>3. QED
    BY <1>3, <1>4, <2>2, EnvelopesAdd
<1>5. CASE ~CheckEnvelopes
  <2>1. stage \in AfterEnvelopes
    BY <1>1, <1>5, Flow
  <2>2. section'["envelopes"] = section["envelopes"]
    BY <1>2, <1>5, SectionFlow
  <2>3. \A f \in AllOf(findings) : ~OfInput(f) => f \in AllOf(findings')
    BY StepGrew DEF Grew
  <2>4. QED
    BY <1>2, <1>3, <2>1, <2>2, <2>3 DEF EnvelopesEarned
<1>6. QED
  BY <1>4, <1>5

LEMMA AdequacyStep ==
  ASSUME IInv, Next PROVE AdequacyEarned'
<1>1. SUFFICES ASSUME stage' \in AfterAdequacy, Quiet', InputsAtHand' PROVE AdequacyGood'
  BY DEF AdequacyEarned
<1>2. /\ TypeOK /\ Given /\ DatasetEarned /\ SeriesEarned /\ AdequacyEarned
      /\ task' = task /\ Quiet
  BY <1>1, Flow, QuietBefore DEF IInv, Earned
<1>3. InputsAtHand
  BY <1>1, <1>2 DEF InputsAtHand, Reported
<1>4. CASE CheckAdequacy
  <2>1. CASE section' = [section EXCEPT !["adequacy"] = "not_applicable"]
    <3>1. section'["adequacy"] = "not_applicable"
      BY <1>2, <2>1 DEF TypeOK, Sections
    <3>2. QED
      BY <3>1 DEF AdequacyGood
  <2>2. CASE AllOf(findings') = AllOf(findings) \cup AllOf(AdequacyFindings)
    <3>1. AllOf(AdequacyFindings) = {}
      BY <1>1, <2>2 DEF Quiet
    <3>2. HasSeries /\ DatasetGood
      BY <1>2, <1>3, <1>4, Order DEF DatasetEarned, SeriesEarned
    <3>3. ~Gone(SchemaFile) /\ ~Gone(RolesFile)
      BY <1>2, <3>2, Files DEF DatasetGood, Gone
    <3>4. AdequacyInputs
      BY <1>2, <1>3, <3>1, <3>2, <3>3, AdequacyList DEF AdequacyInputs, InputsAtHand, DatasetGood
    <3>5. QED
      BY <1>2, <3>1, <3>4, AdequacyList DEF AdequacyGood
  <2>3. QED
    BY <1>4, <2>1, <2>2, AdequacyAdds
<1>5. CASE ~CheckAdequacy
  <2>1. AdequacyGood
    BY <1>1, <1>2, <1>3, <1>5, Flow DEF AdequacyEarned
  <2>2. QED
    BY <1>2, <1>5, <2>1, SectionFlow DEF AdequacyGood
<1>6. QED
  BY <1>4, <1>5

LEMMA VerdictStep ==
  ASSUME IInv, Next PROVE VerdictEarned'
<1>1. SUFFICES ASSUME stage' = "done", auditPass' PROVE section'["envelopes"] # "blocked"
  BY DEF VerdictEarned, Done
<1>2. Conclude /\ ~CheckEnvelopes /\ TypeOK
  BY <1>1, Flow, Order DEF IInv
<1>3. section["envelopes"] # "blocked"
  BY <1>1, <1>2 DEF Conclude, Withdrawn
<1>4. QED
  BY <1>2, <1>3, SectionFlow

LEMMA GoneStep ==
  ASSUME IInv, Next PROVE GoneFound'
<1>1. TypeOK /\ Given /\ GoneFound /\ task' = task
  BY Flow DEF IInv
<1>2. \A about : InputFound(about) => \E f \in AllOf(findings') : OfInput(f) /\ f.about = about
  BY StepGrew DEF InputFound, Grew
<1>3. ASSUME stage' \in AfterDataset, NEW path \in Range(task.files) \cap task.gone
      PROVE  \E f \in AllOf(findings') : OfInput(f) /\ f.about = path
  <2>1. CASE CheckDataset
    BY <1>1, <1>3, <2>1, DatasetList, DatasetAdds
  <2>2. CASE ~CheckDataset
    BY <1>1, <1>2, <1>3, <2>2, Flow DEF GoneFound
  <2>3. QED
    BY <2>1, <2>2
<1>4. ASSUME stage' \in AfterSeries, task.seriesFile \in task.gone
      PROVE  \E f \in AllOf(findings') : OfInput(f) /\ f.about = task.seriesFile
  <2>1. CASE ReadSeriesFile
    BY <1>4, <2>1, SeriesFileAdds DEF Gone
  <2>2. ~ReadContractSeries
    BY <1>1, <1>4, TaskAssumption DEF ReadContractSeries, Given
  <2>3. CASE ~ReadSeriesFile
    BY <1>1, <1>2, <1>4, <2>2, <2>3, Flow DEF GoneFound
  <2>4. QED
    BY <2>1, <2>3
<1>5. QED
  BY <1>1, <1>3, <1>4 DEF GoneFound, InputFound, OfInput

(* Without points looked at there is no interval.                          *)
LEMMA NoRuns ==
  ASSUME Runs, scanned = 0 PROVE DOMAIN intervals = {}
BY DEF Runs

LEMMA ExtendedRuns ==
  ASSUME IInv, ExtendInterval PROVE Runs'
<1> DEFINE k == scanned + 1
           n == Len(intervals)
           new == [first |-> k, last |-> k, block |-> points[k].block,
                   scenario |-> points[k].scenario]
           Same(l, v) == points[l].block = v.block /\ points[l].scenario = v.scenario
           Fine(v, m) ==
             /\ v.first \in 1 .. v.last /\ v.last \in 1 .. m
             /\ \A l \in v.first .. v.last : results[l] = "fail" /\ Same(l, v)
             /\ v.last + 1 <= m /\ results[v.last + 1] = "fail" => ~Same(v.last + 1, v)
<1>1. scanned \in Nat /\ n \in Nat /\ DOMAIN intervals = 1 .. n /\ intervals \in Seq(Interval)
  <2>1. intervals \in Seq(Interval)
    BY DEF IInv, TypeOK, Interval
  <2>2. n \in Nat /\ DOMAIN intervals = 1 .. n
    BY <2>1, LenProperties
  <2>3. results \in Seq({"invalid", "missing", "pass", "fail"}) /\ scanned \in 0 .. Len(results)
    BY DEF IInv, TypeOK
  <2>4. QED
    BY <2>1, <2>2, <2>3, LenProperties
<1>2. scanned \in Nat /\ n \in Nat
  BY <1>1
<1>3. /\ \A i \in 1 .. n : Fine(intervals[i], scanned)
      /\ \A i, j \in 1 .. n : i < j => intervals[i].last < intervals[j].last
      /\ \A l \in 1 .. scanned : results[l] = "fail" =>
           \E i \in 1 .. n : l \in intervals[i].first .. intervals[i].last
  <2>1. Runs
    BY DEF IInv
  <2>2. QED
    BY <1>1, <2>1 DEF Runs
<1>4. /\ results' = results /\ points' = points /\ scanned' = k
      /\ intervals' = IF results[k] # "fail" THEN intervals
                      ELSE IF Continues(k) THEN [intervals EXCEPT ![n].last = k]
                      ELSE Append(intervals, new)
  BY DEF ExtendInterval
<1>5. results' = results /\ points' = points /\ scanned' = k
  BY <1>4
<1>6. SUFFICES
        /\ \A i \in DOMAIN intervals' : Fine(intervals'[i], k)
        /\ \A i, j \in DOMAIN intervals' : i < j => intervals'[i].last < intervals'[j].last
        /\ \A l \in 1 .. k : results[l] = "fail" =>
             \E i \in DOMAIN intervals' : l \in intervals'[i].first .. intervals'[i].last
  <2> HIDE DEF k
  <2>1. QED
    BY <1>5 DEF Runs
<1>7. CASE results[k] # "fail"
  <2>1. \A i \in 1 .. n : Fine(intervals[i], k)
    BY <1>1, <1>3, <1>7
  <2>2. \A l \in 1 .. k : l \in 1 .. scanned \/ l = k
    BY <1>1
  <2> HIDE DEF Fine, k
  <2>3. intervals' = intervals
    BY <1>4, <1>7
  <2>4. QED
    BY <1>1, <1>3, <1>7, <2>1, <2>2, <2>3
<1>8. CASE results[k] = "fail" /\ Continues(k)
  <2>1. /\ n \in 1 .. n /\ intervals # <<>> /\ intervals[n].last = scanned
        /\ Same(k, intervals[n]) /\ intervals' = [intervals EXCEPT ![n].last = k]
    <3>1. n # 0
      BY <1>1, <1>8, EmptySeq DEF Continues, SameFault
    <3>2. k - 1 = scanned
      BY <1>1
    <3>3. QED
      BY <1>1, <1>4, <1>8, <3>1, <3>2 DEF Continues, SameFault, Last
  <2>2. /\ DOMAIN intervals' = 1 .. n
        /\ \A i \in 1 .. n : i # n => intervals'[i] = intervals[i]
    BY <1>1, <2>1
  <2>3. /\ intervals'[n].last = k /\ intervals'[n].first = intervals[n].first
        /\ intervals'[n].block = intervals[n].block
        /\ intervals'[n].scenario = intervals[n].scenario
    <3>1. intervals[n] \in Interval
      BY <1>1, <2>1
    <3>2. intervals'[n] = [intervals[n] EXCEPT !.last = k]
      BY <1>1, <2>1
    <3>3. QED
      BY <3>1, <3>2 DEF Interval
  <2>4. Fine(intervals[n], scanned)
    BY <1>3, <2>1
  <2>5. Fine(intervals'[n], k)
    <3>1. intervals[n].first \in 1 .. k
      BY <1>1, <2>4, <2>1
    <3>2. \A l \in intervals[n].first .. k : results[l] = "fail" /\ Same(l, intervals[n])
      <4>1. \A l \in intervals[n].first .. k : l \in intervals[n].first .. intervals[n].last \/ l = k
        BY <1>1, <2>1, <2>4
      <4>2. QED
        BY <1>8, <2>1, <2>4, <4>1
    <3>3. ~(k + 1 <= k) /\ k \in 1 .. k
      BY <1>1
    <3>4. QED
      BY <2>3, <3>1, <3>2, <3>3
  <2>6. ASSUME NEW i \in 1 .. n, i # n PROVE Fine(intervals[i], k) /\ intervals[i].last < k
    <3>1. i < n
      BY <1>2, <2>6
    <3>2. intervals[i].last < scanned /\ Fine(intervals[i], scanned)
      BY <1>3, <2>1, <3>1
    <3>3. QED
      BY <1>1, <3>2
  <2>7. \A i \in 1 .. n : Fine(intervals'[i], k)
    BY <2>2, <2>5, <2>6
  <2>8. ASSUME NEW i \in 1 .. n, NEW j \in 1 .. n, i < j
        PROVE  intervals'[i].last < intervals'[j].last
    <3>1. i # n
      BY <1>2, <2>8
    <3>2. QED
      BY <1>3, <2>2, <2>3, <2>6, <2>8, <3>1
  <2>9. ASSUME NEW l \in 1 .. k, results[l] = "fail"
        PROVE  \E i \in 1 .. n : l \in intervals'[i].first .. intervals'[i].last
    <3>1. CASE l = k
      BY <1>1, <2>1, <2>3, <2>4, <3>1
    <3>2. CASE l # k
      <4>1. PICK i \in 1 .. n : l \in intervals[i].first .. intervals[i].last
        BY <1>1, <1>3, <2>9, <3>2
      <4>2. i = n => l \in intervals'[n].first .. intervals'[n].last
        BY <1>1, <2>1, <2>3, <2>4, <4>1
      <4>3. QED
        BY <2>2, <4>1, <4>2
    <3>3. QED
      BY <3>1, <3>2
  <2>10. QED
    BY <2>2, <2>7, <2>8, <2>9
<1>9. CASE results[k] = "fail" /\ ~Continues(k)
  <2>1. /\ intervals' = Append(intervals, new) /\ new \in Interval
        /\ new.first = k /\ new.last = k
        /\ new.block = points[k].block /\ new.scenario = points[k].scenario
    <3>1. k \in DOMAIN points
      <4>1. scanned < Len(results) /\ Len(results) <= Len(points)
        BY DEF ExtendInterval, IInv, TypeOK
      <4>2. results \in Seq({"invalid", "missing", "pass", "fail"})
        BY DEF IInv, TypeOK
      <4>3. Len(results) \in Nat
        BY <4>2, LenProperties
      <4>4. QED
        BY <1>1, <4>1, <4>3, PointTypes DEF IInv
    <3>2. points[k] \in Point
      BY <3>1, PointTypes DEF IInv
    <3>3. new \in Interval
      BY <1>1, <3>2 DEF Point, Interval
    <3>4. QED
      BY <1>4, <1>9, <3>3
  <2> HIDE DEF new
  <2>2. /\ DOMAIN intervals' = 1 .. n + 1 /\ intervals'[n + 1] = new
        /\ \A i \in 1 .. n : intervals'[i] = intervals[i]
    BY <1>1, <2>1, AppendProperties
  <2>3. ASSUME NEW i \in 1 .. n PROVE Fine(intervals[i], k) /\ intervals[i].last < k
    <3>1. Fine(intervals[i], scanned)
      BY <1>3
    <3>2. intervals[i].last = scanned => i = n
      <4>1. i < n => intervals[i].last < intervals[n].last
        BY <1>1, <1>3
      <4>2. n \in 1 .. n /\ intervals[n].last <= scanned
        BY <1>1, <1>3
      <4>3. Fine(intervals[n], scanned)
        BY <1>3, <4>2
      <4>4. intervals[n].last \in Nat /\ intervals[i].last \in Nat
        BY <1>2, <3>1, <4>3
      <4>5. i < n => intervals[i].last # scanned
        BY <1>2, <4>1, <4>2, <4>4
      <4>6. i < n \/ i = n
        BY <1>2
      <4>7. QED
        BY <4>5, <4>6
    <3>3. intervals[i].last = scanned => ~Same(k, intervals[i])
      <4>1. intervals # <<>> /\ k - 1 = scanned
        BY <1>1
      <4>2. QED
        BY <1>9, <3>2, <4>1 DEF Continues, SameFault, Last
    <3>4. intervals[i].last + 1 <= k /\ results[intervals[i].last + 1] = "fail" =>
            ~Same(intervals[i].last + 1, intervals[i])
      <4>1. CASE intervals[i].last = scanned
        BY <3>3, <4>1
      <4>2. CASE intervals[i].last # scanned
        BY <1>1, <3>1, <4>2
      <4>3. QED
        BY <4>1, <4>2
    <3>5. intervals[i].last \in 1 .. k /\ intervals[i].last < k
      BY <1>1, <3>1
    <3>6. QED
      BY <3>1, <3>4, <3>5
  <2>4. Fine(new, k)
    <3>1. \A l \in k .. k : l = k
      BY <1>1
    <3>2. k \in 1 .. k /\ ~(k + 1 <= k)
      BY <1>1
    <3>3. QED
      BY <1>9, <2>1, <3>1, <3>2
  <2>5. \A i \in 1 .. n + 1 : i \in 1 .. n \/ i = n + 1
    BY <1>1
  <2>6. \A l \in 1 .. k : l \in 1 .. scanned \/ l = k
    BY <1>1
  <2>7. k \in k .. k /\ n + 1 \in 1 .. n + 1 /\ (\A i \in 1 .. n : i \in 1 .. n + 1 /\ ~(n + 1 < i))
    BY <1>1
  <2> HIDE DEF Fine, k, n
  <2>8. \A i \in DOMAIN intervals' : Fine(intervals'[i], k)
    BY <2>2, <2>3, <2>4, <2>5
  <2>9. ASSUME NEW i \in DOMAIN intervals', NEW j \in DOMAIN intervals', i < j
        PROVE  intervals'[i].last < intervals'[j].last
    <3>1. i \in 1 .. n
      BY <1>1, <2>2, <2>5, <2>7, <2>9
    <3>2. QED
      BY <1>3, <2>1, <2>2, <2>3, <2>5, <2>9, <3>1
  <2>10. ASSUME NEW l \in 1 .. k, results[l] = "fail"
         PROVE  \E i \in DOMAIN intervals' : l \in intervals'[i].first .. intervals'[i].last
    <3>1. CASE l = k
      BY <2>1, <2>2, <2>7, <3>1
    <3>2. CASE l # k
      BY <1>3, <2>2, <2>6, <2>7, <2>10, <3>2
    <3>3. QED
      BY <3>1, <3>2
  <2>11. QED
    BY <2>8, <2>9, <2>10
<1>10. QED
  BY <1>7, <1>8, <1>9

LEMMA RunsStep ==
  ASSUME IInv, Next PROVE Runs'
<1>1. Runs /\ PointsEarned
  BY DEF IInv, Earned
<1>2. CASE ExtendInterval
  BY <1>2, ExtendedRuns
<1>3. CASE EvaluatePoint \/ ReadSeriesFile \/ ReadContractSeries
  <2>1. scanned = 0
    BY <1>1, <1>3, Order DEF PointsEarned
  <2>2. intervals' = intervals /\ scanned' = 0
    BY <1>3, <2>1 DEF EvaluatePoint, ReadSeriesFile, ReadContractSeries
  <2>3. DOMAIN intervals = {}
    BY <1>1, <2>1, NoRuns
  <2>4. DOMAIN intervals' = {} /\ 1 .. scanned' = {}
    BY <2>2, <2>3
  <2>5. QED
    BY <2>4 DEF Runs
<1>4. CASE ~(ExtendInterval \/ EvaluatePoint \/ ReadSeriesFile \/ ReadContractSeries)
  <2>1. points' = points /\ results' = results /\ intervals' = intervals /\ scanned' = scanned
    BY <1>4, Flow
  <2>2. QED
    BY <1>1, <2>1 DEF Runs
<1>5. QED
  BY <1>2, <1>3, <1>4

-----------------------------------------------------------------------------
(* The invariant holds from the start on.                                  *)
LEMMA InitInv == Init => IInv
<1> SUFFICES ASSUME Init PROVE IInv
  OBVIOUS
<1>1. /\ task \in Task /\ task \in Plan /\ stage = "dataset" /\ findings = <<>>
      /\ points = <<>> /\ results = <<>> /\ intervals = <<>> /\ scanned = 0
  BY TaskAssumption DEF Init
<1>2. TypeOK
  <2>1. /\ <<>> \in Seq(SUBSET Findings) /\ <<>> \in Seq(Point) /\ <<>> \in Seq(Interval)
        /\ <<>> \in Seq({"invalid", "missing", "pass", "fail"}) /\ Len(<<>>) = 0
    BY EmptySeq
  <2>2. section \in [Sections -> Statuses]
    BY DEF Init, Statuses
  <2>3. Len(results) <= Len(points) /\ scanned \in 0 .. Len(results)
    BY <1>1, <2>1
  <2>4. /\ findings \in Seq(SUBSET Findings) /\ points \in Seq(Point)
        /\ results \in Seq({"invalid", "missing", "pass", "fail"}) /\ intervals \in Seq(Interval)
    BY <1>1, <2>1
  <2>5. stage \in Stages /\ auditPass \in BOOLEAN
    BY DEF Init, Stages
  <2>6. QED
    BY <1>1, <2>2, <2>3, <2>4, <2>5 DEF TypeOK, Statuses, Interval
<1>3. /\ stage \notin AfterDataset /\ stage \notin AfterSeries /\ stage \notin AfterMapping
      /\ stage \notin AfterTime /\ stage \notin AfterScenarios /\ stage \notin AfterSplit
      /\ stage \notin AfterPoints /\ stage \notin AfterResiduals /\ stage \notin AfterEnvelopes
      /\ stage \notin AfterAdequacy /\ ~Done
  BY <1>1 DEF AfterDataset, AfterSeries, AfterMapping, AfterTime, AfterScenarios, AfterSplit,
              AfterPoints, AfterResiduals, AfterEnvelopes, AfterAdequacy, Done
<1>4. DOMAIN results = {} /\ DOMAIN intervals = {} /\ 1 .. scanned = {}
  <2>1. DOMAIN results = {}
    BY <1>1
  <2>2. DOMAIN intervals = {}
    BY <1>1
  <2>3. 1 .. scanned = {}
    BY <1>1
  <2>4. QED
    BY <2>1, <2>2, <2>3
<1>5. Earned
  BY <1>1, <1>3, <1>4
     DEF Earned, DatasetEarned, SeriesEarned, MappingEarned, TimeEarned, ScenariosEarned,
         SplitEarned, PointsEarned, ResidualsEarned, EnvelopesEarned, AdequacyEarned, VerdictEarned
<1>6. Single(findings)
  BY <1>1, EmptyList
<1>7. GoneFound /\ Runs /\ OnceAtEnd
  BY <1>3, <1>4 DEF GoneFound, Runs, OnceAtEnd
<1>8. QED
  BY <1>1, <1>2, <1>5, <1>6, <1>7 DEF IInv, Given

LEMMA Unchanged ==
  ASSUME IInv, UNCHANGED vars PROVE Earned' /\ Single(findings)' /\ GoneFound' /\ Runs' /\ OnceAtEnd'
<1>1. /\ task' = task /\ stage' = stage /\ findings' = findings /\ section' = section
      /\ points' = points /\ results' = results /\ scanned' = scanned
      /\ intervals' = intervals /\ auditPass' = auditPass
  BY DEF vars
<1>2. (Quiet' <=> Quiet) /\ (InputsAtHand' <=> InputsAtHand) /\ (HasSeries' <=> HasSeries)
  BY <1>1 DEF Quiet, InputsAtHand, HasSeries, Reported
<1>3. Valid' = Valid /\ Scenarios' = Scenarios /\ Declared' = Declared /\ Violations' = Violations
  BY <1>1 DEF Valid, Scenarios, Declared, Violations
<1>4. MappingGood' <=> MappingGood
  <2>1. Edges' = Edges
    BY <1>1 DEF Edges
  <2>2. \A role : Candidates(role)' = Candidates(role)
    BY <2>1 DEF Candidates
  <2>3. QED
    BY <1>1, <2>1, <2>2 DEF MappingGood, Uncertain
<1>5. (DatasetGood' <=> DatasetGood) /\ (AdequacyGood' <=> AdequacyGood) /\ (TimeGood' <=> TimeGood)
  BY <1>1, <1>3 DEF DatasetGood, AdequacyGood, TimeGood
<1>6. SplitGood' <=> SplitGood
  <2>1. Overlap' <=> Overlap
    BY <1>1 DEF Overlap, Gone
  <2>2. QED
    BY <1>1, <2>1 DEF SplitGood
<1>7. DatasetEarned' /\ SeriesEarned' /\ MappingEarned' /\ TimeEarned'
  BY <1>1, <1>2, <1>4, <1>5
     DEF IInv, Earned, DatasetEarned, SeriesEarned, MappingEarned, TimeEarned
<1>8. ScenariosEarned' /\ SplitEarned'
  BY <1>1, <1>2, <1>3, <1>6 DEF IInv, Earned, ScenariosEarned, SplitEarned
<1>9. PointsEarned' /\ ResidualsEarned'
  BY <1>1, <1>2 DEF IInv, Earned, PointsEarned, ResidualsEarned, ResultsGood
<1>10. EnvelopesEarned' /\ AdequacyEarned' /\ VerdictEarned'
  BY <1>1, <1>2, <1>3, <1>5
     DEF IInv, Earned, EnvelopesEarned, AdequacyEarned, VerdictEarned, Done, OfInput
<1>11. Single(findings)' /\ GoneFound' /\ OnceAtEnd'
  BY <1>1 DEF IInv, Single, GoneFound, InputFound, OnceAtEnd, Once, Done, OfInput
<1>12. Runs'
  BY <1>1 DEF IInv, Runs
<1>13. QED
  BY <1>7, <1>8, <1>9, <1>10, <1>11, <1>12 DEF Earned

LEMMA NextInv == IInv /\ [Next]_vars => IInv'
<1> SUFFICES ASSUME IInv, [Next]_vars PROVE IInv'
  OBVIOUS
<1>1. TypeOK' /\ Given'
  BY TypeStep
<1>2. Single(findings')
  BY StepGrew DEF Grew
<1>3. CASE Next
  <2>1. Earned'
    BY <1>3, DatasetStep, SeriesStep, MappingStep, TimeStep, ScenariosStep, SplitStep, PointsStep,
       ResidualsStep, EnvelopesStep, AdequacyStep, VerdictStep DEF Earned
  <2>2. GoneFound' /\ Runs'
    BY <1>3, GoneStep, RunsStep
  <2>3. OnceAtEnd'
    <3>1. stage' = "done" => Once(findings')
      BY <1>3, Flow, ConcludingKeeps DEF Once
    <3>2. QED
      BY <3>1 DEF OnceAtEnd, Done, Once, OfInput
  <2>4. QED
    BY <1>1, <1>2, <2>1, <2>2, <2>3 DEF IInv, Single, OfInput
<1>4. CASE UNCHANGED vars
  BY <1>1, <1>2, <1>4, Unchanged DEF IInv
<1>5. QED
  BY <1>3, <1>4

LEMMA Invariance == Spec => []IInv
BY InitInv, NextInv, PTL DEF Spec

-----------------------------------------------------------------------------
(* The state keeps its types: no section gets a status it cannot have, no  *)
(* result is counted that no point has, and every finding is one of those  *)
(* that the code knows (evaluate_validation_depth).                        *)
THEOREM TypeCorrect == Spec => []TypeOK
<1>1. IInv => TypeOK
  BY DEF IInv
<1>2. QED
  BY <1>1, Invariance, PTL

(* The intervals reported for failing residuals are the maximal runs of    *)
(* failures with one worst block and one scenario                          *)
(* (_residual_failure_intervals).                                          *)
THEOREM IntervalsCorrect == Spec => []IntervalsAreRuns
<1>1. ASSUME IInv PROVE IntervalsAreRuns
  <2>1. Runs /\ scanned \in Nat
    <3>1. results \in Seq({"invalid", "missing", "pass", "fail"}) /\ scanned \in 0 .. Len(results)
      BY <1>1 DEF IInv, TypeOK
    <3>2. QED
      BY <1>1, <3>1, LenProperties DEF IInv
  <2>2. ASSUME NEW i \in DOMAIN intervals
        PROVE  /\ intervals[i].first \in 1 .. intervals[i].last
               /\ intervals[i].last \in 1 .. scanned
               /\ \A l \in intervals[i].first .. intervals[i].last :
                    /\ results[l] = "fail"
                    /\ points[l].block = intervals[i].block
                    /\ points[l].scenario = intervals[i].scenario
               /\ intervals[i].last + 1 <= scanned /\ results[intervals[i].last + 1] = "fail" =>
                    ~(/\ points[intervals[i].last + 1].block = intervals[i].block
                      /\ points[intervals[i].last + 1].scenario = intervals[i].scenario)
    BY <2>1 DEF Runs
  <2>3. ASSUME NEW j \in 1 .. scanned
        PROVE  results[j] = "fail" <=>
                 \E i \in DOMAIN intervals : j \in intervals[i].first .. intervals[i].last
    BY <2>1, <2>2 DEF Runs
  <2>4. ASSUME NEW j \in 1 .. scanned, NEW k \in 1 .. scanned, j <= k,
               results[j] = "fail", results[k] = "fail"
        PROVE  (\E i \in DOMAIN intervals : {j, k} \subseteq intervals[i].first .. intervals[i].last)
                 <=> \A l \in j .. k : /\ results[l] = "fail"
                                       /\ points[l].block = points[j].block
                                       /\ points[l].scenario = points[j].scenario
    <3>1. ASSUME NEW i \in DOMAIN intervals,
                 {j, k} \subseteq intervals[i].first .. intervals[i].last, NEW l \in j .. k
          PROVE  /\ results[l] = "fail"
                 /\ points[l].block = points[j].block
                 /\ points[l].scenario = points[j].scenario
      <4>1. /\ l \in intervals[i].first .. intervals[i].last
            /\ j \in intervals[i].first .. intervals[i].last
        BY <2>1, <2>2, <3>1
      <4>2. QED
        BY <2>2, <4>1
    <3>2. ASSUME \A l \in j .. k : /\ results[l] = "fail"
                                   /\ points[l].block = points[j].block
                                   /\ points[l].scenario = points[j].scenario
          PROVE  \E i \in DOMAIN intervals :
                   {j, k} \subseteq intervals[i].first .. intervals[i].last
      <4>1. PICK i \in DOMAIN intervals : j \in intervals[i].first .. intervals[i].last
        BY <2>1, <2>4 DEF Runs
      <4> DEFINE last == intervals[i].last
                 next == last + 1
      <4>2. /\ intervals[i].first \in Nat /\ last \in Nat /\ j \in Nat /\ k \in Nat
            /\ last <= scanned /\ k <= scanned /\ intervals[i].first <= j /\ j <= last
        BY <2>1, <2>2, <4>1
      <4>3. points[j].block = intervals[i].block /\ points[j].scenario = intervals[i].scenario
        BY <2>2, <4>1
      <4>4. k <= last
        <5>1. SUFFICES ASSUME last < k PROVE FALSE
          BY <4>2
        <5>2. next \in j .. k /\ next <= scanned
          BY <2>1, <4>2, <5>1
        <5>3. /\ results[next] = "fail"
              /\ points[next].block = intervals[i].block
              /\ points[next].scenario = intervals[i].scenario
          BY <3>2, <4>3, <5>2
        <5>4. QED
          BY <2>2, <5>2, <5>3
      <4>5. k \in intervals[i].first .. intervals[i].last
        BY <2>4, <4>2, <4>4
      <4>6. QED
        BY <4>1, <4>5
    <3>3. QED
      BY <3>1, <3>2
  <2>5. QED
    BY <2>3, <2>4 DEF IntervalsAreRuns
<1>2. QED
  BY <1>1, Invariance, PTL

(* An input that is missing is reported, and no input is reported twice,   *)
(* however many declarations share it (_unique_input_findings).            *)
THEOREM InputsCorrect == Spec => []InputsReportedOnce
<1>1. ASSUME IInv PROVE InputsReportedOnce
  <2>1. SUFFICES ASSUME Done
                 PROVE  /\ Once(findings)
                        /\ \A path \in (Range(task.files) \cup {task.seriesFile}) \cap task.gone :
                             InputFound(path)
    BY DEF InputsReportedOnce, Once, InputFound, AllOf
  <2>2. stage \in AfterDataset /\ stage \in AfterSeries
    BY <2>1 DEF Done, AfterDataset, AfterSeries, Stages
  <2>3. QED
    BY <1>1, <2>1, <2>2 DEF IInv, OnceAtEnd, GoneFound
<1>2. QED
  BY <1>1, Invariance, PTL

(* No findings at the end: nothing was found on the way.                   *)
LEMMA PassIsQuiet ==
  ASSUME IInv PROVE Status = "pass" <=> Quiet
<1>1. findings \in Lists
  BY DEF IInv, TypeOK, Lists
<1>2. Status = "pass" <=> ~AnyFound(findings)
  BY DEF Status, StatusOf, AnyFound
<1>3. QED
  BY <1>1, <1>2, NothingFound DEF Quiet

LEMMA AtTheEnd ==
  ASSUME Done
  PROVE  /\ stage \in AfterDataset /\ stage \in AfterSeries /\ stage \in AfterMapping
         /\ stage \in AfterTime /\ stage \in AfterScenarios /\ stage \in AfterSplit
         /\ stage \in AfterPoints /\ stage \in AfterResiduals /\ stage \in AfterEnvelopes
         /\ stage \in AfterAdequacy
BY DEF Done, AfterDataset, AfterSeries, AfterMapping, AfterTime, AfterScenarios, AfterSplit,
       AfterPoints, AfterResiduals, AfterEnvelopes, AfterAdequacy, Stages

(* The valid points are finitely many, and so are their scenarios.         *)
LEMMA FewPoints ==
  ASSUME TypeOK
  PROVE  /\ IsFiniteSet(Valid) /\ IsFiniteSet(Scenarios)
         /\ Valid # {} /\ Cardinality(Valid) # 1 => Len(points) > 1
<1>1. Len(points) \in Nat /\ DOMAIN points = 1 .. Len(points) /\ Valid \subseteq DOMAIN points
  BY PointTypes DEF Valid
<1>2. IsFiniteSet(Valid)
  <2>1. IsFiniteSet(1 .. Len(points))
    BY <1>1, FS_Interval
  <2>2. QED
    BY <1>1, <2>1, FS_Subset
<1>3. IsFiniteSet(Scenarios)
  <2> DEFINE f == [k \in Valid |-> points[k].scenario]
  <2>1. f \in Surjection(Valid, Scenarios)
    BY DEF Surjection, Scenarios
  <2>2. QED
    BY <1>2, <2>1, FS_Surjection
<1>4. ASSUME Valid # {}, Cardinality(Valid) # 1 PROVE Len(points) > 1
  <2>1. PICK k : k \in Valid
    BY <1>4
  <2>2. Valid # {k}
    BY <1>4, FS_Singleton
  <2>3. PICK j \in Valid : j # k
    BY <2>1, <2>2
  <2>4. j \in 1 .. Len(points) /\ k \in 1 .. Len(points)
    BY <1>1, <2>1, <2>3
  <2>5. QED
    BY <1>1, <2>3, <2>4
<1>5. QED
  BY <1>2, <1>3, <1>4

LEMMA RangeOfBoth ==
  ASSUME NEW S, NEW a \in Seq(S), NEW b \in Seq(S)
  PROVE  Range(a) \subseteq Range(a \o b) /\ Range(b) \subseteq Range(a \o b)
<1>1. /\ Len(a) \in Nat /\ Len(b) \in Nat
      /\ DOMAIN a = 1 .. Len(a) /\ DOMAIN b = 1 .. Len(b)
      /\ DOMAIN (a \o b) = 1 .. Len(a) + Len(b)
      /\ \A k \in 1 .. Len(a) + Len(b) :
           (a \o b)[k] = IF k <= Len(a) THEN a[k] ELSE b[k - Len(a)]
  BY ConcatProperties, LenProperties
<1>2. \A k \in DOMAIN a : k \in DOMAIN (a \o b) /\ (a \o b)[k] = a[k]
  BY <1>1
<1>3. \A k \in DOMAIN b : Len(a) + k \in DOMAIN (a \o b) /\ (a \o b)[Len(a) + k] = b[k]
  BY <1>1
<1> HIDE <1>1
<1>4. QED
  BY <1>2, <1>3 DEF Range

(* Files that do not overlap and are there share nothing.                  *)
LEMMA Disjoint ==
  ASSUME TypeOK, SplitGood, task.calibrated,
         NEW a \in Range(task.training), NEW b \in Range(task.holdout)
  PROVE  a.path # b.path /\ a.content # b.content /\ a.cases \cap b.cases = {}
<1> DEFINE all == task.training \o task.holdout
<1>1. a \in Range(all) /\ b \in Range(all)
  BY SplitFiles, RangeOfBoth
<1>2. PICK k \in DOMAIN task.training : task.training[k] = a
  BY DEF Range
<1>3. PICK j \in DOMAIN task.holdout : task.holdout[j] = b
  BY DEF Range
<1> HIDE DEF all
<1>4. a.path \in Range(PathsOf(all)) /\ b.path \in Range(PathsOf(all))
  BY <1>1 DEF PathsOf, Range
<1>5. ~Overlap /\ Range(PathsOf(all)) \cap task.gone = {}
  BY DEF SplitGood, all
<1>6. ~Gone(a.path) /\ ~Gone(b.path)
  BY <1>4, <1>5 DEF Gone
<1>7. QED
  BY <1>2, <1>3, <1>5, <1>6 DEF Overlap

(* A pass bounds a claim: with the inputs at hand it means that all that   *)
(* was declared was there and agreed, that every point was evaluated and   *)
(* passed, and that training and holdout share nothing                     *)
(* (evaluate_validation_depth).                                            *)
THEOREM PassCorrect == Spec => []PassIsEarned
<1>1. ASSUME IInv PROVE PassIsEarned
  <2>1. SUFFICES ASSUME Done, Quiet, InputsAtHand
                 PROVE  /\ Range(task.files) \cap task.gone = {} /\ task.bench = "agrees"
                        /\ results = [k \in DOMAIN points |-> "pass"] /\ points # <<>>
                        /\ \A k \in DOMAIN points : points[k].valid /\ points[k].outside = {}
                        /\ Scenarios = Declared
                        /\ task.scope # "snapshot" => Len(points) > 1
                        /\ task.scope = "scenario_set" => Cardinality(Scenarios) > 1
                        /\ MappingGood
                        /\ task.calibrated =>
                             /\ task.training # <<>>
                             /\ \A a \in Range(task.training), b \in Range(task.holdout) :
                                  /\ a.path # b.path /\ a.content # b.content
                                  /\ a.cases \cap b.cases = {}
                        /\ AdequacyGood
    BY <1>1, PassIsQuiet DEF PassIsEarned, MappingGood, AdequacyGood
  <2>2. TypeOK /\ Earned /\ task.auditRead
    BY <1>1, <2>1 DEF IInv, InputsAtHand
  <2>3. DatasetGood /\ HasSeries /\ MappingGood /\ SplitGood /\ AdequacyGood
    BY <2>1, <2>2, AtTheEnd
       DEF Earned, DatasetEarned, SeriesEarned, MappingEarned, SplitEarned, AdequacyEarned
  <2>4. TimeGood /\ Scenarios = Declared
    BY <2>1, <2>2, <2>3, AtTheEnd DEF Earned, TimeEarned, ScenariosEarned
  <2>5. /\ Len(results) = Len(points) /\ ResultsGood
        /\ \A k \in DOMAIN results : results[k] = Outcome(points[k])
    BY <2>1, <2>2, <2>3, AtTheEnd DEF Earned, PointsEarned, ResidualsEarned
  <2>6. /\ DOMAIN results = DOMAIN points /\ results = [k \in DOMAIN results |-> results[k]]
        /\ DOMAIN points = 1 .. Len(points)
    <3>1. results \in Seq({"invalid", "missing", "pass", "fail"})
      BY <2>2 DEF TypeOK
    <3>2. DOMAIN results = 1 .. Len(results) /\ results = [k \in DOMAIN results |-> results[k]]
      BY <3>1, LenProperties
    <3>3. QED
      BY <2>2, <2>5, <3>2, PointTypes
  <2>7. results = [k \in DOMAIN points |-> "pass"]
    BY <2>5, <2>6 DEF ResultsGood
  <2>8. Violations = {}
    BY <2>1, <2>2, AtTheEnd DEF Earned, EnvelopesEarned, Quiet
  <2>9. ASSUME NEW k \in DOMAIN points PROVE points[k].valid /\ points[k].outside = {}
    <3>1. Outcome(points[k]) = "pass"
      BY <2>5, <2>6 DEF ResultsGood
    <3>2. points[k].valid
      BY <3>1 DEF Outcome
    <3>3. points[k].outside \subseteq Violations
      BY <3>2 DEF Violations, Valid
    <3>4. QED
      BY <2>8, <3>2, <3>3
  <2>10. task.scope # "snapshot" => Len(points) > 1
    BY <2>2, <2>4, FewPoints DEF TimeGood
  <2>11. task.scope = "scenario_set" => Cardinality(Scenarios) > 1
    <3>1. Cardinality(Scenarios) \in Nat
      BY <2>2, FewPoints, FS_CardinalityType
    <3>2. QED
      BY <2>4, <3>1 DEF TimeGood
  <2>12. task.calibrated =>
           /\ task.training # <<>>
           /\ \A a \in Range(task.training), b \in Range(task.holdout) :
                a.path # b.path /\ a.content # b.content /\ a.cases \cap b.cases = {}
    BY <2>2, <2>3, Disjoint DEF SplitGood
  <2>13. QED
    BY <2>3, <2>4, <2>7, <2>9, <2>10, <2>11, <2>12 DEF DatasetGood, HasSeries
<1>2. QED
  BY <1>1, Invariance, PTL

-----------------------------------------------------------------------------
(* The result delivered is one that the promise allows.                    *)
Inputs ==
  [audit |-> task.auditRead,
   contracts |-> \A k \in DOMAIN task.contracts : ~Reported(task.contracts[k])]

Delivered == Done => Promise!Promised(Inputs, Result)

LEMMA ResultPromised == IInv => Delivered
<1> SUFFICES ASSUME IInv, Done PROVE Promise!Promised(Inputs, Result)
  BY DEF Delivered
<1> DEFINE severities == UNION {{f.severity : f \in findings[k]} : k \in DOMAIN findings}
           series == IF ~HasSeries \/ ~task.auditRead THEN "none"
                     ELSE IF auditPass THEN "pass" ELSE "fail"
<1>1. Result = [status |-> Status, found |-> severities, envelopes |-> Violations,
                series |-> series]
  BY DEF Result
<1>2. TypeOK /\ Earned
  BY DEF IInv
<1>3. findings \in Lists
  BY <1>2 DEF TypeOK, Lists
<1>4. severities = {f.severity : f \in AllOf(findings)} /\ severities \subseteq Severities
  <2>1. \A k \in DOMAIN findings : findings[k] \in SUBSET Findings
    BY <1>3 DEF Lists
  <2>2. \A f \in Findings : f.severity \in Severities
    BY DEF Findings
  <2>3. severities = {f.severity : f \in AllOf(findings)}
    BY DEF AllOf
  <2>4. \A f \in AllOf(findings) : f \in Findings
    BY <2>1 DEF AllOf
  <2>5. QED
    BY <2>2, <2>3, <2>4
<1>5. Violations \subseteq Severities
  <2>1. \A k \in DOMAIN points : points[k].outside \in SUBSET Severities
    <3>1. \A k \in DOMAIN points : points[k] \in Point
      BY <1>2, PointTypes
    <3>2. QED
      BY <3>1 DEF Point
  <2>2. QED
    BY <2>1 DEF Violations, Valid
<1>6. Status = Promise!StatusOfFound(severities)
  <2>1. (\E k \in DOMAIN findings : \E f \in findings[k] : f.severity = "error")
          <=> "error" \in severities
    BY DEF severities
  <2>2. AnyFound(findings) <=> severities # {}
    <3>1. AnyFound(findings) <=> AllOf(findings) # {}
      BY <1>3, NothingFound
    <3>2. {f.severity : f \in AllOf(findings)} # {} <=> AllOf(findings) # {}
      OBVIOUS
    <3> HIDE DEF severities
    <3>3. QED
      BY <1>4, <3>1, <3>2
  <2> HIDE DEF severities
  <2>3. QED
    BY <2>1, <2>2 DEF Status, StatusOf, Promise!StatusOfFound
<1>7. Status \in {"pass", "partial", "blocked"}
  BY DEF Status, StatusOf
<1>8. Violations \subseteq severities
  <2>1. \A s \in Violations : \E f \in AllOf(findings) : f.severity = s
    BY <1>2, AtTheEnd DEF Earned, EnvelopesEarned
  <2>2. QED
    BY <1>4, <2>1
<1>9. series = "pass" => task.auditRead /\ "error" \notin Violations
  BY <1>2, AtTheEnd DEF Earned, VerdictEarned, EnvelopesEarned
<1>10. Status = "pass" /\ InputsAtHand => series = "pass"
  <2>1. SUFFICES ASSUME Quiet, InputsAtHand PROVE HasSeries /\ task.auditRead /\ auditPass
    BY PassIsQuiet
  <2>2. QED
    BY <1>2, <2>1, AtTheEnd DEF Earned, SeriesEarned, ResidualsEarned, InputsAtHand
<1>11. Promise!Usable(Inputs) <=> InputsAtHand
  BY DEF Promise!Usable, Inputs, InputsAtHand
<1>12. Inputs.audit = task.auditRead
  BY DEF Inputs
<1>13. Severities = Promise!Severities /\ series \in {"none", "pass", "fail"}
  BY DEF Severities, Promise!Severities
<1> HIDE DEF severities, series
<1>14. Result \in Promise!Results
  BY <1>1, <1>4, <1>5, <1>7, <1>13 DEF Promise!Results
<1>15. QED
  BY <1>1, <1>6, <1>8, <1>9, <1>10, <1>11, <1>12, <1>14 DEF Promise!Promised

LEMMA NeverOn == Next => stage # "done"
BY DEF Next, CheckDataset, ReadSeriesFile, ReadContractSeries, RefuseContracts, ReviewMapping,
       CheckTime, CheckScenarios, CheckSplit, SkipPoints, EvaluatePoint, EndPoints,
       ExtendInterval, EndResiduals, CheckEnvelopes, CheckAdequacy, CheckRollout, Conclude

(* The evaluation delivers one result, and one that DepthPromise allows:   *)
(* what DatasetValidation takes from it is what it gives.                  *)
THEOREM PromiseKept == Spec => KeepsPromise
<1>1. Init => Promise!Init
  <2> SUFFICES ASSUME Init PROVE Promise!Init
    OBVIOUS
  <2>1. task \in Plan /\ ~Done
    BY TaskAssumption DEF Init, Done
  <2>2. task.auditRead \in BOOLEAN
    BY <2>1 DEF Plan
  <2>3. (\A k \in DOMAIN task.contracts : ~Reported(task.contracts[k])) \in BOOLEAN
    OBVIOUS
  <2>4. Result = Promise!NoResult
    BY <2>1 DEF Result, NoResult, Promise!NoResult
  <2>5. QED
    BY <2>2, <2>3, <2>4 DEF Promise!Init
<1>2. Delivered' /\ [Next]_vars => [Promise!Deliver]_<<Inputs, Result>>
  <2> SUFFICES ASSUME Delivered', [Next]_vars PROVE [Promise!Deliver]_<<Inputs, Result>>
    OBVIOUS
  <2>1. task' = task
    BY Flow DEF vars
  <2>2. Inputs' = Inputs
    BY <2>1 DEF Inputs, Reported
  <2>3. CASE Conclude
    <3>1. ~Done /\ Done'
      BY <2>3, Order DEF Done
    <3>2. Result = Promise!NoResult
      BY <3>1 DEF Result, NoResult, Promise!NoResult
    <3>3. Promise!Promised(Inputs', Result')
      BY <3>1 DEF Delivered
    <3>4. Result' \in Promise!Results
      BY <3>3 DEF Promise!Promised
    <3>5. QED
      BY <2>2, <3>2, <3>3, <3>4 DEF Promise!Deliver, Inputs
  <2>4. CASE Next /\ ~Conclude
    <3>1. ~Done' /\ ~Done
      BY <2>4, Flow, NeverOn DEF Done
    <3>2. Result' = Result
      BY <3>1 DEF Result, NoResult
    <3>3. QED
      BY <2>2, <3>2
  <2>5. CASE UNCHANGED vars
    <3>1. Result' = Result
      BY <2>5 DEF vars, Result, Done, NoResult, Status, StatusOf, AnyFound, Violations, Valid,
                  HasSeries
    <3>2. QED
      BY <2>2, <3>1
  <2>6. QED
    BY <2>3, <2>4, <2>5
<1>3. QED
  BY <1>1, <1>2, ResultPromised, Invariance, PTL DEF Spec, KeepsPromise, Promise!Spec, Inputs

=============================================================================
