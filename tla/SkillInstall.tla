---------------------------- MODULE SkillInstall ----------------------------
(***************************************************************************)
(* The skill installer (scripts/install_physicsguard_skills.py): remove    *)
(* the installed copy, copy the skill again file by file, remove retired   *)
(* skills, and the comparison behind --check and --dry-run.                *)
(*                                                                         *)
(* A run may die between any two file operations and in the middle of a    *)
(* file; between runs the checkout is updated, the installed copy is used  *)
(* (which leaves caches in it) and edited.                                 *)
(***************************************************************************)
EXTENDS Naturals, Sequences, FiniteSets

CONSTANTS
  Path,             \* the files considered, as sequences of names
  Manifest,         \* the file that makes a directory a skill
  Content,          \* what a file may hold
  Absent, Torn,     \* no file; a file whose copy was cut short
  ConsumerFiles,    \* names at the top that a user's copy gets,
  ConsumerDirs,     \* and top directories it gets
  Cache,            \* the name of cache directories
  Compiled,         \* names of compiled files
  Retired,          \* the names of retired skills
  Edits             \* bound: how often checkout and copy change

ASSUME PathAssumption ==
  /\ Path \subseteq Seq(STRING) /\ Manifest \in Path
  /\ Absent \notin Content /\ Torn \notin Content \cup {Absent}
  /\ Edits \in Nat
  /\ \A f \in Path :
       /\ f # <<>>
       /\ f[1] \in ConsumerFiles => Len(f) = 1            \* no directory is
       /\ \A k \in 1 .. Len(f) - 1 : f[k] \notin Compiled  \* named like a file

VARIABLES
  checkout,     \* the skill in the checkout
  place,      \* what the destination is
  installed,  \* the files at the destination
  retired,    \* the retired skills still installed
  pc,         \* how far the run has come; "idle": none since the last change
  edits       \* (bound) how often

installVars == <<checkout, place, installed, retired, pc, edits>>

Installing == {"remove", "make", "copy", "torn", "retire"}

InstallTypeOK ==
  /\ checkout \in [Path -> Content \cup {Absent}]
  /\ place \in {"missing", "file", "dir", "link"}
  /\ installed \in [Path -> Content \cup {Absent, Torn}]
  /\ place \in {"missing", "file"} => \A f \in Path : installed[f] = Absent
  /\ retired \subseteq Retired
  /\ pc \in Installing \cup {"idle", "done", "failed"}
  /\ edits \in 0 .. Edits

Nothing == [f \in Path |-> Absent]

(* Any skill in the checkout, any copy: of any age, a link to some other   *)
(* copy, or a file of that name.                                           *)
InstallInit ==
  /\ checkout \in [Path -> Content \cup {Absent}]
  /\ place \in {"missing", "file", "dir", "link"}
  /\ installed \in [Path -> Content \cup {Absent}]
  /\ place \in {"missing", "file"} => installed = Nothing
  /\ retired \in SUBSET Retired
  /\ pc = "idle"
  /\ edits = 0

-----------------------------------------------------------------------------
(* What belongs in a copy, as the comparison sees it, and as the copying   *)
(* does, directory by directory.  Mutant: the top level is filtered only   *)
(* for caches.                                                             *)
Names(f) == {f[k] : k \in DOMAIN f}

Skipped(f) ==
  \/ Cache \in Names(f)
  \/ f[Len(f)] \in Compiled
  \/ f[1] \notin ConsumerDirs /\ ~(Len(f) = 1 /\ f[1] \in ConsumerFiles)

CachesIgnored(f) == \E k \in DOMAIN f : f[k] = Cache \/ f[k] \in Compiled

Ignored(f) ==
  \E k \in DOMAIN f :
    f[k] = Cache \/ f[k] \in Compiled \/ (k = 1 /\ f[k] \notin ConsumerFiles \cup ConsumerDirs)

Wanted == {f \in Path : checkout[f] # Absent /\ ~Skipped(f)}
Present == {f \in Path : installed[f] # Absent /\ Cache \notin Names(f)}

(* Mutant of Differences: files are compared by name alone.                *)
DifferencesByName == (Wanted \ Present) \cup (Present \ Wanted)

Differences ==
  (Wanted \ Present) \cup (Present \ Wanted)
    \cup {f \in Wanted \cap Present : checkout[f] # installed[f]}

(* main goes on only if the checkout holds the skill it expects.           *)
SkillFound == checkout[Manifest] # Absent

(* --check exits with 0 and --dry-run says "already current".              *)
Current == SkillFound /\ place \in {"dir", "link"} /\ Differences = {} /\ retired = {}

-----------------------------------------------------------------------------
(* A run of the installer.                                                 *)
BeginInstall ==
  /\ pc \notin Installing
  /\ SkillFound
  /\ pc' = "remove"
  /\ UNCHANGED <<checkout, place, installed, retired, edits>>

(* A link or a file is unlinked; a directory loses file after file, and    *)
(* then itself.                                                            *)
RemoveFile(f) ==
  /\ pc = "remove"
  /\ place = "dir"
  /\ installed[f] # Absent
  /\ installed' = [installed EXCEPT ![f] = Absent]
  /\ UNCHANGED <<checkout, place, retired, pc, edits>>

Removed == place = "dir" => installed = Nothing

FinishRemoval ==
  /\ pc = "remove"
  /\ Removed
  /\ place' = "missing"
  /\ installed' = IF place = "link" THEN Nothing ELSE installed
  /\ pc' = "make"
  /\ UNCHANGED <<checkout, retired, edits>>

MakeDirectory ==
  /\ pc = "make"
  /\ place = "missing"
  /\ place' = "dir"
  /\ pc' = "copy"
  /\ UNCHANGED <<checkout, installed, retired, edits>>

ToCopy == {f \in Path : checkout[f] # Absent /\ ~Ignored(f) /\ installed[f] \in {Absent, Torn}}

OpenCopy(f) ==
  /\ pc = "copy"
  /\ f \in ToCopy
  /\ installed' = [installed EXCEPT ![f] = Torn]
  /\ pc' = "torn"
  /\ UNCHANGED <<checkout, place, retired, edits>>

CloseCopy(f) ==
  /\ pc = "torn"
  /\ installed[f] = Torn
  /\ installed' = [installed EXCEPT ![f] = checkout[f]]
  /\ pc' = "copy"
  /\ UNCHANGED <<checkout, place, retired, edits>>

FinishCopy ==
  /\ pc = "copy"
  /\ ToCopy = {}
  /\ pc' = "retire"
  /\ UNCHANGED <<checkout, place, installed, retired, edits>>

RemoveRetired(s) ==
  /\ pc = "retire"
  /\ s \in retired
  /\ retired' = retired \ {s}
  /\ UNCHANGED <<checkout, place, installed, pc, edits>>

Finish ==
  /\ pc = "retire"
  /\ retired = {}
  /\ pc' = "done"
  /\ UNCHANGED <<checkout, place, installed, retired, edits>>

CutShort ==
  /\ pc \in Installing
  /\ pc' = "failed"
  /\ UNCHANGED <<checkout, place, installed, retired, edits>>

-----------------------------------------------------------------------------
(* Between runs the checkout is updated and the copy used and edited.      *)
Edit ==
  /\ pc \notin Installing
  /\ edits < Edits
  /\ edits' = edits + 1
  /\ \E f \in Path, x \in Content \cup {Absent} :
       \/ checkout' = [checkout EXCEPT ![f] = x] /\ UNCHANGED installed
       \/ place = "dir" /\ installed' = [installed EXCEPT ![f] = x] /\ UNCHANGED checkout
  /\ pc' = "idle"
  /\ UNCHANGED <<place, retired>>

InstallNext ==
  \/ BeginInstall
  \/ \E f \in Path : RemoveFile(f) \/ OpenCopy(f) \/ CloseCopy(f)
  \/ FinishRemoval \/ MakeDirectory \/ FinishCopy
  \/ \E s \in Retired : RemoveRetired(s)
  \/ Finish
  \/ CutShort
  \/ Edit

InstallSpec == InstallInit /\ [][InstallNext]_installVars

-----------------------------------------------------------------------------
(* Whatever crashed before, an install that ends leaves a current copy:    *)
(* --check, which filters by other code than the copying, agrees.          *)
DoneIsCurrent == pc = "done" => Current

(* Between runs, after crashes too, --check passes only a copy in which    *)
(* every file that installing would bring is whole and as in the checkout, *)
(* nothing is cut short and nothing retired is left.                       *)
CheckIsSound ==
  pc \notin Installing /\ Current =>
    /\ retired = {}
    /\ \A f \in Path : installed[f] # Torn
    /\ \A f \in Path : checkout[f] # Absent /\ ~Ignored(f) => installed[f] = checkout[f]

=============================================================================
