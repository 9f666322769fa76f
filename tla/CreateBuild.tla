---------------------------- MODULE CreateBuild ----------------------------
(***************************************************************************)
(* Publishing a build (mc_updater_create_build in                          *)
(* src/mc_updater/mc_updater.c, with updateManifest_build and              *)
(* update_version_compare of src/update_utils.c): the next version number  *)
(* is taken from the manifest, the archive is written, the directory is    *)
(* indexed, and the manifest is replaced.  Any step may fail and the       *)
(* program may die between two of them; somebody marks versions stable and *)
(* removes old archives by hand.  The -p4 option is left out.              *)
(*                                                                         *)
(* The trees that builds are made from are numbered; an archive may lack   *)
(* files that could not be added to it.                                    *)
(***************************************************************************)
EXTENDS Naturals, Sequences, FiniteSets

CONSTANTS First,       \* the version the manifest starts with
          MaxVersion,  \* bound: versions
          MaxTrees     \* bound: trees

Versions == First..MaxVersion

ASSUME FirstAssumption == First \in Nat \ {0}
ASSUME MaxVersionAssumption == MaxVersion \in First..99
ASSUME MaxTreesAssumption == MaxTrees \in Nat

VARIABLES
  archive,          \* version -> "none", "torn", "whole" or "lacking" files
  madeFrom,         \* version -> the tree its archive was made from
  removed,          \* the versions whose archives were removed by hand
  manifest,         \* what the file says; intact is whether it can be parsed
  pc, original,     \* where the program is; the manifest it has read
  newVersion,
  tree, packed,     \* the tree that is packed; what the archive will be
  success, smooth   \* what it returns; whether nothing has failed

archiveVars == <<archive, madeFrom, removed>>
buildVars == <<original, newVersion, tree, packed>>
vars == <<archiveVars, manifest, pc, buildVars, success, smooth>>

Manifests == [intact : BOOLEAN, versions : SUBSET Versions,
              latest : Versions, stable : Versions \cup {0}]

TypeOK ==
  /\ archive \in [Versions -> {"none", "torn", "whole", "lacking"}]
  /\ madeFrom \in [Versions -> 0..MaxTrees] /\ packed \in {"whole", "lacking"}
  /\ removed \subseteq Versions
  /\ manifest \in Manifests /\ original \in Manifests
  /\ pc \in {"idle", "archive", "archiving", "index", "manifest", "over"}
  /\ newVersion \in First..(MaxVersion + 1) /\ tree \in 0..MaxTrees
  /\ success \in BOOLEAN /\ smooth \in BOOLEAN

Init ==
  /\ archive = [v \in Versions |-> IF v = First THEN "whole" ELSE "none"]
  /\ madeFrom = [v \in Versions |-> 0] /\ packed = "whole"
  /\ removed = {}
  /\ manifest = [intact |-> TRUE, versions |-> {First}, latest |-> First, stable |-> 0]
  /\ pc = "idle" /\ original = manifest
  /\ newVersion = First /\ tree = 0 /\ success = TRUE /\ smooth = TRUE

----------------------------------------------------------------------------
(* update_version_compare: strcmp of the numbers as text. *)

Digits(v) == IF v < 10 THEN <<v>> ELSE <<v \div 10, v % 10>>

(* Faulty variants, here and below: bugs the next definition could have    *)
(* had, and no part of the model.                                          *)
After(a, b) ==
  LET s == Digits(a)
      t == Digits(b)
  IN  \E i \in DOMAIN s : /\ i <= Len(t) + 1
                          /\ \A j \in 1..(i - 1) : s[j] = t[j]
                          /\ i <= Len(t) => s[i] > t[i]

(* updateManifest_build: the archives that can be read; the first of them  *)
(* after sorting is the latest.                                            *)
Found == {v \in Versions : archive[v] # "none"}
LatestFound == CHOOSE v \in Found : \A w \in Found : v = w \/ After(v, w)

----------------------------------------------------------------------------
NextVersion == manifest.latest + 1

(* The manifest is parsed, the number taken and the archive made in memory:*)
(* a file that cannot be added is no failure, since status stays true.     *)
Begin ==
  /\ pc \in {"idle", "over"} /\ manifest.intact
  /\ manifest.latest < MaxVersion
  /\ original' = manifest /\ newVersion' = NextVersion
  /\ tree' \in tree..MaxTrees /\ tree' <= tree + 1
  /\ packed' \in {"whole", "lacking"}
  /\ pc' = "archive" /\ success' = TRUE /\ smooth' = (packed' = "whole")
  /\ UNCHANGED <<archiveVars, manifest>>

(* The manifest is torn, and no latest version is found; or every call that *)
(* makes the archive fails.  (mz_zip_writer_end does not fail: what it     *)
(* asks for was followed before.)                                          *)
BeginFails ==
  /\ pc \in {"idle", "over"}
  /\ pc' = "over" /\ success' = FALSE /\ smooth' = FALSE
  /\ UNCHANGED <<archiveVars, manifest, buildVars>>

Unmodified == archive[newVersion] = packed /\ madeFrom[newVersion] = tree

(* fileData_writeIfChanged with no temporary name. *)
ArchiveUnmodified ==
  /\ pc = "archive" /\ Unmodified
  /\ pc' = "index"
  /\ UNCHANGED <<archiveVars, manifest, buildVars, success, smooth>>

OpenArchive ==
  /\ pc = "archive" /\ ~Unmodified
  /\ archive' = [archive EXCEPT ![newVersion] = "torn"]
  /\ pc' = "archiving"
  /\ UNCHANGED <<madeFrom, removed, manifest, buildVars, success, smooth>>

WriteArchive ==
  /\ pc = "archiving"
  /\ archive' = [archive EXCEPT ![newVersion] = packed]
  /\ madeFrom' = [madeFrom EXCEPT ![newVersion] = tree]
  /\ pc' = "index"
  /\ UNCHANGED <<removed, manifest, buildVars, success, smooth>>

FailureIndexed ==
  /\ pc \in {"archive", "archiving"} /\ ~(pc = "archive" /\ Unmodified)
  /\ pc' = "index" /\ success' = FALSE /\ smooth' = FALSE
  /\ UNCHANGED <<archiveVars, manifest, buildVars>>

ArchiveFails ==
  /\ pc \in {"archive", "archiving"} /\ ~(pc = "archive" /\ Unmodified)
  /\ pc' = "over" /\ success' = FALSE /\ smooth' = FALSE
  /\ UNCHANGED <<archiveVars, manifest, buildVars>>

Updated ==
  [intact |-> TRUE, versions |-> Found, latest |-> LatestFound,
   stable |-> original.stable]

SameNumber == Cardinality(Found) = Cardinality(original.versions)
OneMore == Cardinality(Found) = Cardinality(original.versions) + 1

(* The directory is indexed; fopen empties the manifest. *)
OpenManifest ==
  /\ pc = "index" /\ OneMore
  /\ manifest' = [manifest EXCEPT !.intact = FALSE]
  /\ pc' = "manifest"
  /\ UNCHANGED <<archiveVars, buildVars, success, smooth>>

NotOneMore ==
  /\ pc = "index" /\ ~OneMore
  /\ pc' = "over" /\ success' = FALSE
  /\ UNCHANGED <<archiveVars, manifest, buildVars, smooth>>

OpenManifestFails ==
  /\ pc = "index" /\ OneMore
  /\ pc' = "over" /\ success' = FALSE /\ smooth' = FALSE
  /\ UNCHANGED <<archiveVars, manifest, buildVars>>

WriteManifest ==
  /\ pc = "manifest"
  /\ manifest' = Updated
  /\ pc' = "over"
  /\ UNCHANGED <<archiveVars, buildVars, success, smooth>>

(* fputs fails, which nobody looks at. *)
WriteManifestFails ==
  /\ pc = "manifest"
  /\ pc' = "over" /\ smooth' = FALSE
  /\ UNCHANGED <<archiveVars, manifest, buildVars, success>>

----------------------------------------------------------------------------
Crash ==
  /\ pc \notin {"idle", "over"}
  /\ pc' = "idle"
  /\ UNCHANGED <<archiveVars, manifest, buildVars, success, smooth>>

(* By hand, while no build is made. *)
MarkStable ==
  /\ pc \in {"idle", "over"} /\ manifest.intact
  /\ \E v \in manifest.versions : manifest' = [manifest EXCEPT !.stable = v]
  /\ pc' = "idle"
  /\ UNCHANGED <<archiveVars, buildVars, success, smooth>>

(* By hand, to save space: any but the latest. *)
RemoveArchive ==
  /\ pc \in {"idle", "over"} /\ manifest.intact
  /\ \E v \in manifest.versions \ {manifest.latest} :
       archive' = [archive EXCEPT ![v] = "none"] /\ removed' = removed \cup {v}
  /\ pc' = "idle"
  /\ UNCHANGED <<madeFrom, manifest, buildVars, success, smooth>>

Next ==
  \/ Begin \/ BeginFails
  \/ ArchiveUnmodified \/ OpenArchive \/ WriteArchive \/ ArchiveFails
  \/ OpenManifest \/ NotOneMore \/ OpenManifestFails
  \/ WriteManifest \/ WriteManifestFails
  \/ Crash \/ MarkStable \/ RemoveArchive

Spec == Init /\ [][Next]_vars

----------------------------------------------------------------------------
(* Properties.                                                             *)

Announced == IF manifest.intact THEN manifest.versions ELSE {}

(* An archive that was announced is not torn, and nothing writes to it     *)
(* again: a build that failed half-way is overwritten by the next one only *)
(* because no manifest has named it yet.                                   *)
AnnouncedIsFixed ==
  [][\A v \in Announced \ removed' :
       /\ archive[v] # "torn"
       /\ archive'[v] = archive[v] /\ madeFrom'[v] = madeFrom[v]]_vars

(* A build in which nothing fails is announced as the latest version, which*)
(* is the newest of all, with all its files, no other version is withdrawn,*)
(* and stable is what it was - unless an old archive was removed: the count*)
(* at mc_updater.c:244 then fails every build from there on.               *)
SmoothBuildIsAnnounced ==
  /\ TypeOK
  /\ pc = "over" /\ smooth /\ removed = {} =>
       /\ success /\ manifest.intact
       /\ newVersion = manifest.latest
       /\ \A v \in manifest.versions : v <= newVersion
       /\ manifest.versions = original.versions \cup {newVersion}
       /\ manifest.stable = original.stable
       /\ archive[newVersion] = "whole" /\ madeFrom[newVersion] = tree

(* mc_updater.c:244 takes it that a build adds one version to the manifest:*)
(* so a build in which nothing fails is a success.                         *)
SmoothBuildSucceeds == pc = "over" /\ smooth /\ removed = {} => success
=============================================================================
