------------------------- MODULE CreateBuildProofs -------------------------
(* The proofs about publishing builds, for any number of trees, builds     *)
(* that fail or die anywhere and archives removed by hand, as long as the  *)
(* versions have one digit: past nine the order of update_version_compare  *)
(* is another (see the run builds_ten), and none of this holds.            *)
EXTENDS CreateBuild, FiniteSetTheorems, TLAPS

OneDigit == MaxVersion <= 9

Building == pc \in {"archive", "archiving", "index", "manifest"}

(* The manifest that counts: while a new one is written, the one read.     *)
Base == IF pc = "manifest" THEN original ELSE manifest
Known == manifest.intact \/ pc = "manifest"

(* The manifest names its latest version and none after it.                *)
NamesLatest ==
  Known => /\ Base.latest \in Base.versions
           /\ \A v \in Base.versions : v <= Base.latest

(* Up to the latest, the archives there are those announced but for the    *)
(* removed ones, and none is torn; after it there is at most the next.     *)
ArchivesAsAnnounced ==
  /\ \A v \in removed : archive[v] = "none"
  /\ Known =>
       /\ \A v \in removed : v <= Base.latest
       /\ \A v \in Versions :
            /\ v <= Base.latest =>
                 /\ archive[v] # "none" <=> v \in Base.versions \ removed
                 /\ archive[v] # "torn"
            /\ archive[v] # "none" => v <= Base.latest + 1

(* A build goes by the manifest it has read, and has made its archive when *)
(* it indexes the directory.                                               *)
BuildingNext ==
  /\ Building => /\ newVersion = original.latest + 1 /\ newVersion \in Versions
                 /\ success /\ (smooth => packed = "whole")
  /\ Building /\ pc # "manifest" => manifest.intact /\ manifest = original
  /\ pc \in {"index", "manifest"} =>
       archive[newVersion] = packed /\ madeFrom[newVersion] = tree
  /\ pc = "manifest" => ~manifest.intact

IInv == TypeOK /\ NamesLatest /\ ArchivesAsAnnounced /\ BuildingNext
          /\ SmoothBuildIsAnnounced

----------------------------------------------------------------------------
LEMMA VersionsAreNumbers == /\ First \in Nat \ {0} /\ MaxVersion \in Nat /\ First <= MaxVersion
                            /\ Versions \subseteq Nat /\ First \in Versions
                            /\ \A v \in Versions : First <= v /\ v <= MaxVersion
  BY FirstAssumption, MaxVersionAssumption DEF Versions

(* Of numbers of one digit, the order is that of the numbers.              *)
LEMMA AfterIsGreater ==
  ASSUME NEW a \in 0..9, NEW b \in 0..9
  PROVE  After(a, b) <=> a > b
  <1>1. Digits(a) = <<a>> /\ Digits(b) = <<b>>
    BY DEF Digits
  <1>2. DOMAIN <<a>> = {1} /\ Len(<<b>>) = 1 /\ <<a>>[1] = a /\ <<b>>[1] = b
    OBVIOUS
  <1> QED
    BY <1>1, <1>2 DEF After

(* So the first that is found is the greatest.                             *)
LEMMA LatestIsGreatest ==
  ASSUME OneDigit, NEW n \in Found, \A v \in Found : v <= n
  PROVE  LatestFound = n
  <1>1. Found \subseteq 0..9
    BY VersionsAreNumbers DEF Found, OneDigit, Versions
  <1>2. \A w \in Found : n = w \/ After(n, w)
    BY <1>1, AfterIsGreater
  <1>3. \A v \in Found : (\A w \in Found : v = w \/ After(v, w)) => v = n
    BY <1>1, AfterIsGreater
  <1> QED
    BY <1>2, <1>3 DEF LatestFound

(* What the directory holds when a build indexes it.                       *)
LEMMA FoundWhenBuilt ==
  ASSUME IInv, pc \in {"index", "manifest"}
  PROVE  /\ Found = (original.versions \ removed) \cup {newVersion}
         /\ newVersion \in Versions /\ newVersion \notin original.versions
         /\ \A v \in Found : v <= newVersion
         /\ archive[newVersion] = packed
  <1>1. /\ newVersion = original.latest + 1 /\ newVersion \in Versions
        /\ archive[newVersion] = packed /\ packed \in {"whole", "lacking"}
        /\ original \in Manifests
      BY DEF IInv, BuildingNext, Building, TypeOK
  <1>2. Base = original /\ Known
    BY DEF IInv, BuildingNext, Building, Base, Known
  <1>3. original.versions \subseteq Versions /\ original.latest \in Versions
    BY <1>1 DEF Manifests
  <1>4. /\ \A v \in original.versions : v <= original.latest
        /\ \A v \in Versions :
             /\ v <= original.latest => (archive[v] # "none" <=> v \in original.versions \ removed)
             /\ archive[v] # "none" => v <= original.latest + 1
    BY <1>2 DEF IInv, NamesLatest, ArchivesAsAnnounced
  <1>5. newVersion \notin original.versions
    BY <1>1, <1>3, <1>4, VersionsAreNumbers
  <1>6. ASSUME NEW v \in Versions
        PROVE  v \in Found <=> v \in original.versions \ removed \/ v = newVersion
    <2>1. v \in Nat /\ original.latest \in Nat /\ newVersion = original.latest + 1
      BY <1>1, <1>3, VersionsAreNumbers
    <2>2. CASE v <= original.latest
      <3>1. v # newVersion
        BY <2>1, <2>2
      <3> QED
        BY <1>4, <2>2, <3>1 DEF Found
    <2>3. CASE v = newVersion
      BY <1>1, <2>3 DEF Found
    <2>4. CASE ~(v <= original.latest + 1)
      <3>1. v # newVersion /\ ~(v <= original.latest)
        BY <2>1, <2>4
      <3>2. v \notin original.versions /\ archive[v] = "none"
        BY <1>4, <2>4, <3>1
      <3> QED
        BY <3>1, <3>2 DEF Found
    <2>5. v <= original.latest \/ v = newVersion \/ ~(v <= original.latest + 1)
      BY <2>1
    <2> QED
      BY <2>2, <2>3, <2>4, <2>5
  <1> QED
    BY <1>1, <1>3, <1>4, <1>5, <1>6 DEF Found

(* A build that nothing disturbs finds one more.                           *)
LEMMA OneMoreIsFound ==
  ASSUME IInv, pc = "index", removed = {}
  PROVE  OneMore
  <1>1. Found = original.versions \cup {newVersion} /\ newVersion \notin original.versions
    BY FoundWhenBuilt
  <1>2. IsFiniteSet(original.versions)
    <2>1. original.versions \subseteq First..MaxVersion
      BY DEF IInv, TypeOK, Manifests, Versions
    <2> QED
      <3>1. IsFiniteSet(First..MaxVersion)
        BY FS_Interval, VersionsAreNumbers
      <3> QED
        BY <2>1, <3>1, FS_Subset
  <1> QED
    BY <1>1, <1>2, FS_AddElement DEF OneMore

----------------------------------------------------------------------------
LEMMA InitIInv == Init => IInv
  <1> SUFFICES ASSUME Init PROVE IInv
    OBVIOUS
  <1>1. /\ manifest = [intact |-> TRUE, versions |-> {First}, latest |-> First, stable |-> 0]
        /\ original = manifest /\ pc = "idle" /\ removed = {}
        /\ archive = [v \in Versions |-> IF v = First THEN "whole" ELSE "none"]
    BY DEF Init
  <1>2. TypeOK
    <2>1. manifest \in Manifests
      BY <1>1, VersionsAreNumbers DEF Manifests
    <2>2. newVersion \in First..(MaxVersion + 1) /\ tree \in 0..MaxTrees
      BY VersionsAreNumbers, MaxTreesAssumption DEF Init
    <2>3. madeFrom \in [Versions -> 0..MaxTrees]
      BY MaxTreesAssumption DEF Init
    <2> QED
      BY <1>1, <2>1, <2>2, <2>3 DEF Init, TypeOK
  <1>3. NamesLatest /\ ArchivesAsAnnounced
    BY <1>1, VersionsAreNumbers DEF NamesLatest, ArchivesAsAnnounced, Base, Known
  <1> QED
    BY <1>1, <1>2, <1>3 DEF IInv, BuildingNext, Building, SmoothBuildIsAnnounced

LEMMA StepType == OneDigit /\ IInv /\ [Next]_vars => TypeOK'
  <1> SUFFICES ASSUME OneDigit, IInv, [Next]_vars PROVE TypeOK'
    OBVIOUS
  <1> USE DEF archiveVars, buildVars
  <1>1. TypeOK
    BY DEF IInv
  <1>2. manifest \in Manifests /\ manifest.versions \subseteq Versions /\ manifest.latest \in Versions
    BY <1>1 DEF TypeOK, Manifests
  <1>3. CASE Begin
    <2>1. newVersion' \in First..(MaxVersion + 1)
      <3>1. newVersion' = manifest.latest + 1
        BY <1>3 DEF Begin, NextVersion
      <3>2. manifest.latest \in First..MaxVersion
        BY <1>2 DEF Versions
      <3> QED
        BY <3>1, <3>2, VersionsAreNumbers
    <2>2. tree' \in 0..MaxTrees
      BY <1>1, <1>3, MaxTreesAssumption DEF Begin, TypeOK
    <2> QED
      BY <1>1, <1>3, <2>1, <2>2 DEF Begin, TypeOK
  <1>4. CASE OpenArchive \/ WriteArchive
    <2>1. newVersion \in Versions
      BY <1>4 DEF OpenArchive, WriteArchive, IInv, BuildingNext, Building
    <2> QED
      BY <1>1, <1>4, <2>1 DEF OpenArchive, WriteArchive, TypeOK
  <1>5. CASE OpenManifest
    <2>1. manifest' \in Manifests
      BY <1>2, <1>5 DEF OpenManifest, Manifests
    <2> QED
      BY <1>1, <1>5, <2>1 DEF OpenManifest, TypeOK
  <1>6. CASE WriteManifest
    <2>1. LatestFound \in Versions /\ Found \subseteq Versions
      BY <1>6, FoundWhenBuilt, LatestIsGreatest DEF WriteManifest, Found
    <2>2. original.stable \in Versions \cup {0}
      BY <1>1 DEF TypeOK, Manifests
    <2>3. Updated \in Manifests
      BY <2>1, <2>2 DEF Updated, Manifests
    <2> QED
      BY <1>1, <1>6, <2>3 DEF WriteManifest, TypeOK
  <1>7. CASE MarkStable
    <2>1. manifest' \in Manifests
      BY <1>2, <1>7 DEF MarkStable, Manifests
    <2> QED
      BY <1>1, <1>7, <2>1 DEF MarkStable, TypeOK
  <1>8. CASE RemoveArchive
    <2>1. PICK v \in manifest.versions :
            archive' = [archive EXCEPT ![v] = "none"] /\ removed' = removed \cup {v}
      BY <1>8 DEF RemoveArchive
    <2>2. v \in Versions
      BY <1>2
    <2> QED
      BY <1>1, <1>8, <2>1, <2>2 DEF RemoveArchive, TypeOK
  <1>9. CASE \/ BeginFails \/ ArchiveUnmodified \/ ArchiveFails \/ NotOneMore
             \/ OpenManifestFails \/ WriteManifestFails \/ Crash \/ UNCHANGED vars
    BY <1>1, <1>9 DEF BeginFails, ArchiveUnmodified, ArchiveFails, NotOneMore,
                      OpenManifestFails, WriteManifestFails, Crash, TypeOK, vars
  <1> QED
    BY <1>3, <1>4, <1>5, <1>6, <1>7, <1>8, <1>9 DEF Next

(* While the directory and the manifest stay as they are, so does what is  *)
(* known about them.                                                       *)
LEMMA QuietKeepsBase ==
  ASSUME IInv, UNCHANGED <<archiveVars, manifest>>, Known' => Known /\ Base' = Base
  PROVE  NamesLatest' /\ ArchivesAsAnnounced'
  BY DEF IInv, NamesLatest, ArchivesAsAnnounced, archiveVars

(* Steps that leave the directory and the manifest alone.                  *)
LEMMA QuietKeeps ==
  ASSUME IInv, TypeOK',
         \/ Begin \/ BeginFails \/ ArchiveUnmodified \/ ArchiveFails
         \/ NotOneMore \/ OpenManifestFails \/ WriteManifestFails \/ Crash \/ UNCHANGED vars
  PROVE  IInv'
  <1> USE DEF archiveVars, buildVars
  <1>1. /\ UNCHANGED <<archiveVars, manifest>>
        /\ Known' => Known /\ Base' = Base
    BY DEF Begin, BeginFails, ArchiveUnmodified, ArchiveFails, NotOneMore, OpenManifestFails,
           WriteManifestFails, Crash, vars, Known, Base, IInv, BuildingNext
  <1>2. NamesLatest' /\ ArchivesAsAnnounced'
    BY <1>1, QuietKeepsBase
  <1>3. CASE Begin
    <2>1. newVersion' = original'.latest + 1 /\ manifest.latest \in Versions
      BY <1>3 DEF Begin, NextVersion, IInv, TypeOK, Manifests
    <2>2. newVersion' \in Versions
      BY <1>3, <2>1, VersionsAreNumbers DEF Begin, Versions
    <2>3. BuildingNext'
      BY <1>3, <2>1, <2>2 DEF Begin, BuildingNext, Building
    <2> QED
      BY <1>2, <1>3, <2>3 DEF IInv, Begin, SmoothBuildIsAnnounced
  <1>4. CASE ArchiveUnmodified
    BY <1>2, <1>4 DEF ArchiveUnmodified, Unmodified, IInv, BuildingNext, Building,
                      SmoothBuildIsAnnounced
  <1>5. CASE NotOneMore
    <2>1. removed' # {}
      BY <1>5, OneMoreIsFound DEF NotOneMore
    <2> QED
      BY <1>2, <1>5, <2>1 DEF NotOneMore, IInv, BuildingNext, Building, SmoothBuildIsAnnounced
  <1>6. CASE BeginFails \/ ArchiveFails \/ OpenManifestFails \/ WriteManifestFails \/ Crash
    BY <1>2, <1>6 DEF BeginFails, ArchiveFails, OpenManifestFails, WriteManifestFails, Crash,
                      IInv, BuildingNext, Building, SmoothBuildIsAnnounced
  <1>7. CASE UNCHANGED vars
    BY <1>2, <1>7 DEF vars, IInv, BuildingNext, Building, SmoothBuildIsAnnounced
  <1> QED
    BY <1>3, <1>4, <1>5, <1>6, <1>7

(* The next version's archive, which no manifest names.                    *)
LEMMA ArchivingKeeps ==
  ASSUME IInv, TypeOK', OpenArchive \/ WriteArchive
  PROVE  IInv'
  <1>1. /\ pc \in {"archive", "archiving"} /\ pc' \in {"archiving", "index"}
        /\ UNCHANGED <<removed, manifest, original, newVersion, tree, packed, success, smooth>>
        /\ pc' = "index" => archive' = [archive EXCEPT ![newVersion] = packed]
                            /\ madeFrom' = [madeFrom EXCEPT ![newVersion] = tree]
        /\ \A v \in Versions : v # newVersion => archive'[v] = archive[v]
    BY DEF OpenArchive, WriteArchive, buildVars, IInv, TypeOK
  <1>2. /\ newVersion = manifest.latest + 1 /\ newVersion \in Versions /\ manifest = original
        /\ Known /\ Base = manifest /\ Known' /\ Base' = manifest
    BY <1>1 DEF IInv, BuildingNext, Building, Known, Base
  <1>3. manifest.latest \in Nat
    BY VersionsAreNumbers DEF IInv, TypeOK, Manifests
  <1>4. NamesLatest'
    BY <1>1, <1>2 DEF IInv, NamesLatest
  <1>5. removed \subseteq Versions /\ \A v \in removed : v <= manifest.latest
    BY <1>2 DEF IInv, ArchivesAsAnnounced, TypeOK
  <1>6. \A v \in Versions : v <= manifest.latest => archive'[v] = archive[v]
    BY <1>1, <1>2, <1>3
  <1>7. \A v \in Versions : archive'[v] # "none" => v <= manifest.latest + 1
    BY <1>1, <1>2, <1>3, VersionsAreNumbers DEF IInv, ArchivesAsAnnounced
  <1>8. ArchivesAsAnnounced'
    BY <1>1, <1>2, <1>5, <1>6, <1>7 DEF IInv, ArchivesAsAnnounced
  <1>9. BuildingNext'
    BY <1>1, <1>2 DEF IInv, TypeOK, BuildingNext, Building
  <1> QED
    BY <1>1, <1>4, <1>8, <1>9 DEF IInv, SmoothBuildIsAnnounced

LEMMA ManifestKeeps ==
  ASSUME OneDigit, IInv, TypeOK', OpenManifest \/ WriteManifest
  PROVE  IInv'
  <1> USE DEF archiveVars, buildVars
  <1>1. CASE OpenManifest
    <2>1. /\ pc = "index" /\ pc' = "manifest" /\ ~manifest'.intact
          /\ UNCHANGED <<archive, madeFrom, removed, original, newVersion, tree, packed,
                         success, smooth>>
      BY <1>1 DEF OpenManifest, IInv, TypeOK, Manifests
    <2>2. Known /\ Known' /\ Base' = Base
      BY <2>1 DEF IInv, BuildingNext, Building, Known, Base
    <2>3. NamesLatest' /\ ArchivesAsAnnounced'
      BY <2>1, <2>2 DEF IInv, NamesLatest, ArchivesAsAnnounced
    <2> QED
      BY <2>1, <2>3 DEF IInv, BuildingNext, Building, SmoothBuildIsAnnounced
  <1>2. CASE WriteManifest
    <2>1. /\ pc = "manifest" /\ pc' = "over" /\ manifest' = Updated
          /\ UNCHANGED <<archive, madeFrom, removed, original, newVersion, tree, packed,
                         success, smooth>>
      BY <1>2 DEF WriteManifest
    <2>2. /\ Found = (original.versions \ removed) \cup {newVersion}
          /\ newVersion \in Versions
          /\ \A v \in Found : v <= newVersion
          /\ archive[newVersion] = packed
      BY <2>1, FoundWhenBuilt
    <2>3. LatestFound = newVersion
      BY <2>2, LatestIsGreatest
    <2>4. /\ Known' /\ Base'.versions = Found /\ Base'.latest = newVersion
          /\ manifest'.intact /\ manifest'.stable = original.stable
          /\ manifest'.versions = Found /\ manifest'.latest = newVersion
      BY <2>1, <2>3 DEF Updated, Known, Base
    <2>5. NamesLatest'
      BY <2>2, <2>4 DEF NamesLatest
    <2>6. /\ Known /\ Base = original /\ newVersion = original.latest + 1
          /\ original.latest \in Nat /\ packed \in {"whole", "lacking"}
          /\ removed \subseteq Versions
      BY <2>1, VersionsAreNumbers
         DEF IInv, BuildingNext, Building, Known, Base, TypeOK, Manifests
    <2>7. \A v \in removed : archive[v] = "none" /\ v <= newVersion
      <3>1. \A v \in removed : archive[v] = "none" /\ v <= original.latest /\ v \in Nat
        BY <2>6, VersionsAreNumbers DEF IInv, ArchivesAsAnnounced
      <3> QED
        BY <2>6, <3>1
    <2>8. ASSUME NEW v \in Versions
          PROVE  /\ v <= newVersion =>
                      /\ archive[v] # "none" <=> v \in Found \ removed
                      /\ archive[v] # "torn"
                 /\ archive[v] # "none" => v <= newVersion + 1
      <3>1. v \in Nat
        BY VersionsAreNumbers
      <3>2. v <= newVersion => v <= original.latest \/ v = newVersion
        BY <2>6, <3>1
      <3>3. v <= original.latest => archive[v] # "torn"
        BY <2>6 DEF IInv, ArchivesAsAnnounced
      <3>4. archive[v] # "none" => v <= newVersion
        BY <2>2 DEF Found
      <3>5. archive[v] # "none" <=> v \in Found \ removed
        BY <2>7 DEF Found
      <3> QED
        BY <2>2, <2>6, <3>1, <3>2, <3>3, <3>4, <3>5
    <2>9. ArchivesAsAnnounced'
      BY <2>1, <2>4, <2>7, <2>8 DEF ArchivesAsAnnounced
    <2>10. SmoothBuildIsAnnounced'
      BY <2>1, <2>2, <2>4 DEF IInv, BuildingNext, Building, SmoothBuildIsAnnounced
    <2> QED
      BY <2>1, <2>5, <2>9, <2>10 DEF IInv, BuildingNext, Building
  <1> QED
    BY <1>1, <1>2

LEMMA ByHandKeeps ==
  ASSUME IInv, TypeOK', MarkStable \/ RemoveArchive
  PROVE  IInv'
  <1> USE DEF archiveVars, buildVars
  <1>1. /\ pc # "manifest" /\ pc' = "idle" /\ manifest.intact /\ manifest'.intact
        /\ manifest'.versions = manifest.versions /\ manifest'.latest = manifest.latest
    BY DEF MarkStable, RemoveArchive, IInv, TypeOK, Manifests
  <1>2. Known /\ Known' /\ Base = manifest /\ Base' = manifest'
    BY <1>1 DEF Known, Base
  <1>3. NamesLatest'
    BY <1>1, <1>2 DEF IInv, NamesLatest
  <1>4. ASSUME MarkStable PROVE ArchivesAsAnnounced'
    BY <1>1, <1>2, <1>4 DEF MarkStable, IInv, ArchivesAsAnnounced
  <1>5. ASSUME RemoveArchive PROVE ArchivesAsAnnounced'
    <2>1. PICK r \in manifest.versions \ {manifest.latest} :
            archive' = [archive EXCEPT ![r] = "none"] /\ removed' = removed \cup {r}
      BY <1>5 DEF RemoveArchive
    <2>2. r \in Versions /\ r <= manifest.latest
      BY <1>2 DEF IInv, NamesLatest, TypeOK, Manifests
    <2>3. \A v \in Versions : archive'[v] = IF v = r THEN "none" ELSE archive[v]
      BY <2>1 DEF IInv, TypeOK
    <2>4. removed \subseteq Versions
      BY DEF IInv, TypeOK
    <2>5. \A v \in removed' : archive'[v] = "none" /\ v <= manifest.latest
      BY <1>2, <2>1, <2>2, <2>3, <2>4 DEF IInv, ArchivesAsAnnounced
    <2>6. \A v \in Versions :
            /\ v <= manifest.latest =>
                 /\ archive'[v] # "none" <=> v \in manifest.versions \ removed'
                 /\ archive'[v] # "torn"
            /\ archive'[v] # "none" => v <= manifest.latest + 1
      BY <1>2, <2>1, <2>3 DEF IInv, ArchivesAsAnnounced
    <2> QED
      BY <1>1, <1>2, <2>5, <2>6 DEF ArchivesAsAnnounced
  <1>6. BuildingNext' /\ SmoothBuildIsAnnounced'
    BY <1>1 DEF BuildingNext, Building, SmoothBuildIsAnnounced
  <1> QED
    BY <1>3, <1>4, <1>5, <1>6 DEF IInv

LEMMA StepIInv == OneDigit /\ IInv /\ [Next]_vars => IInv'
  <1> SUFFICES ASSUME OneDigit, IInv, [Next]_vars PROVE IInv'
    OBVIOUS
  <1>1. TypeOK'
    BY StepType
  <1> QED
    BY <1>1, QuietKeeps, ArchivingKeeps, ManifestKeeps, ByHandKeeps DEF Next

----------------------------------------------------------------------------
(* The invariant of publishing, whatever fails, dies or is removed.        *)
THEOREM Invariance ==
  ASSUME OneDigit
  PROVE  Spec => []IInv
  <1>1. IInv /\ [Next]_vars => IInv'
    BY StepIInv
  <1> QED
    BY InitIInv, <1>1, PTL DEF Spec

(* A build in which nothing fails is announced, with all its files, unless *)
(* an archive was removed (mc_updater_create_build).                       *)
THEOREM SmoothBuildAlwaysAnnounced ==
  ASSUME OneDigit
  PROVE  Spec => []SmoothBuildIsAnnounced
  <1>1. IInv => SmoothBuildIsAnnounced
    BY DEF IInv
  <1>2. Spec => []IInv
    BY Invariance
  <1> QED
    BY <1>1, <1>2, PTL

(* What was announced is never written to again (mc_updater_create_build). *)
THEOREM AnnouncedStaysFixed ==
  ASSUME OneDigit
  PROVE  Spec => AnnouncedIsFixed
  <1> USE DEF archiveVars, buildVars
  <1>1. ASSUME IInv, Next, NEW v \in Announced \ removed'
        PROVE  archive[v] # "torn" /\ archive'[v] = archive[v] /\ madeFrom'[v] = madeFrom[v]
    <2>1. manifest.intact /\ v \in manifest.versions /\ v \notin removed'
      BY <1>1 DEF Announced
    <2>2. /\ v \in Versions /\ manifest.latest \in Nat /\ Known /\ Base = manifest
          /\ archive \in [Versions -> {"none", "torn", "whole", "lacking"}]
      BY <1>1, <2>1, VersionsAreNumbers DEF IInv, TypeOK, Manifests, BuildingNext, Known, Base
    <2>3. v <= manifest.latest /\ archive[v] # "torn"
      BY <1>1, <2>1, <2>2 DEF IInv, NamesLatest, ArchivesAsAnnounced
    <2>4. CASE OpenArchive \/ WriteArchive
      <3>1. newVersion = manifest.latest + 1
        BY <1>1, <2>4 DEF OpenArchive, WriteArchive, IInv, BuildingNext, Building
      <3>2. v # newVersion
        BY <2>2, <2>3, <3>1, VersionsAreNumbers
      <3> QED
        BY <1>1, <2>2, <2>3, <2>4, <3>2 DEF OpenArchive, WriteArchive, IInv, TypeOK
    <2>5. CASE RemoveArchive
      BY <2>1, <2>2, <2>3, <2>5 DEF RemoveArchive
    <2>6. CASE UNCHANGED <<archive, madeFrom>>
      BY <2>3, <2>6
    <2> QED
      BY <1>1, <2>4, <2>5, <2>6
         DEF Next, Begin, BeginFails, ArchiveUnmodified, ArchiveFails, OpenManifest, NotOneMore,
             OpenManifestFails, WriteManifest, WriteManifestFails, Crash, MarkStable
  <1>2. IInv /\ [Next]_vars
          => [\A v \in Announced \ removed' :
                /\ archive[v] # "torn"
                /\ archive'[v] = archive[v] /\ madeFrom'[v] = madeFrom[v]]_vars
    BY <1>1
  <1>3. Spec => []IInv
    BY Invariance
  <1> QED
    BY <1>2, <1>3, PTL DEF Spec, AnnouncedIsFixed
=============================================================================
