------------------------------ MODULE Updater ------------------------------
(***************************************************************************)
(* Installing a version (mc_updater_do_update in                           *)
(* src/mc_updater/mc_updater.c, with fileData_writeIfChanged and           *)
(* file_delete of src/file_utils.c as on Windows): the files of the target *)
(* directory are deleted, those of the archive are extracted, and then the *)
(* version is recorded in appdata.  Any of the file operations may fail,   *)
(* the updater may die between any two of them, and it is run again, for   *)
(* any version.                                                            *)
(*                                                                         *)
(* A file is open for writing from the step that empties it to the step    *)
(* that has written it all: until then it is torn.                         *)
(***************************************************************************)
EXTENDS Naturals

CONSTANTS TopFile, SubFile, \* names directly in the target directory; below it
          Version,
          Content,          \* what a file may hold
          Archive,          \* version -> file -> its content, or "absent"
          MaxRuns           \* bound: how often the updater is run

File == TopFile \cup SubFile

(* A file has a name and, while it is replaced, a second one for the new   *)
(* content.                                                                *)
Path == File \X {"", ".tmp"}
Held == Content \cup {"none", "torn"}

ASSUME ContentAssumption == "none" \notin Content /\ "torn" \notin Content
ASSUME VersionAssumption == "none" \notin Version /\ "torn" \notin Version
ASSUME MaxRunsAssumption == MaxRuns \in Nat
ASSUME ArchiveAssumption == Archive \in [Version -> [File -> Content \cup {"absent"}]]

VARIABLES
  disk,           \* path -> what it holds, "none" or "torn"
  recorded,       \* the version in appdata, "none" or "torn"
  pc, version,    \* where the updater is, and what it installs
  todo,           \* paths to delete; files to extract
  file, success,  \* the file being written; the result so far
  skipped,        \* files that were passed over in silence
  smooth,         \* nothing has failed in this run
  runs

runVars == <<version, runs>>
vars == <<disk, recorded, pc, runVars, todo, file, success, skipped, smooth>>

Has(v) == {f \in File : Archive[v][f] # "absent"}
Wanted(f) == Archive[version][f]
Plain(f) == <<f, "">>
Temp(f) == <<f, ".tmp">>

TypeOK ==
  /\ disk \in [Path -> Held]
  /\ recorded \in Version \cup {"none", "torn"}
  /\ pc \in {"idle", "clean", "extract", "write", "overwrite", "writetmp", "replace",
             "record", "recording", "over"}
  /\ version \in Version /\ file \in File /\ runs \in 0..MaxRuns
  /\ todo \subseteq Path
  /\ success \in BOOLEAN /\ smooth \in BOOLEAN /\ skipped \subseteq File

Init ==
  /\ disk = [p \in Path |-> "none"] /\ recorded = "none"
  /\ pc = "idle" /\ version \in Version /\ runs = 0
  /\ todo = {} /\ file \in File
  /\ success = FALSE /\ skipped = {} /\ smooth = TRUE

----------------------------------------------------------------------------
(* Faulty variants, here and below: bugs the next definition could have    *)
(* had, and no part of the model.                                          *)
ListsNoTemps == {p \in TopFile \X {""} : disk[p] # "none"}

(* opendir and readdir. *)
Listing == {p \in TopFile \X {"", ".tmp"} : disk[p] # "none"}

(* The target directory exists and the archive can be read: the files in   *)
(* the directory itself are listed.  (When not, nothing is touched.)       *)
Begin(v) ==
  /\ pc \in {"idle", "over"} /\ runs < MaxRuns
  /\ pc' = "clean" /\ version' = v /\ runs' = runs + 1
  /\ todo' = Listing
  /\ success' = FALSE /\ skipped' = {} /\ smooth' = TRUE
  /\ UNCHANGED <<disk, recorded, file>>

Delete(p) ==
  /\ pc = "clean" /\ p \in todo
  /\ disk' = [disk EXCEPT ![p] = "none"]
  /\ todo' = todo \ {p}
  /\ UNCHANGED <<recorded, pc, runVars, file, success, skipped, smooth>>

(* It cannot be read, or not be deleted; the update goes on. *)
DeleteFails(p) ==
  /\ pc = "clean" /\ p \in todo
  /\ todo' = todo \ {p} /\ smooth' = FALSE
  /\ UNCHANGED <<disk, recorded, pc, runVars, file, success, skipped>>

CleanDone ==
  /\ pc = "clean" /\ todo = {}
  /\ pc' = "extract" /\ success' = TRUE
  /\ todo' = {Plain(f) : f \in Has(version)}
  /\ UNCHANGED <<disk, recorded, runVars, file, skipped, smooth>>

----------------------------------------------------------------------------
(* The loop over the files of the archive. *)

Extracting(f) == pc = "extract" /\ Plain(f) \in todo

(* mz_zip_reader_file_stat fails: no error, no file. *)
StatFails(f) ==
  /\ Extracting(f)
  /\ todo' = todo \ {Plain(f)} /\ skipped' = skipped \cup {f} /\ smooth' = FALSE
  /\ UNCHANGED <<disk, recorded, pc, runVars, file, success>>

(* It cannot be extracted, or its file not be opened. *)
ExtractFails(f) ==
  /\ Extracting(f)
  /\ todo' = todo \ {Plain(f)} /\ success' = FALSE /\ smooth' = FALSE
  /\ UNCHANGED <<disk, recorded, pc, runVars, file, skipped>>

Unmodified(f) ==
  /\ Extracting(f) /\ disk[Plain(f)] = Wanted(f)
  /\ todo' = todo \ {Plain(f)}
  /\ UNCHANGED <<disk, recorded, pc, runVars, file, success, skipped, smooth>>

AlwaysPlain(f, readable) == Plain(f)

(* fileData_write goes by the temporary name when the file can be read. *)
Target(f, readable) == IF readable THEN Temp(f) ELSE Plain(f)

(* The file is not what the archive has, or could not be read to compare.  *)
(* One that is there may be beyond reading - held open by a program that   *)
(* writes it, closed to this user - and is then written over in place.     *)
OpenFile(f) ==
  \E readable \in BOOLEAN :
    /\ Extracting(f) /\ (disk[Plain(f)] = Wanted(f) => ~readable)
    /\ readable => disk[Plain(f)] # "none"
    /\ file' = f
    /\ disk' = [disk EXCEPT ![Target(f, readable)] = "torn"]
    /\ \/ readable /\ pc' = "writetmp" /\ UNCHANGED smooth
       \/ disk[Plain(f)] = "none" /\ pc' = "write" /\ UNCHANGED smooth
       \/ ~readable /\ disk[Plain(f)] # "none" /\ pc' = "overwrite" /\ smooth' = FALSE
    /\ UNCHANGED <<recorded, runVars, todo, success, skipped>>

NextFile == pc' = "extract" /\ todo' = todo \ {Plain(file)}

WriteFile ==
  /\ \/ /\ pc \in {"write", "overwrite"}
        /\ disk' = [disk EXCEPT ![Plain(file)] = Wanted(file)] /\ NextFile
     \/ /\ pc = "writetmp" /\ disk' = [disk EXCEPT ![Temp(file)] = Wanted(file)]
        /\ pc' = "replace" /\ UNCHANGED todo
  /\ UNCHANGED <<recorded, runVars, file, success, skipped, smooth>>

(* ReplaceFile *)
Replace ==
  /\ pc = "replace"
  /\ disk' = [disk EXCEPT ![Plain(file)] = disk[Temp(file)], ![Temp(file)] = "none"]
  /\ NextFile
  /\ UNCHANGED <<recorded, runVars, file, success, skipped, smooth>>

FailureIgnored ==
  /\ pc \in {"write", "overwrite", "writetmp", "replace"}
  /\ smooth' = FALSE /\ NextFile
  /\ UNCHANGED <<disk, recorded, runVars, file, success, skipped>>

(* A write or the replacement fails, and leaves what it has made so far. *)
WriteFails ==
  /\ pc \in {"write", "overwrite", "writetmp", "replace"}
  /\ success' = FALSE /\ smooth' = FALSE /\ NextFile
  /\ UNCHANGED <<disk, recorded, runVars, file, skipped>>

----------------------------------------------------------------------------
(* The version is recorded when all went well, by a write in place. *)

ExtractDone ==
  /\ pc = "extract" /\ todo = {}
  /\ pc' = IF success THEN "record" ELSE "over"
  /\ UNCHANGED <<disk, recorded, runVars, todo, file, success, skipped, smooth>>

RecordUnmodified ==
  /\ pc = "record" /\ recorded = version
  /\ pc' = "over"
  /\ UNCHANGED <<disk, recorded, runVars, todo, file, success, skipped, smooth>>

(* It differs, or cannot be read to compare. *)
OpenRecord ==
  /\ pc = "record"
  /\ recorded' = "torn" /\ pc' = "recording"
  /\ smooth' = (smooth /\ recorded # version)
  /\ UNCHANGED <<disk, runVars, todo, file, success, skipped>>

WriteRecord ==
  /\ pc = "recording"
  /\ recorded' = version /\ pc' = "over"
  /\ UNCHANGED <<disk, runVars, todo, file, success, skipped, smooth>>

(* An error is logged; the update is still reported as a success. *)
RecordFails ==
  /\ pc \in {"record", "recording"}
  /\ pc' = "over" /\ smooth' = FALSE
  /\ UNCHANGED <<disk, recorded, runVars, todo, file, success, skipped>>

Crash ==
  /\ pc \notin {"idle", "over"}
  /\ pc' = "idle"
  /\ UNCHANGED <<disk, recorded, runVars, todo, file, success, skipped, smooth>>

----------------------------------------------------------------------------
Extract(f) ==
  StatFails(f) \/ ExtractFails(f) \/ Unmodified(f) \/ OpenFile(f)

Record ==
  ExtractDone \/ RecordUnmodified \/ OpenRecord \/ WriteRecord \/ RecordFails

Next ==
  \/ \E v \in Version : Begin(v)
  \/ \E p \in Path : Delete(p) \/ DeleteFails(p)
  \/ CleanDone
  \/ \E f \in File : Extract(f)
  \/ WriteFile \/ Replace \/ WriteFails
  \/ Record
  \/ Crash

Spec == Init /\ [][Next]_vars

----------------------------------------------------------------------------
(* Properties.                                                             *)

Installed(f) == disk[Plain(f)] = Wanted(f)

(* The version is recorded only when every file of its archive is in place *)
(* and whole - those excepted that the archive would not tell about, which *)
(* do not count as an error (mc_updater.c:101) - whatever failed or died   *)
(* in this run and the ones before.                                        *)
RecordedWhenInstalled ==
  [][recorded' # recorded /\ recorded' \in Version =>
       \A f \in Has(recorded') \ skipped : disk[Plain(f)] = Archive[recorded'][f]]_vars

(* No whole file is torn, not even by a crash, as long as it can be read:  *)
(* one that could not be deleted is replaced by way of its temporary name. *)
(* Only a file that is there but not readable (file_utils.c:61) is written *)
(* over in place.                                                          *)
WholeFilesStayWhole ==
  [][\A f \in File : disk[Plain(f)] \in Content /\ disk'[Plain(f)] = "torn" =>
       pc' = "overwrite" /\ file' = f]_vars

(* A run in which nothing fails repairs what the failed and broken runs    *)
(* before it have left: all files of the archive are there and, in the     *)
(* directory itself, no other file; and the version is recorded.           *)
SmoothRunInstalls ==
  /\ TypeOK
  /\ pc = "over" /\ smooth =>
       /\ success /\ recorded = version
       /\ \A f \in Has(version) : Installed(f)
       /\ \A f \in TopFile : /\ disk[Temp(f)] = "none"
                             /\ f \notin Has(version) => disk[Plain(f)] = "none"
=============================================================================
