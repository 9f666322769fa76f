--------------------------- MODULE UpdaterProofs ---------------------------
(* The proofs about installing a version, for any files, versions and      *)
(* archives, and any number of runs that fail or die anywhere.             *)
EXTENDS Updater, TLAPS

Writing == {"write", "overwrite", "writetmp", "replace"}
InLoop == pc \in {"extract"} \cup Writing

(* What is to extract is in the archive, the file that is being written is *)
(* still to extract, and what replaces it is whole.                        *)
BeingWritten ==
  /\ InLoop => \A f \in File : Plain(f) \in todo => f \in Has(version)
  /\ pc \in Writing => file \in Has(version) /\ Plain(file) \in todo
  /\ pc = "replace" => disk[Temp(file)] = Wanted(file)

(* While nothing has gone wrong that counts, what is no longer to extract  *)
(* is in place; and so it is when the version is recorded.                 *)
InPlace ==
  /\ InLoop /\ success =>
       \A f \in Has(version) \ skipped : Plain(f) \in todo \/ Installed(f)
  /\ pc \in {"record", "recording"} => \A f \in Has(version) \ skipped : Installed(f)

(* While nothing has failed at all, the directory is empty but for what is *)
(* still to delete, then but for what was extracted.                       *)
Clean ==
  smooth =>
    /\ pc = "clean" =>
         \A f \in TopFile : /\ Plain(f) \in todo \/ disk[Plain(f)] = "none"
                            /\ Temp(f) \in todo \/ disk[Temp(f)] = "none"
    /\ InLoop \/ pc \in {"record", "recording", "over"} =>
         /\ success
         /\ \A f \in TopFile : /\ disk[Temp(f)] = "none"
                               /\ f \notin Has(version) => disk[Plain(f)] = "none"
    /\ InLoop => \A f \in TopFile :
         Plain(f) \in todo /\ ~(pc = "write" /\ f = file) => disk[Plain(f)] = "none"
    /\ pc \in {"writetmp", "replace"} => file \notin TopFile
    /\ pc # "idle" => skipped = {}
    /\ pc = "over" => recorded = version /\ \A f \in Has(version) : Installed(f)

IInv == TypeOK /\ BeingWritten /\ InPlace /\ Clean

----------------------------------------------------------------------------
LEMMA Paths ==
  ASSUME NEW f \in File
  PROVE  /\ Plain(f) \in Path /\ Temp(f) \in Path /\ Plain(f) # Temp(f)
         /\ \A g \in File : /\ Plain(f) = Plain(g) => f = g
                            /\ Temp(f) = Temp(g) => f = g
                            /\ Plain(f) # Temp(g)
  BY DEF Path, Plain, Temp

LEMMA WantedIsContent ==
  ASSUME TypeOK, NEW f \in Has(version)
  PROVE  f \in File /\ Wanted(f) \in Content
  BY ArchiveAssumption DEF TypeOK, Has, Wanted

LEMMA InitIInv == Init => IInv
  <1> SUFFICES ASSUME Init PROVE IInv
    OBVIOUS
  <1>1. TypeOK
    <2>1. /\ disk \in [Path -> Held] /\ todo \subseteq Path /\ runs \in 0..MaxRuns
          /\ skipped \subseteq File
      BY MaxRunsAssumption DEF Init, Held
    <2> QED
      BY <2>1 DEF Init, TypeOK
  <1>2. pc = "idle"
    BY DEF Init
  <1> QED
    BY <1>1, <1>2 DEF IInv, BeingWritten, Writing, InPlace, InLoop, Clean

LEMMA StepType == TypeOK /\ BeingWritten /\ [Next]_vars => TypeOK'
  <1> SUFFICES ASSUME TypeOK, BeingWritten, [Next]_vars PROVE TypeOK'
    OBVIOUS
  <1>1. ASSUME NEW v \in Version, Begin(v) PROVE TypeOK'
    <2>1. Listing \subseteq Path
      BY DEF Listing, Path, File
    <2>2. runs' \in 0..MaxRuns
      BY <1>1, MaxRunsAssumption DEF Begin, TypeOK
    <2>3. /\ pc' = "clean" /\ version' = v /\ todo' = Listing /\ success' = FALSE
          /\ skipped' = {} /\ smooth' = TRUE /\ UNCHANGED <<disk, recorded, file>>
      BY <1>1 DEF Begin
    <2> QED
      BY <2>1, <2>2, <2>3, Zenon DEF TypeOK
  <1>2. ASSUME NEW p \in Path, Delete(p) \/ DeleteFails(p) PROVE TypeOK'
    BY <1>2 DEF Delete, DeleteFails, TypeOK, runVars, Held
  <1>3. CASE CleanDone
    <2>1. {Plain(f) : f \in Has(version)} \subseteq Path
      BY Paths DEF Has
    <2> QED
      BY <1>3, <2>1 DEF CleanDone, TypeOK, runVars
  <1>4. ASSUME NEW f \in File, Extract(f) PROVE TypeOK'
    <2>1. \A readable \in BOOLEAN : Target(f, readable) \in Path
      BY Paths DEF Target
    <2> QED
      BY <1>4, <2>1 DEF Extract, StatFails, ExtractFails, Unmodified, OpenFile, TypeOK, runVars, Held
  <1>5. CASE WriteFile
    <2>1. Wanted(file) \in Held /\ Plain(file) \in Path /\ Temp(file) \in Path
      BY <1>5, WantedIsContent, Paths DEF WriteFile, BeingWritten, Writing, Held, TypeOK
    <2> QED
      BY <1>5, <2>1 DEF WriteFile, NextFile, TypeOK, runVars
  <1>6. CASE Replace
    <2>1. Plain(file) \in Path /\ Temp(file) \in Path
      BY Paths DEF TypeOK
    <2> QED
      BY <1>6, <2>1 DEF Replace, NextFile, TypeOK, runVars, Held
  <1>7. CASE WriteFails
    BY <1>7 DEF WriteFails, NextFile, TypeOK, runVars
  <1>8. CASE Record
    BY <1>8 DEF Record, ExtractDone, RecordUnmodified, OpenRecord, WriteRecord, RecordFails,
                TypeOK, runVars
  <1>9. CASE Crash
    BY <1>9 DEF Crash, TypeOK, runVars
  <1>10. CASE UNCHANGED vars
    BY <1>10 DEF vars, TypeOK, runVars
  <1> QED
    BY <1>1, <1>2, <1>3, <1>4, <1>5, <1>6, <1>7, <1>8, <1>9, <1>10 DEF Next

(* Cleaning up, and beginning the loop over the archive. *)
LEMMA CleaningKeeps ==
  ASSUME IInv, TypeOK',
         \/ \E v \in Version : Begin(v)
         \/ \E p \in Path : Delete(p) \/ DeleteFails(p)
         \/ CleanDone
  PROVE  IInv'
  <1>1. ASSUME NEW v \in Version, Begin(v) PROVE IInv'
    <2>1. \A f \in TopFile : /\ Plain(f) \in Listing \/ disk[Plain(f)] = "none"
                             /\ Temp(f) \in Listing \/ disk[Temp(f)] = "none"
      BY DEF Listing, Plain, Temp
    <2> QED
      BY <1>1, <2>1 DEF Begin, IInv, BeingWritten, Writing, InPlace, InLoop, Clean
  <1>2. ASSUME NEW p \in Path, Delete(p) PROVE IInv'
    <2>1. /\ pc = "clean" /\ pc' = "clean" /\ UNCHANGED <<version, skipped, smooth>>
          /\ disk' = [disk EXCEPT ![p] = "none"] /\ todo' = todo \ {p}
          /\ disk \in [Path -> Held]
      BY <1>2 DEF Delete, runVars, IInv, TypeOK
    <2>2. \A q \in Path : disk'[q] = IF q = p THEN "none" ELSE disk[q]
      BY <2>1
    <2>3. Clean'
      <3> SUFFICES ASSUME smooth, NEW f \in TopFile
                   PROVE  /\ Plain(f) \in todo' \/ disk'[Plain(f)] = "none"
                          /\ Temp(f) \in todo' \/ disk'[Temp(f)] = "none"
        BY <2>1 DEF Clean, InLoop, Writing, IInv
      <3>1. Plain(f) \in Path /\ Temp(f) \in Path
        BY Paths DEF File
      <3> QED
        BY <2>1, <2>2, <3>1 DEF IInv, Clean
    <2> QED
      BY <2>1, <2>3 DEF IInv, BeingWritten, Writing, InPlace, InLoop
  <1>3. ASSUME NEW p \in Path, DeleteFails(p) PROVE IInv'
    BY <1>3 DEF DeleteFails, IInv, BeingWritten, Writing, InPlace, InLoop, Clean
  <1>4. CASE CleanDone
    <2>1. /\ pc = "clean" /\ pc' = "extract" /\ success' = TRUE
          /\ todo = {} /\ todo' = {Plain(f) : f \in Has(version)}
          /\ UNCHANGED <<disk, version, skipped, smooth>>
      BY <1>4 DEF CleanDone, runVars
    <2>2. InPlace'
      BY <2>1 DEF InPlace, InLoop, Writing, Has
    <2>3. Clean'
      BY <2>1 DEF IInv, Clean, InLoop, Writing
    <2>4. BeingWritten'
      <3>1. \A f \in File : Plain(f) \in todo' => f \in Has(version)
        BY <2>1 DEF Plain
      <3> QED
        BY <2>1, <3>1 DEF BeingWritten, Writing, Has
    <2> QED
      BY <2>2, <2>3, <2>4 DEF IInv
  <1> QED
    BY <1>1, <1>2, <1>3, <1>4

(* One file of the archive is passed over, or found to be there.           *)
LEMMA PassedOverKeeps ==
  ASSUME IInv, TypeOK', NEW f \in File, StatFails(f) \/ ExtractFails(f) \/ Unmodified(f)
  PROVE  IInv'
  <1>1. /\ pc = "extract" /\ pc' = "extract" /\ todo' = todo \ {Plain(f)}
        /\ UNCHANGED <<disk, version, recorded, file>>
        /\ smooth' => smooth /\ success' = success /\ skipped' = skipped /\ Installed(f)
        /\ success' => success
        /\ skipped \subseteq skipped' /\ (f \in skipped' \/ ~success' \/ Installed(f))
    BY DEF StatFails, ExtractFails, Unmodified, Extracting, runVars, Installed
  <1>2. InPlace'
    <2> SUFFICES ASSUME success', NEW g \in Has(version) \ skipped'
                 PROVE  Plain(g) \in todo' \/ Installed(g)
      BY <1>1 DEF InPlace, InLoop, Writing, Has, Installed, Wanted
    <2>1. Plain(g) \in todo \/ Installed(g)
      BY <1>1 DEF IInv, InPlace, InLoop
    <2>2. Plain(g) = Plain(f) => g = f
      BY DEF Plain
    <2> QED
      BY <1>1, <2>1, <2>2
  <1>3. Clean'
    BY <1>1 DEF IInv, Clean, InLoop, Writing, Has
  <1>4. BeingWritten'
    BY <1>1 DEF IInv, BeingWritten, InLoop, Writing, Has
  <1> QED
    BY <1>2, <1>3, <1>4 DEF IInv

(* The file is opened, which tears it or the one that will replace it.     *)
LEMMA OpenKeeps ==
  ASSUME IInv, TypeOK', NEW f \in File, OpenFile(f)
  PROVE  IInv'
  <1>1. PICK readable \in BOOLEAN :
          /\ readable => disk[Plain(f)] # "none"
          /\ disk' = [disk EXCEPT ![Target(f, readable)] = "torn"]
          /\ \/ readable /\ pc' = "writetmp" /\ smooth' = smooth
             \/ disk[Plain(f)] = "none" /\ pc' = "write" /\ smooth' = smooth
             \/ ~readable /\ disk[Plain(f)] # "none" /\ pc' = "overwrite" /\ smooth' = FALSE
    BY DEF OpenFile
  <1>2. /\ pc = "extract" /\ Plain(f) \in todo /\ file' = f
        /\ UNCHANGED <<version, recorded, todo, success, skipped>>
        /\ disk \in [Path -> Held] /\ f \in Has(version)
    BY DEF OpenFile, Extracting, runVars, IInv, TypeOK, BeingWritten, InLoop
  <1>3. \A g \in File : /\ Plain(g) \in Path /\ Temp(g) \in Path
                        /\ g # f => disk'[Plain(g)] = disk[Plain(g)] /\ disk'[Temp(g)] = disk[Temp(g)]
    BY <1>1, <1>2, Paths DEF Target
  <1>4. \/ /\ disk[Plain(f)] = "none" /\ pc' = "write" /\ smooth' = smooth
           /\ disk'[Temp(f)] = disk[Temp(f)]
        \/ disk[Plain(f)] # "none" /\ pc' = "writetmp" /\ smooth' = smooth
        \/ pc' = "overwrite" /\ smooth' = FALSE
    BY <1>1, <1>2, Paths DEF Target
  <1>5. BeingWritten'
    BY <1>2, <1>4 DEF IInv, BeingWritten, Writing, InLoop, Has
  <1>6. InPlace'
    <2> SUFFICES ASSUME success, NEW g \in Has(version) \ skipped
                 PROVE  Plain(g) \in todo \/ disk'[Plain(g)] = Wanted(g)
      BY <1>2, <1>4 DEF InPlace, InLoop, Writing, Has, Installed, Wanted
    <2>1. g \in File /\ (Plain(g) \in todo \/ disk[Plain(g)] = Wanted(g))
      BY <1>2 DEF IInv, InPlace, InLoop, Has, Installed
    <2> QED
      BY <1>2, <1>3, <2>1
  <1>7. Clean'
    <2> SUFFICES ASSUME smooth, smooth', pc' # "overwrite"
                 PROVE  /\ success
                        /\ \A g \in TopFile :
                             /\ disk'[Temp(g)] = "none"
                             /\ g \notin Has(version) => disk'[Plain(g)] = "none"
                             /\ Plain(g) \in todo /\ ~(pc' = "write" /\ g = f)
                                  => disk'[Plain(g)] = "none"
                        /\ pc' = "writetmp" => f \notin TopFile
                        /\ skipped = {}
      BY <1>2, <1>4 DEF Clean, InLoop, Writing, Has
    <2>1. /\ success /\ skipped = {}
          /\ \A g \in TopFile : /\ g \in File /\ disk[Temp(g)] = "none"
                                /\ g \notin Has(version) => disk[Plain(g)] = "none"
                                /\ Plain(g) \in todo => disk[Plain(g)] = "none"
      BY <1>2 DEF IInv, Clean, InLoop, File
    <2>2. f \in TopFile => disk[Plain(f)] = "none"
      BY <1>2, <2>1
    <2> QED
      BY <1>2, <1>3, <1>4, <2>1, <2>2
  <1> QED
    BY <1>5, <1>6, <1>7 DEF IInv

(* What is known while the loop writes a file. *)
LEMMA WhileWriting ==
  ASSUME IInv, pc \in Writing
  PROVE  /\ file \in Has(version) /\ file \in File /\ Wanted(file) \in Content
         /\ Plain(file) \in todo /\ Plain(file) \in Path /\ Temp(file) \in Path
         /\ Plain(file) # Temp(file) /\ disk \in [Path -> Held]
  <1>1. file \in Has(version) /\ Plain(file) \in todo /\ file \in File
    BY DEF IInv, BeingWritten, TypeOK
  <1> QED
    BY <1>1, WantedIsContent, Paths DEF IInv, TypeOK

(* The loop goes on to the next file: this one is in place, or an error.   *)
LEMMA NextFileKeeps ==
  ASSUME IInv, TypeOK', pc \in Writing, NextFile, UNCHANGED <<version, recorded, file, skipped>>,
         smooth' => smooth /\ success' = success /\ disk'[Plain(file)] = Wanted(file)
                    /\ (file \in TopFile => disk'[Temp(file)] = "none"),
         success' => success /\ disk'[Plain(file)] = Wanted(file),
         \A g \in File \ {file} : /\ disk'[Plain(g)] = disk[Plain(g)]
                                 /\ disk'[Temp(g)] = disk[Temp(g)]
  PROVE  IInv'
  <1>1. pc' = "extract" /\ todo' = todo \ {Plain(file)}
    BY DEF NextFile
  <1>2. BeingWritten'
    BY <1>1 DEF IInv, BeingWritten, InLoop, Writing, Has
  <1>3. InPlace'
    <2> SUFFICES ASSUME success', NEW g \in Has(version) \ skipped
                 PROVE  Plain(g) \in todo' \/ disk'[Plain(g)] = Wanted(g)
      BY <1>1 DEF InPlace, InLoop, Writing, Has, Installed, Wanted
    <2>1. g \in File /\ (Plain(g) \in todo \/ disk[Plain(g)] = Wanted(g))
      BY DEF IInv, InPlace, InLoop, Has, Installed
    <2>2. CASE g = file
      BY <2>2
    <2>3. CASE g # file
      <3>1. disk'[Plain(g)] = disk[Plain(g)]
        BY <2>1, <2>3
      <3>2. Plain(g) # Plain(file)
        BY <2>3 DEF Plain
      <3> QED
        BY <1>1, <2>1, <3>1, <3>2
    <2> QED
      BY <2>2, <2>3
  <1>4. Clean'
    <2> SUFFICES ASSUME smooth'
                 PROVE  /\ success'
                        /\ \A g \in TopFile :
                             /\ disk'[Temp(g)] = "none"
                             /\ g \notin Has(version) => disk'[Plain(g)] = "none"
                             /\ Plain(g) \in todo' => disk'[Plain(g)] = "none"
                        /\ skipped = {}
      BY <1>1 DEF Clean, InLoop, Writing, Has
    <2>1. /\ success /\ skipped = {}
          /\ \A g \in TopFile : /\ g \in File /\ disk[Temp(g)] = "none"
                                /\ g \notin Has(version) => disk[Plain(g)] = "none"
                                /\ Plain(g) \in todo /\ g # file => disk[Plain(g)] = "none"
      BY DEF IInv, Clean, InLoop, Writing, File
    <2>2. ASSUME NEW g \in TopFile
          PROVE  /\ disk'[Temp(g)] = "none"
                 /\ g \notin Has(version) => disk'[Plain(g)] = "none"
                 /\ Plain(g) \in todo' => disk'[Plain(g)] = "none"
      <3>1. CASE g = file
        BY <1>1, <3>1, WhileWriting
      <3>2. CASE g # file
        BY <1>1, <2>1, <3>2
      <3> QED
        BY <3>1, <3>2
    <2> QED
      BY <2>1, <2>2
  <1> QED
    BY <1>2, <1>3, <1>4 DEF IInv

LEMMA WritingKeeps ==
  ASSUME IInv, TypeOK', WriteFile \/ Replace \/ WriteFails
  PROVE  IInv'
  <1>1. CASE pc \in {"write", "overwrite"} /\ WriteFile
    <2>1. /\ disk' = [disk EXCEPT ![Plain(file)] = Wanted(file)] /\ NextFile
          /\ UNCHANGED <<version, recorded, file, success, skipped, smooth>>
      BY <1>1 DEF WriteFile, runVars
    <2>2. /\ disk'[Plain(file)] = Wanted(file) /\ disk'[Temp(file)] = disk[Temp(file)]
          /\ \A g \in File \ {file} : /\ disk'[Plain(g)] = disk[Plain(g)]
                                      /\ disk'[Temp(g)] = disk[Temp(g)]
      <3>1. pc \in Writing
        BY <1>1 DEF Writing
      <3>2. disk \in [Path -> Held] /\ Plain(file) \in Path /\ Temp(file) \in Path
        BY <3>1, WhileWriting
      <3>3. \A q \in Path : disk'[q] = IF q = Plain(file) THEN Wanted(file) ELSE disk[q]
        BY <2>1, <3>2
      <3>4. ASSUME NEW g \in File \ {file}
            PROVE  /\ disk'[Plain(g)] = disk[Plain(g)]
                   /\ disk'[Temp(g)] = disk[Temp(g)]
        <4>1. /\ Plain(g) \in Path /\ Plain(g) # Plain(file) /\ Plain(g) # Temp(file)
              /\ Temp(g) \in Path /\ Temp(g) # Plain(file) /\ Temp(g) # Temp(file)
          BY Paths DEF Plain, Temp
        <4> QED
          BY <3>3, <4>1
      <3>5. Plain(file) # Temp(file)
        BY DEF Plain, Temp
      <3> QED
        BY <3>2, <3>3, <3>4, <3>5
    <2>3. smooth /\ file \in TopFile => disk[Temp(file)] = "none"
      BY <1>1 DEF IInv, Clean, InLoop, Writing
    <2> QED
      BY <1>1, <2>1, <2>2, <2>3, NextFileKeeps DEF Writing
  <1>2. CASE pc = "writetmp" /\ WriteFile
    <2>1. /\ disk' = [disk EXCEPT ![Temp(file)] = Wanted(file)] /\ pc' = "replace"
          /\ UNCHANGED <<version, recorded, file, todo, success, skipped, smooth>>
      BY <1>2 DEF WriteFile, runVars
    <2>2. /\ disk'[Temp(file)] = Wanted(file) /\ disk'[Plain(file)] = disk[Plain(file)]
          /\ \A g \in File \ {file} : /\ disk'[Plain(g)] = disk[Plain(g)]
                                      /\ disk'[Temp(g)] = disk[Temp(g)]
      <3>1. pc \in Writing
        BY <1>2 DEF Writing
      <3>2. disk \in [Path -> Held] /\ Plain(file) \in Path /\ Temp(file) \in Path
        BY <3>1, WhileWriting
      <3>3. \A q \in Path : disk'[q] = IF q = Temp(file) THEN Wanted(file) ELSE disk[q]
        BY <2>1, <3>2
      <3>4. ASSUME NEW g \in File \ {file}
            PROVE  /\ disk'[Plain(g)] = disk[Plain(g)]
                   /\ disk'[Temp(g)] = disk[Temp(g)]
        <4>1. /\ Plain(g) \in Path /\ Plain(g) # Plain(file) /\ Plain(g) # Temp(file)
              /\ Temp(g) \in Path /\ Temp(g) # Plain(file) /\ Temp(g) # Temp(file)
          BY Paths DEF Plain, Temp
        <4> QED
          BY <3>3, <4>1
      <3>5. Plain(file) # Temp(file)
        BY DEF Plain, Temp
      <3> QED
        BY <3>2, <3>3, <3>4, <3>5
    <2>3. BeingWritten'
      BY <1>2, <2>1, <2>2 DEF IInv, BeingWritten, InLoop, Writing, Has, Wanted
    <2>4. \A g \in File : disk'[Plain(g)] = disk[Plain(g)]
      BY <2>2
    <2>5. InPlace'
      <3> SUFFICES ASSUME success, NEW g \in Has(version) \ skipped
                   PROVE  Plain(g) \in todo \/ disk'[Plain(g)] = Wanted(g)
        BY <2>1 DEF InPlace, InLoop, Writing, Has, Installed, Wanted
      <3>1. g \in File /\ (Plain(g) \in todo \/ disk[Plain(g)] = Wanted(g))
        BY <1>2 DEF IInv, InPlace, InLoop, Writing, Has, Installed
      <3> QED
        BY <2>4, <3>1
    <2>6. Clean'
      <3> SUFFICES ASSUME smooth
                   PROVE  /\ success /\ skipped = {} /\ file \notin TopFile
                          /\ \A g \in TopFile :
                               /\ disk'[Temp(g)] = "none"
                               /\ g \notin Has(version) => disk'[Plain(g)] = "none"
                               /\ Plain(g) \in todo => disk'[Plain(g)] = "none"
        BY <2>1 DEF Clean, InLoop, Writing, Has
      <3>1. /\ success /\ skipped = {} /\ file \notin TopFile
            /\ \A g \in TopFile : /\ g \in File /\ disk[Temp(g)] = "none"
                                  /\ g \notin Has(version) => disk[Plain(g)] = "none"
                                  /\ Plain(g) \in todo => disk[Plain(g)] = "none"
        BY <1>2 DEF IInv, Clean, InLoop, Writing, File
      <3> QED
        BY <2>2, <2>4, <3>1
    <2> QED
      BY <2>3, <2>5, <2>6 DEF IInv
  <1>3. CASE Replace
    <2>1. /\ pc = "replace" /\ NextFile
          /\ disk' = [disk EXCEPT ![Plain(file)] = disk[Temp(file)], ![Temp(file)] = "none"]
          /\ UNCHANGED <<version, recorded, file, success, skipped, smooth>>
      BY <1>3 DEF Replace, runVars
    <2>2. disk[Temp(file)] = Wanted(file)
      BY <2>1 DEF IInv, BeingWritten
    <2>3. /\ disk'[Plain(file)] = Wanted(file) /\ disk'[Temp(file)] = "none"
          /\ \A g \in File \ {file} : /\ disk'[Plain(g)] = disk[Plain(g)]
                                      /\ disk'[Temp(g)] = disk[Temp(g)]
      <3>1. pc \in Writing
        BY <2>1 DEF Writing
      <3>2. disk \in [Path -> Held] /\ Plain(file) \in Path /\ Temp(file) \in Path
        BY <3>1, WhileWriting
      <3>3. \A q \in Path : disk'[q] = IF q = Temp(file) THEN "none"
                                     ELSE IF q = Plain(file) THEN Wanted(file)
                                     ELSE disk[q]
        BY <2>1, <2>2, <3>2
      <3>4. ASSUME NEW g \in File \ {file}
            PROVE  /\ disk'[Plain(g)] = disk[Plain(g)]
                   /\ disk'[Temp(g)] = disk[Temp(g)]
        <4>1. /\ Plain(g) \in Path /\ Plain(g) # Plain(file) /\ Plain(g) # Temp(file)
              /\ Temp(g) \in Path /\ Temp(g) # Plain(file) /\ Temp(g) # Temp(file)
          BY Paths DEF Plain, Temp
        <4> QED
          BY <3>3, <4>1
      <3>5. Plain(file) # Temp(file)
        BY DEF Plain, Temp
      <3> QED
        BY <3>2, <3>3, <3>4, <3>5
    <2> QED
      BY <2>1, <2>3, NextFileKeeps DEF Writing
  <1>4. CASE WriteFails
    <2>1. /\ pc \in Writing /\ NextFile /\ ~success' /\ ~smooth'
          /\ UNCHANGED <<disk, version, recorded, file, skipped>>
      BY <1>4 DEF WriteFails, Writing, runVars
    <2> QED
      BY <2>1, NextFileKeeps
  <1> QED
    BY <1>1, <1>2, <1>3, <1>4 DEF WriteFile

LEMMA RecordKeeps ==
  ASSUME IInv, TypeOK', Record \/ Crash
  PROVE  IInv'
  <1>1. CASE ExtractDone
    <2>1. /\ pc = "extract" /\ todo = {} /\ pc' = IF success THEN "record" ELSE "over"
          /\ UNCHANGED <<disk, recorded, version, todo, file, success, skipped, smooth>>
      BY <1>1 DEF ExtractDone, runVars
    <2>2. InPlace'
      BY <2>1 DEF IInv, InPlace, InLoop, Writing, Has, Installed, Wanted
    <2>3. Clean'
      BY <2>1 DEF IInv, Clean, InLoop, Writing, Has
    <2> QED
      BY <2>1, <2>2, <2>3 DEF IInv, BeingWritten, InLoop, Writing
  <1>2. CASE RecordUnmodified \/ OpenRecord \/ WriteRecord \/ RecordFails
    <2>1. /\ pc \in {"record", "recording"} /\ pc' \in {"recording", "over"}
          /\ UNCHANGED <<disk, version, todo, file, success, skipped>>
          /\ smooth' => smooth
          /\ smooth' /\ pc' = "over" => recorded' = version
      <3>1. CASE OpenRecord
        <4>1. smooth' = (smooth /\ recorded # version)
          BY <3>1 DEF OpenRecord
        <4>2. smooth' => smooth
          BY <4>1, Zenon
        <4> QED
          BY <3>1, <4>2 DEF OpenRecord, runVars
      <3>2. CASE RecordUnmodified \/ WriteRecord \/ RecordFails
        BY <3>2 DEF RecordUnmodified, WriteRecord, RecordFails, runVars
      <3> QED
        BY <1>2, <3>1, <3>2
    <2>2. InPlace'
      BY <2>1 DEF IInv, InPlace, InLoop, Writing, Has, Installed, Wanted
    <2>3. Clean'
      BY <2>1 DEF IInv, InPlace, Clean, InLoop, Writing, Has, Installed, Wanted
    <2> QED
      BY <2>1, <2>2, <2>3 DEF IInv, BeingWritten, InLoop, Writing
  <1>3. CASE Crash
    BY <1>3 DEF Crash, runVars, IInv, BeingWritten, InPlace, Clean, InLoop, Writing
  <1> QED
    BY <1>1, <1>2, <1>3 DEF Record

LEMMA StepIInv == IInv /\ [Next]_vars => IInv'
  <1> SUFFICES ASSUME IInv, [Next]_vars PROVE IInv'
    OBVIOUS
  <1>1. TypeOK'
    BY StepType DEF IInv
  <1>2. CASE UNCHANGED vars
    BY <1>1, <1>2 DEF vars, runVars, IInv, BeingWritten, InPlace, Clean, InLoop, Writing, Has,
                      Installed, Wanted
  <1>3. ASSUME NEW f \in File, Extract(f) PROVE IInv'
    BY <1>1, <1>3, PassedOverKeeps, OpenKeeps DEF Extract
  <1> QED
    BY <1>1, <1>2, <1>3, CleaningKeeps, WritingKeeps, RecordKeeps DEF Next

----------------------------------------------------------------------------
(* The invariant of the updater holds whatever fails or dies.              *)
THEOREM Invariance == Spec => []IInv
  BY InitIInv, StepIInv, PTL DEF Spec

(* A run in which nothing fails installs all of the archive and nothing    *)
(* else, whatever earlier runs have left (mc_updater_do_update).           *)
THEOREM SmoothRunAlwaysInstalls == Spec => []SmoothRunInstalls
  <1>1. IInv => SmoothRunInstalls
    BY DEF IInv, Clean, SmoothRunInstalls
  <1> QED
    BY <1>1, Invariance, PTL

(* The version is recorded only when its files are in place.               *)
THEOREM AlwaysRecordedWhenInstalled == Spec => RecordedWhenInstalled
  <1>1. ASSUME IInv, Next, recorded' # recorded, recorded' \in Version,
               NEW f \in Has(recorded') \ skipped
        PROVE  disk[Plain(f)] = Archive[recorded'][f]
    <2>1. pc = "recording" /\ recorded' = version
      BY <1>1, VersionAssumption
         DEF Next, Begin, Delete, DeleteFails, CleanDone, Extract, StatFails, ExtractFails,
             Unmodified, OpenFile, WriteFile, Replace, WriteFails, Record, ExtractDone,
             RecordUnmodified, OpenRecord, WriteRecord, RecordFails, Crash
    <2> QED
      BY <1>1, <2>1 DEF IInv, InPlace, Installed, Wanted
  <1>2. IInv /\ [Next]_vars
          => [recorded' # recorded /\ recorded' \in Version =>
                \A f \in Has(recorded') \ skipped :
                  disk[Plain(f)] = Archive[recorded'][f]]_vars
    BY <1>1
  <1> QED
    BY <1>2, Invariance, PTL DEF Spec, RecordedWhenInstalled

(* No whole file is torn but one that cannot be read                       *)
(* (fileData_writeIfChanged, fileData_write).                              *)
THEOREM WholeFilesAlwaysStayWhole == Spec => WholeFilesStayWhole
  <1>1. ASSUME IInv, Next, NEW f \in File, disk[Plain(f)] \in Content,
               disk'[Plain(f)] = "torn"
        PROVE  pc' = "overwrite" /\ file' = f
    <2>1. /\ disk[Plain(f)] # "torn" /\ disk[Plain(f)] # "none" /\ Plain(f) \in Path
          /\ disk \in [Path -> Held]
      BY <1>1, ContentAssumption, Paths DEF IInv, TypeOK
    <2>2. ASSUME NEW p \in Path, Delete(p) PROVE FALSE
      BY <1>1, <2>1, <2>2 DEF Delete
    <2>3. ASSUME NEW g \in File, OpenFile(g) PROVE pc' = "overwrite" /\ file' = f
      <3>1. PICK readable \in BOOLEAN :
              /\ disk' = [disk EXCEPT ![Target(g, readable)] = "torn"]
              /\ readable \/ disk[Plain(g)] = "none" \/ pc' = "overwrite"
              /\ file' = g
        BY <2>3 DEF OpenFile
      <3>2. Target(g, readable) = Plain(f)
        BY <1>1, <2>1, <3>1
      <3>3. g = f /\ ~readable
        BY <3>2, Paths DEF Target
      <3> QED
        BY <2>1, <3>1, <3>3
    <2>4. CASE WriteFile \/ Replace
      <3>1. pc \in Writing
        BY <2>4 DEF WriteFile, Replace, Writing
      <3>2. Wanted(file) # "torn" /\ "none" # "torn" /\ (pc = "replace" => disk[Temp(file)] = Wanted(file))
        BY <1>1, <3>1, WhileWriting, ContentAssumption DEF IInv, BeingWritten
      <3>3. disk'[Plain(f)] # "torn"
        BY <1>1, <2>1, <2>4, <3>1, <3>2, WhileWriting DEF WriteFile, Replace
      <3> QED
        BY <1>1, <3>3
    <2>5. CASE UNCHANGED disk
      BY <1>1, <2>1, <2>5
    <2> QED
      BY <1>1, <2>2, <2>3, <2>4, <2>5
         DEF Next, Begin, DeleteFails, CleanDone, Extract, StatFails, ExtractFails, Unmodified,
             WriteFails, Record, ExtractDone, RecordUnmodified, OpenRecord, WriteRecord,
             RecordFails, Crash
  <1>2. IInv /\ [Next]_vars
          => [\A f \in File : disk[Plain(f)] \in Content /\ disk'[Plain(f)] = "torn" =>
                pc' = "overwrite" /\ file' = f]_vars
    BY <1>1
  <1> QED
    BY <1>2, Invariance, PTL DEF Spec, WholeFilesStayWhole
=============================================================================
