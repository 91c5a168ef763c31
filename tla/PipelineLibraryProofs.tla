----------------------- MODULE PipelineLibraryProofs ------------------------
(***************************************************************************)
(* The download pipeline implements TaskLibrary, for every number of sets, *)
(* pages and crashes and every interleaving, as long as no two sets share  *)
(* a folder and the user neither removes files nor declares a set finished *)
(* (KeepsFiles).  That the rows are true after the step as before it, and  *)
(* not only what the step does, makes a finished entry right.              *)
(***************************************************************************)
EXTENDS PipelineFilesProofs

-----------------------------------------------------------------------------
(* What a step may do to the rows.                                         *)

(* The statements sent to the database leave a missing row missing; only   *)
(* insertTable brings one, and it is new.                                  *)
LEMMA StatementsBringNoneBack ==
    ASSUME NEW tbl \in Table
    PROVE  /\ \A u \in Tasks : NoneComesBack(tbl, Insert(tbl, u))
           /\ \A u \in Tasks : \A w : NoneComesBack(tbl, Update(tbl, u, w))
           /\ \A u \in Tasks : \A s :
                 NoneComesBack(tbl, UpdateStatus(tbl, u, s))
           /\ \A S \in SUBSET Tasks : NoneComesBack(tbl, Delete(tbl, S))
           /\ NoneComesBack(tbl, ResetHalfWorking(tbl))
           /\ NoneComesBack(tbl, ResetToZero(tbl))
<1> USE DEF NoneComesBack, Has
<1>1. \A u \in Tasks : NoneComesBack(tbl, Insert(tbl, u))
  BY DEF Insert, Table
<1>2. \A u \in Tasks : \A w : NoneComesBack(tbl, Update(tbl, u, w))
  BY DEF Update, Table
<1>3. \A u \in Tasks : \A s :
         NoneComesBack(tbl, UpdateStatus(tbl, u, s))
  BY DEF UpdateStatus, Table
<1>4. \A S \in SUBSET Tasks : NoneComesBack(tbl, Delete(tbl, S))
  BY DEF Delete, NoRow
<1>5. NoneComesBack(tbl, ResetHalfWorking(tbl))
  BY DEF ResetHalfWorking, Absent, Normal, StartScane, FinishScane
<1>6. NoneComesBack(tbl, ResetToZero(tbl))
  BY DEF ResetToZero, Absent, FinishDownload
<1> QED
  BY <1>1, <1>2, <1>3, <1>4, <1>5, <1>6

(* No instruction of a thread brings a row back.                           *)
LEMMA ThreadsBringNoneBack ==
    ASSUME TypeInv, NEW th \in Threads, ThreadStep(th)
    PROVE  NoneComesBack(table, table')
<1>0. table \in Table /\ (todo[th] # << >> => Head(todo[th]) \in Instr)
  BY DEF TypeInv, TypeOK
<1>1. CASE UNCHANGED table
  BY <1>1 DEF NoneComesBack, Has
<1>2. CASE MarkStep(th)
  <2>1. Head(todo[th]).task \in Tasks
    BY <1>0, <1>2, InstrFields DEF MarkStep, NextIs
  <2> QED
    BY <1>0, <1>2, <2>1, StatementsBringNoneBack DEF MarkStep
<1>3. CASE ResetHalfStep(th) \/ ResetZeroStep(th)
  BY <1>0, <1>3, StatementsBringNoneBack DEF ResetHalfStep, ResetZeroStep
<1>4. CASE DeleteStep(th)
  <2>1. Head(todo[th]).tasks \in SUBSET Tasks
    BY <1>0, <1>4, InstrFields DEF DeleteStep, NextIs
  <2> QED
    BY <1>0, <1>4, <2>1, StatementsBringNoneBack DEF DeleteStep
<1>5. CASE ResetRowStep(th)
  <2>1. Head(todo[th]).task \in Tasks
    BY <1>0, <1>5, InstrFields DEF ResetRowStep, NextIs
  <2> QED
    BY <1>0, <1>5, <2>1, StatementsBringNoneBack DEF ResetRowStep
<1>6. CASE TryToAddStep(th)
  <2>1. Head(todo[th]).task \in Tasks
    BY <1>0, <1>6, InstrFields DEF TryToAddStep, NextIs
  <2> QED
    BY <1>0, <1>1, <1>6, <2>1, StatementsBringNoneBack DEF TryToAddStep
<1>7. CASE FinishEachStep(th)
  <2>1. ASSUME NEW w \in Head(todo[th]).seen,
               table' = Update(table, w.task, [w.row EXCEPT
                                                 !.status = FinishDownload])
        PROVE  NoneComesBack(table, table')
    <3>1. w.task \in Tasks
      BY <1>0, <1>7, InstrFields DEF FinishEachStep, NextIs, Seen
    <3> QED
      BY <1>0, <2>1, <3>1, StatementsBringNoneBack
  <2> QED
    BY <1>1, <1>7, <2>1 DEF FinishEachStep
<1> QED
  BY <1>1, <1>2, <1>3, <1>4, <1>5, <1>6, <1>7 DEF ThreadStep, GateStep,
     QueryStep, AdmitStep, EnqueueStep, RegisterStep, CancelScansStep,
     CancelDownloadsStep, RemoveFoldersStep, PostCompleteStep, PostCancelStep,
     SnapshotStep, DeleteEachStep

(* No step does: an answer that comes after its row was deleted finds no   *)
(* row to write.                                                           *)
LEMMA NoStepBringsBack ==
    ASSUME TypeInv, [Next]_vars
    PROVE  NoneComesBack(table, table')
<1>0. table \in Table
  BY DEF TypeInv, TypeOK
<1>1. CASE UNCHANGED table
  BY <1>1 DEF NoneComesBack, Has
<1>2. ASSUME NEW r \in Runs, CompleteScan(r) \/ CountPicture(r)
      PROVE  NoneComesBack(table, table')
  <2>1. TaskOf(r) \in Tasks
    BY <1>2, DeliveringTypes, PageTypes DEF CompleteScan, CountPicture,
       Delivering
  <2>2. UNCHANGED table \/ \E w : table' = Update(table, TaskOf(r), w)
    BY <1>2 DEF CompleteScan, CountPicture
  <2> QED
    BY <1>0, <1>1, <2>1, <2>2, StatementsBringNoneBack
<1>3. ASSUME NEW r \in Runs, RunStep(r), ~CompleteScan(r), ~CountPicture(r)
      PROVE  UNCHANGED table
  BY <1>3 DEF RunStep, PageAnswer, DealWithPage, OfferPicture, NextPage,
     FinishScan, HandlerVanishes, StartScan, StartDownload, PictureArrives,
     PictureFails, Release
<1>4. ASSUME NEW t \in Tasks, AddTask(t) PROVE NoneComesBack(table, table')
  BY <1>0, <1>4, StatementsBringNoneBack DEF AddTask
<1>5. ASSUME UserStep, \A t \in Tasks : ~AddTask(t) PROVE UNCHANGED table
  BY <1>5 DEF UserStep, CancelAll, StopAndDelete, FinishAll, RestartAll,
     Redownload, RedownloadForce, DeleteTask, ClearAllData, ClearFolder,
     ClearCategory, ClearRoot, RemoveSelected, AddAgain
<1> QED
  BY <1>1, <1>2, <1>3, <1>4, <1>5, ThreadsBringNoneBack DEF Next, Crash, vars

(* No row that was deleted comes back with what a copy of it says, for all *)
(* user operations, failures and crashes: NoStepBringsBack needs nothing   *)
(* but the types.                                                          *)
THEOREM DeletedSetsStayDeleted == Spec => DeletedStaysDeleted
<1>1. TypeInv /\ [Next]_vars => [NoneComesBack(table, table')]_vars
  BY NoStepBringsBack
<1> QED
  BY <1>1, TypeInit, TypeStep, PTL DEF Spec, DeletedStaysDeleted

-----------------------------------------------------------------------------
(* What a step may do to the shelf.                                        *)

(* While files are kept, a picture that arrives is the only change.        *)
LEMMA OnlyPicturesArrive ==
    ASSUME KeepsFiles, TypeInv, DataInv, [Next]_vars
    PROVE  \/ UNCHANGED disk
           \/ \E r \in Runs, i \in PicNos : PictureArrives(r, i)
<1>1. ASSUME NEW th \in Threads, ThreadStep(th) PROVE UNCHANGED disk
  <2>1. ~RemoveFoldersStep(th)
    <3>1. todo[th] # << >> => Head(todo[th]) \in KeepingInstr
      BY DEF DataInv, ScriptsKeepFiles
    <3> QED
      BY <3>1, KeepingFields DEF RemoveFoldersStep, NextIs
  <2> QED
    BY <1>1, <2>1 DEF ThreadStep, GateStep, QueryStep, AdmitStep, MarkStep,
       EnqueueStep, ResetHalfStep, RegisterStep, CancelScansStep,
       CancelDownloadsStep, DeleteStep, ResetRowStep, ResetZeroStep,
       TryToAddStep, PostCompleteStep, PostCancelStep, SnapshotStep,
       FinishEachStep, DeleteEachStep, diskVars
<1>2. ASSUME NEW r \in Runs, RunStep(r),
             \A i \in PicNos : ~PictureArrives(r, i)
      PROVE  UNCHANGED disk
  BY <1>2 DEF RunStep, PageAnswer, DealWithPage, OfferPicture, NextPage,
     CompleteScan, FinishScan, HandlerVanishes, StartScan, StartDownload,
     CountPicture, PictureFails, Release, diskVars
<1>3. ASSUME UserStep PROVE UNCHANGED disk
  <2>1. \A t \in Tasks : ~RemoveSelected(t)
    BY DEF KeepsFiles, RemoveSelected, May
  <2> QED
    BY <1>3, <2>1 DEF UserStep, CancelAll, StopAndDelete, FinishAll,
       RestartAll, AddTask, Redownload, RedownloadForce, DeleteTask,
       ClearAllData, ClearFolder, ClearCategory, ClearRoot, AddAgain, diskVars
<1> QED
  BY <1>1, <1>2, <1>3 DEF Next, Crash, vars, diskVars

-----------------------------------------------------------------------------
(* The refinement.                                                         *)

(* The library starts empty.                                               *)
LEMMA LibraryInit == Init => Library!Init
<1> SUFFICES ASSUME Init PROVE Library!Init
  OBVIOUS
<1>1. \A t \in Tasks : /\ table[t].status = Absent
                       /\ disk[Folder[t]] = [i \in PicNos |-> NoFile]
  BY DEF Init, InitWith, EmptyTable, NoRow, Folders
<1>2. \A t \in Tasks : Says(table[t].status) = "absent"
  BY <1>1 DEF Says, Absent, Normal, FinishDownload
<1> QED
  BY <1>1, <1>2 DEF Library!Init, Absent, FinishDownload

(* A step that leaves the shelf alone edits the list.                      *)
LEMMA StepEdits ==
    ASSUME PipelineInv, PipelineInv', [Next]_vars, UNCHANGED disk
    PROVE  Library!Edit
<1>1. NoneComesBack(table, table')
  BY NoStepBringsBack DEF PipelineInv
<1>2. RowsAreTrue'
  BY DEF PipelineInv, DataInv
<1>3. table \in Table /\ table' \in Table
  BY DEF PipelineInv, TypeInv, TypeOK
<1>4. \A t \in Tasks : /\ table[t].status \in Absent..FinishDownload
                       /\ table'[t].status \in Absent..FinishDownload
  BY <1>3 DEF Table, Row
<1>5. [t \in Tasks |-> Says(table'[t].status)] \in [Tasks -> Library!States]
  BY DEF Says, Library!States
<1>6. ASSUME NEW t \in Tasks, ~Has(table, t), ~Has(table', t)
      PROVE  Library!Kept(t)
  BY <1>6 DEF Library!Kept, Has, Says, Absent, FinishDownload
<1>7. ASSUME NEW t \in Tasks, ~Has(table, t), table'[t] = NewRow
      PROVE  Library!Added(t)
  BY <1>7 DEF Library!Added, Has, Says, NewRow, Absent, Normal, FinishDownload
<1>8. ASSUME NEW t \in Tasks, Has(table, t), table'[t].status = FinishDownload
      PROVE  Library!Finished(t)
  <2>1. \A i \in 1..table'[t].total : disk[Folder[t]][i] = t
    BY <1>2, <1>8 DEF RowsAreTrue, AllOnDisk
  <2> QED
    BY <1>4, <1>8, <2>1 DEF Library!Finished, Library!IsComplete, Has, Says,
       Absent, Normal, FinishDownload
<1>9. ASSUME NEW t \in Tasks, Has(table, t), table'[t].status # FinishDownload
      PROVE  Library!TakenUp(t)
  BY <1>4, <1>9 DEF Library!TakenUp, Has, Says, Absent, Normal, FinishDownload
<1>10. \A t \in Tasks : \/ Library!Kept(t) \/ Library!Added(t)
                        \/ Library!Finished(t) \/ Library!TakenUp(t)
  BY <1>1, <1>6, <1>7, <1>8, <1>9 DEF NoneComesBack
<1> QED
  BY <1>5, <1>10 DEF Library!Edit

(* A picture that arrives is put on the shelf, or lies there already.      *)
LEMMA ArrivalStores ==
    ASSUME KeepsFiles, PipelineInv, NEW r \in Runs, NEW i \in PicNos,
           PictureArrives(r, i)
    PROVE  \/ UNCHANGED <<table, disk>>
           \/ \E t \in Tasks : Library!Store(t, i)
<1> DEFINE t == TaskOf(r)
           f == Folder[t]
<1>1. scan[r].phase # "free"
  BY DEF PictureArrives, PipelineInv, TypeInv, Shape, PicsAreOfScans, NoPics
<1>2. t \in Tasks /\ f \in Folders
  BY <1>1 DEF PipelineInv, TypeInv, Shape, ScansAreOfTasks, Folders
<1>3. disk \in [Folders -> [PicNos -> Tasks \cup {NoFile}]]
  BY DEF PipelineInv, TypeInv, TypeOK
<1>4. /\ UNCHANGED table
      /\ disk' = [disk EXCEPT ![f][i] = IF @ = NoFile THEN t ELSE @]
  BY DEF PictureArrives, FolderOf
<1> HIDE DEF t, f
<1>5. CASE disk[f][i] # NoFile
  BY <1>2, <1>3, <1>4, <1>5
<1>6. CASE disk[f][i] = NoFile
  <2>1. /\ disk'[f] = [disk[f] EXCEPT ![i] = t]
        /\ \A g \in Folders \ {f} : disk'[g] = disk[g]
    BY <1>2, <1>3, <1>4, <1>6
  <2>2. \A u \in Tasks : /\ Folder[u] \in Folders
                         /\ u # t => Folder[u] # f
    BY <1>2 DEF KeepsFiles, Folders, f
  <2>3. [u \in Tasks |-> disk'[Folder[u]]]
           = [[u \in Tasks |-> disk[Folder[u]]] EXCEPT ![t][i] = t]
    BY <1>2, <1>3, <2>1, <2>2 DEF f
  <2>4. Library!Store(t, i)
    BY <1>2, <1>4, <1>6, <2>3 DEF Library!Store, f
  <2> QED
    BY <1>2, <2>4
<1> QED
  BY <1>5, <1>6

(* Every step of the pipeline is a step of the library, or none.           *)
LEMMA LibraryStep ==
    ASSUME KeepsFiles, PipelineInv, PipelineInv', [Next]_vars
    PROVE  [Library!Next]_(Library!libraryVars)
<1>1. CASE UNCHANGED disk
  BY <1>1, StepEdits DEF Library!Next
<1>2. CASE \E r \in Runs, i \in PicNos : PictureArrives(r, i)
  <2>1. CASE UNCHANGED <<table, disk>>
    BY <2>1 DEF Library!libraryVars
  <2>2. CASE \E i \in PicNos, t \in Tasks : Library!Store(t, i)
    BY <2>2 DEF Library!Next
  <2> QED
    BY <1>2, <2>1, <2>2, ArrivalStores
<1> QED
  BY <1>1, <1>2, OnlyPicturesArrive DEF PipelineInv

(* As long as files are kept, the pipeline implements the library: no late *)
(* answer brings back a row that was deleted, no step shows a set as       *)
(* finished before its pictures are on the shelf, and none touches a       *)
(* picture that is.                                                        *)
THEOREM PipelineImplementsLibrary == KeepsFiles => (Spec => KeepsLibrary)
<1> SUFFICES ASSUME KeepsFiles PROVE Spec => KeepsLibrary
  OBVIOUS
<1>1. Init => Library!Init
  BY LibraryInit
<1>2. PipelineInv /\ PipelineInv' /\ [Next]_vars
         => [Library!Next]_(Library!libraryVars)
  BY LibraryStep
<1>3. Spec => []PipelineInv
  BY PipelineIsSound
<1> QED
  BY <1>1, <1>2, <1>3, PTL DEF Spec, KeepsLibrary, Library!Spec
=============================================================================
