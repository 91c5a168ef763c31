------------------------ MODULE PipelineFilesProofs -------------------------
(***************************************************************************)
(* FinishedIsOnDisk, proved for every number of sets, pages and crashes    *)
(* and every interleaving, as long as no two sets share a folder and the   *)
(* user neither removes files nor declares a set finished (KeepsFiles):    *)
(* DataInv is inductive.                                                   *)
(***************************************************************************)
EXTENDS DownloadPipelineProofs

-----------------------------------------------------------------------------
(* Counting pictures.                                                      *)

(* Sets of pictures can be counted.                                        *)
LEMMA PicsAreFinite ==
    \A S \in SUBSET PicNos : IsFiniteSet(S) /\ Cardinality(S) \in Nat
<1>1. IsFiniteSet(PicNos)
  BY PipelineAssumption, FS_Interval DEF PicNos
<1> QED
  BY <1>1, FS_Subset, FS_CardinalityType

(* One picture more.                                                       *)
LEMMA OneMore ==
    ASSUME NEW S \in SUBSET PicNos, NEW i \in PicNos, i \notin S
    PROVE  Cardinality(S \cup {i}) = Cardinality(S) + 1
BY PicsAreFinite, FS_AddElement

(* The equality test is right: when as many pictures are counted as there  *)
(* are, and none has a greater number, every one of them is counted.       *)
LEMMA AllAreCounted ==
    ASSUME NEW S \in SUBSET PicNos, NEW n \in Nat,
           \A i \in S : i <= n, Cardinality(S) = n
    PROVE  1..n = S
<1>1. S \subseteq 1..n
  BY PipelineAssumption DEF PicNos
<1>2. IsFiniteSet(1..n) /\ Cardinality(1..n) = n
  BY FS_Interval
<1> QED
  BY <1>1, <1>2, FS_Subset

-----------------------------------------------------------------------------
(* Frames: what a step that leaves most of the state alone has to show.    *)

(* A step that changes only rows and scripts keeps DataInv, if the rows    *)
(* stay true.                                                              *)
LEMMA FrameTable ==
    ASSUME DataInv, UNCHANGED <<disk, scan, model, pic, callback>>,
           ScriptsKeepFiles', WaitingCountsZero', RowsAreTrue'
    PROVE  DataInv'
BY DEF DataInv, FoldersAreOwn, CountIsExact, CountedIsOnDisk, CallbackCounts,
       OfferedIsFound, ReadIsBegun, BeingRead, FoundIsOnPage,
       OfferedBetweenPages, OfferedOnPage, OfferedInAll, Counted, Offered,
       InQueue, PageEnd, TaskOf, FolderOf

(* A step that changes only scripts keeps DataInv.                         *)
LEMMA FrameScripts ==
    ASSUME DataInv, UNCHANGED <<table, disk, scan, model, pic, callback>>,
           ScriptsKeepFiles'
    PROVE  DataInv'
<1>1. WaitingCountsZero' /\ RowsAreTrue'
  BY DEF DataInv, WaitingCountsZero, RowsAreTrue, AllOnDisk
<1> QED
  BY <1>1, FrameTable DEF DataInv

-----------------------------------------------------------------------------
(* The scripts.                                                            *)

(* The constructors build instructions that keep files.                    *)
LEMMA KeepingTypes ==
    /\ \A f \in BOOLEAN : Gate(f) \in KeepingInstr
    /\ Query \in KeepingInstr /\ ResetHalf \in KeepingInstr
    /\ ResetZero \in KeepingInstr /\ PostComplete \in KeepingInstr
    /\ [op |-> "register"] \in KeepingInstr
    /\ \A t \in Tasks : /\ Admit(t, 0) \in KeepingInstr
                        /\ Mark(t, 0) \in KeepingInstr
                        /\ Enqueue(t, 0) \in KeepingInstr
                        /\ ResetRow(t) \in KeepingInstr
                        /\ TryToAdd(t) \in KeepingInstr
    /\ \A S \in SUBSET Tasks : /\ CancelScans(S) \in KeepingInstr
                               /\ CancelDownloads(S) \in KeepingInstr
                               /\ DeleteRows(S) \in KeepingInstr
<1>1. \A f \in BOOLEAN : Gate(f) \in KeepingInstr
  BY InstrTypes DEF Gate, KeepingInstr
<1>2. /\ Query \in KeepingInstr /\ ResetHalf \in KeepingInstr
      /\ ResetZero \in KeepingInstr /\ PostComplete \in KeepingInstr
      /\ [op |-> "register"] \in KeepingInstr
  BY InstrTypes DEF Query, ResetHalf, ResetZero, PostComplete, KeepingInstr
<1>3. \A t \in Tasks : /\ Admit(t, 0) \in KeepingInstr
                       /\ Mark(t, 0) \in KeepingInstr
                       /\ Enqueue(t, 0) \in KeepingInstr
                       /\ ResetRow(t) \in KeepingInstr
                       /\ TryToAdd(t) \in KeepingInstr
  BY InstrTypes DEF Admit, Mark, Enqueue, ResetRow, TryToAdd, KeepingInstr
<1>4. \A S \in SUBSET Tasks : /\ CancelScans(S) \in KeepingInstr
                              /\ CancelDownloads(S) \in KeepingInstr
                              /\ DeleteRows(S) \in KeepingInstr
  BY InstrTypes DEF CancelScans, CancelDownloads, DeleteRows, KeepingInstr
<1> QED
  BY <1>1, <1>2, <1>3, <1>4

(* What an instruction that keeps files is not, and the count it carries.  *)
LEMMA KeepingFields ==
    ASSUME NEW i \in KeepingInstr
    PROVE  /\ i \in Instr
           /\ i.op \notin {"removeFolders", "snapshot", "finishEach",
                           "deleteEach"}
           /\ i.op \in {"admit", "mark", "enqueue"} =>
                 i.downloaded = 0 /\ i.task \in Tasks
BY InstrFields DEF KeepingInstr

(* A thread leaves a script of the same kind behind.                       *)
LEMMA KeepThread ==
    ASSUME TypeInv, ScriptsKeepFiles, WaitingCountsZero,
           NEW th \in Threads, ThreadStep(th)
    PROVE  ScriptsKeepFiles'
<1> DEFINE i == Head(todo[th])
<1> USE DEF NextIs
<1>0. todo \in [Threads -> Seq(KeepingInstr)] /\ table \in Table
  BY DEF ScriptsKeepFiles, TypeInv, TypeOK
<1>a. todo[th] # << >>
  BY DEF ThreadStep, GateStep, QueryStep, AdmitStep, MarkStep, EnqueueStep,
     ResetHalfStep, RegisterStep, CancelScansStep, CancelDownloadsStep,
     DeleteStep, ResetRowStep, ResetZeroStep, RemoveFoldersStep,
     PostCompleteStep, PostCancelStep, SnapshotStep, FinishEachStep,
     DeleteEachStep, TryToAddStep
<1>b. i \in KeepingInstr
  BY <1>0, <1>a
<1>c. \A s \in Seq(KeepingInstr) : Then(th, s) => ScriptsKeepFiles'
  BY <1>0, <1>a, ThenTypes DEF ScriptsKeepFiles
<1>d. /\ << >> \in Seq(KeepingInstr)
      /\ \A j \in KeepingInstr : <<j>> \in Seq(KeepingInstr)
      /\ \A j, k, l \in KeepingInstr : <<j, k, l>> \in Seq(KeepingInstr)
  <2>1. << >> \in Seq(KeepingInstr)
    OBVIOUS
  <2> QED
    BY <2>1, ScriptTypes
<1> HIDE DEF i
<1>1. CASE GateStep(th)
  BY <1>1, <1>c, <1>d, KeepingTypes DEF GateStep
<1>2. CASE QueryStep(th)
  <2>1. \A t \in NextTasks(table) : t \in Tasks /\ table[t].downloaded = 0
    BY DEF NextTasks, WithStatus, WaitingCountsZero
  <2> QED
    BY <1>2, <1>c, <1>d, <2>1, KeepingTypes DEF QueryStep
<1>3. CASE AdmitStep(th)
  <2>1. i.task \in Tasks /\ i.downloaded = 0
    BY <1>3, <1>b, KeepingFields DEF AdmitStep, i
  <2> QED
    BY <1>3, <1>c, <1>d, <2>1, KeepingTypes DEF AdmitStep, i
<1>4. CASE MarkStep(th)
  <2>1. i.task \in Tasks /\ i.downloaded = 0
    BY <1>4, <1>b, KeepingFields DEF MarkStep, i
  <2> QED
    BY <1>4, <1>c, <1>d, <2>1, KeepingTypes DEF MarkStep, i
<1>5. CASE EnqueueStep(th)
  BY <1>5, <1>c, <1>d, KeepingTypes DEF EnqueueStep
<1>6. CASE \/ ResetHalfStep(th) \/ RegisterStep(th) \/ CancelScansStep(th)
           \/ CancelDownloadsStep(th) \/ DeleteStep(th) \/ ResetRowStep(th)
           \/ ResetZeroStep(th)
  BY <1>6, <1>c, <1>d DEF ResetHalfStep, RegisterStep, CancelScansStep,
     CancelDownloadsStep, DeleteStep, ResetRowStep, ResetZeroStep
<1>7. CASE \/ RemoveFoldersStep(th) \/ SnapshotStep(th) \/ FinishEachStep(th)
           \/ DeleteEachStep(th)
  BY <1>7, <1>b, KeepingFields DEF RemoveFoldersStep, SnapshotStep,
     FinishEachStep, DeleteEachStep, i
<1>8. CASE PostCompleteStep(th)
  BY <1>8, <1>c, <1>d, KeepingTypes DEF PostCompleteStep
<1>9. CASE PostCancelStep(th)
  <2>1. i.tasks \in SUBSET Tasks
    BY <1>9, <1>b, KeepingFields, InstrFields DEF PostCancelStep, i
  <2>2. CancelTasks(i.tasks) \in Seq(KeepingInstr)
    BY <1>d, <2>1, KeepingTypes DEF CancelTasks
  <2> QED
    BY <1>9, <1>c, <1>d, <2>2 DEF PostCancelStep, i
<1>10. CASE TryToAddStep(th)
  BY <1>10, <1>c, <1>d, KeepingTypes DEF TryToAddStep
<1> QED
  BY <1>1, <1>2, <1>3, <1>4, <1>5, <1>6, <1>7, <1>8, <1>9, <1>10
     DEF ThreadStep

-----------------------------------------------------------------------------
(* The rows.                                                               *)

(* Each row stays, goes back to a count of 0, or only moves to a status it *)
(* has the pictures for.                                                   *)
LEMMA FrameRows ==
    ASSUME DataInv, UNCHANGED <<disk, scan, model, pic, callback>>,
           ScriptsKeepFiles',
           \A t \in Tasks :
              \/ table'[t] = table[t]
              \/ /\ table'[t].downloaded = 0
                 /\ table'[t].status # FinishDownload
              \/ /\ table'[t].total = table[t].total
                 /\ table'[t].downloaded = table[t].downloaded
                 /\ table'[t].status # Normal
                 /\ table'[t].status = FinishDownload =>
                       table[t].status = FinishDownload \/ CountsMatch(table[t])
    PROVE  DataInv'
<1>1. WaitingCountsZero'
  BY DEF DataInv, WaitingCountsZero
<1>2. RowsAreTrue'
  BY DEF DataInv, RowsAreTrue, AllOnDisk, CountsMatch
<1> QED
  BY <1>1, <1>2, FrameTable

(* parserWithSourceModel writes the status only: a row it marks is not     *)
(* finished by that.                                                       *)
LEMMA KeepMark ==
    ASSUME TypeInv, DataInv, ScriptsKeepFiles',
           NEW th \in Threads, MarkStep(th)
    PROVE  DataInv'
<1>1. table \in [Tasks -> Row]
  BY DEF TypeInv, TypeOK, Table
<1>2. \A t \in Tasks : \/ table'[t] = table[t]
                       \/ /\ table'[t].total = table[t].total
                          /\ table'[t].downloaded = table[t].downloaded
                          /\ table'[t].status = StartScane
  BY <1>1 DEF MarkStep, UpdateStatus, Row
<1> QED
  BY <1>2, FrameRows DEF MarkStep, diskVars, runVars, StartScane, Normal,
     FinishDownload

(* A row that is reset counts nothing.                                     *)
LEMMA ResetFields ==
    \A w \in Row :
        /\ [w EXCEPT !.status = Normal, !.downloaded = 0].downloaded = 0
        /\ [w EXCEPT !.status = Normal, !.downloaded = 0].status = Normal
BY DEF Row

(* resetHalfWorkingTasks finishes only rows whose counts match, which are  *)
(* true already.                                                           *)
LEMMA KeepResetHalf ==
    ASSUME TypeInv, DataInv, ScriptsKeepFiles',
           NEW th \in Threads, ResetHalfStep(th)
    PROVE  DataInv'
<1> SUFFICES ASSUME NEW t \in Tasks
             PROVE  \/ table'[t] = table[t]
                    \/ /\ table'[t].downloaded = 0
                       /\ table'[t].status # FinishDownload
                    \/ /\ table'[t].total = table[t].total
                       /\ table'[t].downloaded = table[t].downloaded
                       /\ table'[t].status # Normal
                       /\ CountsMatch(table[t])
  BY FrameRows DEF ResetHalfStep, diskVars, runVars
<1>1. table[t] \in Row
  BY DEF TypeInv, TypeOK, Table
<1>2. CASE Has(table, t) /\ CountsMatch(table[t])
  <2>1. table'[t] = [table[t] EXCEPT !.status = FinishDownload]
    BY <1>2 DEF ResetHalfStep, ResetHalfWorking
  <2> QED
    BY <1>1, <1>2, <2>1 DEF Row, Normal, FinishDownload
<1>3. CASE ~(Has(table, t) /\ CountsMatch(table[t]))
  <2>1. \/ table'[t] = table[t]
        \/ table'[t] = [table[t] EXCEPT !.status = Normal, !.downloaded = 0]
    BY <1>3 DEF ResetHalfStep, ResetHalfWorking
  <2>2. \/ table'[t] = table[t]
        \/ table'[t].downloaded = 0 /\ table'[t].status = Normal
    BY <1>1, <2>1, ResetFields
  <2> QED
    BY <2>2 DEF Normal, FinishDownload
<1> QED
  BY <1>2, <1>3

(* A row that is deleted or reset claims nothing.                          *)
LEMMA KeepRows ==
    ASSUME TypeInv, DataInv, ScriptsKeepFiles', NEW th \in Threads,
           DeleteStep(th) \/ ResetRowStep(th) \/ ResetZeroStep(th)
    PROVE  DataInv'
<1>1. table \in [Tasks -> Row]
  BY DEF TypeInv, TypeOK, Table
<1>2. UNCHANGED <<disk, scan, model, pic, callback>>
  BY DEF DeleteStep, ResetRowStep, ResetZeroStep, diskVars, runVars
<1>3. CASE DeleteStep(th)
  <2>1. \A t \in Tasks : table'[t] = table[t] \/ table'[t] = NoRow
    BY <1>3 DEF DeleteStep, Delete
  <2> QED
    BY <1>2, <2>1, FrameRows DEF NoRow, Absent, FinishDownload
<1>4. CASE ResetRowStep(th)
  <2>1. \A t \in Tasks : table'[t] = table[t] \/ table'[t] = NewRow
    BY <1>1, <1>4 DEF ResetRowStep, Update
  <2> QED
    BY <1>2, <2>1, FrameRows DEF NewRow, Normal, FinishDownload
<1>5. CASE ResetZeroStep(th)
  <2>1. \A t \in Tasks :
           \/ table'[t] = table[t]
           \/ table'[t] = [table[t] EXCEPT !.status = Normal, !.downloaded = 0]
    BY <1>5 DEF ResetZeroStep, ResetToZero
  <2>2. \A t \in Tasks : \/ table'[t] = table[t]
                         \/ table'[t].downloaded = 0 /\ table'[t].status = Normal
    <3> SUFFICES ASSUME NEW t \in Tasks, table'[t] # table[t]
                 PROVE  table'[t].downloaded = 0 /\ table'[t].status = Normal
      OBVIOUS
    <3>1. table'[t] = [table[t] EXCEPT !.status = Normal, !.downloaded = 0]
      BY <2>1
    <3>2. table[t] \in Row
      BY <1>1
    <3> QED
      BY <3>1, <3>2, ResetFields
  <2> QED
    BY <1>2, <2>2, FrameRows DEF Normal, FinishDownload
<1> QED
  BY <1>3, <1>4, <1>5

(* A row that is added claims nothing.                                     *)
LEMMA KeepTryToAdd ==
    ASSUME TypeInv, DataInv, ScriptsKeepFiles', NEW th \in Threads,
           TryToAddStep(th)
    PROVE  DataInv'
<1>1. \A u \in Tasks : table'[u] = table[u] \/ table'[u] = NewRow
  BY DEF TryToAddStep, Insert, TypeInv, TypeOK, Table
<1> QED
  BY <1>1, FrameRows DEF TryToAddStep, runVars, NewRow, Normal, FinishDownload

-----------------------------------------------------------------------------
(* Operations added and cancelled.                                         *)

(* A new operation counts nothing, as nothing of it was offered.           *)
LEMMA KeepEnqueue ==
    ASSUME TypeInv, DataInv, ScriptsKeepFiles',
           NEW th \in Threads, EnqueueStep(th)
    PROVE  DataInv'
<1> DEFINE t == Head(todo[th]).task
<1>1. t \in Tasks /\ Head(todo[th]).downloaded = 0
  BY KeepingFields DEF DataInv, ScriptsKeepFiles, EnqueueStep, NextIs
<1>2. PICK r \in Runs : /\ IsFree(r)
                        /\ scan' = [scan EXCEPT ![r] = NewScan(t)]
                        /\ model' = [model EXCEPT ![r] =
                              [status |-> StartScane, total |-> 0,
                               downloaded |-> Head(todo[th]).downloaded]]
  BY DEF EnqueueStep
<1>3. /\ scan \in [Runs -> Scan] /\ model \in [Runs -> Model]
      /\ pic[r] = NoPics
  BY <1>2 DEF TypeInv, TypeOK, Shape, PicsAreOfScans, IsFree
<1>4. /\ scan'[r] = NewScan(t)
      /\ model'[r] = [status |-> StartScane, total |-> 0, downloaded |-> 0]
      /\ \A q \in Runs \ {r} : scan'[q] = scan[q] /\ model'[q] = model[q]
  BY <1>1, <1>2, <1>3
<1>5. UNCHANGED <<table, disk, pic, callback>>
  BY DEF EnqueueStep, diskVars
<1>6. Counted(r) = {} /\ Offered(r) = {}
  BY <1>3 DEF Counted, Offered, NoPics
<1>7. \A q \in Runs : Counted(q)' = Counted(q) /\ Offered(q)' = Offered(q)
  BY <1>5 DEF Counted, Offered
<1>8. ~BeingRead(r)
  BY <1>2 DEF BeingRead, Reading, IsFree, TypeInv, Shape, CallbackIsOfScan
<1>9. \A q \in Runs : BeingRead(q)' = BeingRead(q)
  BY <1>5 DEF BeingRead
<1>10. CountIsExact'
  BY <1>4, <1>6, <1>7, FS_EmptySet DEF DataInv, CountIsExact
<1>11. CountedIsOnDisk'
  BY <1>3, <1>4, <1>5 DEF DataInv, CountedIsOnDisk, FolderOf, TaskOf, NoPics
<1>12. ReadIsBegun'
  BY <1>4, <1>8, <1>9 DEF DataInv, OfferedIsFound, ReadIsBegun
<1>13. FoundIsOnPage'
  <2>1. scan'[r].found = 0 /\ PageEnd(r)' \in 0..MaxPics
    <3>1. PicsUpTo[t] \in Seq(0..MaxPics) /\ PicsUpTo[t] # << >>
      BY <1>1, PipelineAssumption
    <3>2. 1 \in DOMAIN PicsUpTo[t]
      BY <3>1
    <3>3. PicsUpTo[t][1] \in 0..MaxPics
      BY <3>1, <3>2, ElementTypes
    <3> QED
      BY <1>4, <3>3 DEF NewScan, PageEnd, TaskOf
  <2> QED
    BY <1>4, <2>1 DEF DataInv, OfferedIsFound, FoundIsOnPage, PageEnd, TaskOf
<1>14. OfferedBetweenPages'
  BY <1>4, <1>6, <1>7, <1>9 DEF DataInv, OfferedIsFound, OfferedBetweenPages,
     InQueue
<1>15. OfferedOnPage'
  <2>1. ~(callback.run = r /\ callback.at \in Reading)
    BY <1>8 DEF BeingRead
  <2> QED
    BY <1>4, <1>5, <1>7, <2>1 DEF DataInv, OfferedIsFound, OfferedOnPage,
       PageEnd, TaskOf
<1>16. OfferedInAll'
  BY <1>4, <1>6, <1>7 DEF DataInv, OfferedIsFound, OfferedInAll
<1>17. /\ WaitingCountsZero' /\ FoldersAreOwn' /\ CallbackCounts'
       /\ RowsAreTrue'
  BY <1>5 DEF DataInv, WaitingCountsZero, FoldersAreOwn, CallbackCounts,
     RowsAreTrue, AllOnDisk
<1> QED
  BY <1>10, <1>11, <1>12, <1>13, <1>14, <1>15, <1>16, <1>17
     DEF DataInv, OfferedIsFound

(* A step that only moves scans between phases: none comes back into the   *)
(* queue, and what is being read stays begun.                              *)
LEMMA FramePhases ==
    ASSUME TypeInv, DataInv, ScriptsKeepFiles',
           UNCHANGED <<table, disk, model, pic, callback>>,
           \A r \in Runs :
              /\ scan'[r].task = scan[r].task
              /\ scan'[r].page = scan[r].page
              /\ scan'[r].found = scan[r].found
              /\ scan[r].phase = "free" => scan'[r].phase = "free"
              /\ InQueue(r)' => InQueue(r)
              /\ BeingRead(r) => scan'[r].phase \in {"scanning", "cancelled"}
    PROVE  DataInv'
<1>1. /\ WaitingCountsZero' /\ FoldersAreOwn' /\ CountIsExact'
      /\ CountedIsOnDisk' /\ CallbackCounts' /\ RowsAreTrue'
  BY DEF DataInv, WaitingCountsZero, FoldersAreOwn, CountIsExact, Counted,
     CountedIsOnDisk, FolderOf, TaskOf, CallbackCounts, RowsAreTrue, AllOnDisk
<1>2. \A r \in Runs : /\ BeingRead(r)' <=> BeingRead(r)
                      /\ PageEnd(r)' = PageEnd(r)
                      /\ Offered(r)' = Offered(r)
  BY DEF BeingRead, Offered, PageEnd, TaskOf
<1>4. ReadIsBegun'
  BY <1>2 DEF ReadIsBegun
<1>6. FoundIsOnPage'
  BY <1>2 DEF DataInv, OfferedIsFound, FoundIsOnPage
<1>5. OfferedBetweenPages'
  BY <1>2 DEF DataInv, OfferedIsFound, OfferedBetweenPages
<1>3. OfferedOnPage' /\ OfferedInAll'
  BY DEF DataInv, OfferedIsFound, OfferedOnPage, OfferedInAll, Offered,
     PageEnd, TaskOf
<1> QED
  BY <1>1, <1>3, <1>4, <1>5, <1>6 DEF DataInv, OfferedIsFound

(* A scan that is cancelled keeps what it has offered.                     *)
LEMMA KeepCancelScans ==
    ASSUME TypeInv, DataInv, ScriptsKeepFiles',
           NEW th \in Threads, CancelScansStep(th)
    PROVE  DataInv'
<1>1. ASSUME NEW r \in Runs
      PROVE  \/ scan'[r] = scan[r]
             \/ /\ scan[r].phase = "queued"
                /\ scan'[r] = [scan[r] EXCEPT !.phase = "withdrawn"]
             \/ /\ scan[r].phase = "scanning"
                /\ scan'[r] = [scan[r] EXCEPT !.phase = "cancelled"]
  <2>1. scan[r] \in Scan
    BY DEF TypeInv, TypeOK
  <2>2. \A s \in Scan : [s EXCEPT !.phase = s.phase] = s
    BY DEF Scan
  <2> QED
    BY <2>1, <2>2 DEF CancelScansStep
<1>2. \A s \in Scan, ph \in Phases :
         /\ [s EXCEPT !.phase = ph].phase = ph
         /\ [s EXCEPT !.phase = ph].task = s.task
         /\ [s EXCEPT !.phase = ph].page = s.page
         /\ [s EXCEPT !.phase = ph].found = s.found
  BY DEF Scan
<1>3. \A r \in Runs : scan[r] \in Scan
  BY DEF TypeInv, TypeOK
<1>4. ASSUME NEW r \in Runs
      PROVE  /\ scan'[r].task = scan[r].task
             /\ scan'[r].page = scan[r].page
             /\ scan'[r].found = scan[r].found
             /\ \/ scan'[r].phase = scan[r].phase
                \/ scan[r].phase = "queued" /\ scan'[r].phase = "withdrawn"
                \/ scan[r].phase = "scanning" /\ scan'[r].phase = "cancelled"
  <2>1. "withdrawn" \in Phases /\ "cancelled" \in Phases
    BY DEF Phases
  <2>2. CASE scan'[r] = scan[r]
    BY <2>2
  <2>3. CASE /\ scan[r].phase = "queued"
             /\ scan'[r] = [scan[r] EXCEPT !.phase = "withdrawn"]
    BY <1>2, <1>3, <2>1, <2>3
  <2>4. CASE /\ scan[r].phase = "scanning"
             /\ scan'[r] = [scan[r] EXCEPT !.phase = "cancelled"]
    BY <1>2, <1>3, <2>1, <2>4
  <2> QED
    BY <1>1, <2>2, <2>3, <2>4
<1>5. \A r \in Runs : BeingRead(r) => scan[r].phase \in {"scanning", "cancelled"}
  BY DEF DataInv, OfferedIsFound, ReadIsBegun
<1> QED
  BY <1>4, <1>5, FramePhases DEF CancelScansStep, diskVars, InQueue

(* A download that is cancelled was not counted, and is not counted by     *)
(* that.                                                                   *)
LEMMA KeepCancelDownloads ==
    ASSUME TypeInv, DataInv, ScriptsKeepFiles',
           NEW th \in Threads, CancelDownloadsStep(th)
    PROVE  DataInv'
<1>1. UNCHANGED <<table, disk, scan, model, callback>>
  BY DEF CancelDownloadsStep, diskVars
<1>2. \A r \in Runs, i \in PicNos :
         \/ pic'[r][i] = pic[r][i]
         \/ /\ pic[r][i] \in {"waiting", "running"}
            /\ pic'[r][i] \in {"failed", "late"}
  BY DEF CancelDownloadsStep, TypeInv, TypeOK
<1>3. \A r \in Runs : Counted(r)' = Counted(r) /\ Offered(r)' = Offered(r)
  BY <1>2 DEF Counted, Offered
<1>4. CountIsExact' /\ CountedIsOnDisk'
  BY <1>1, <1>2, <1>3 DEF DataInv, CountIsExact, CountedIsOnDisk, FolderOf,
     TaskOf
<1>5. CallbackCounts'
  BY <1>1, <1>2 DEF DataInv, CallbackCounts, TypeInv, Shape, CallbackIsOfScan
<1>6. /\ WaitingCountsZero' /\ FoldersAreOwn' /\ RowsAreTrue'
  BY <1>1 DEF DataInv, WaitingCountsZero, FoldersAreOwn, RowsAreTrue, AllOnDisk
<1>7. OfferedIsFound'
  BY <1>1, <1>3 DEF DataInv, OfferedIsFound, ReadIsBegun, FoundIsOnPage,
     OfferedBetweenPages, OfferedOnPage, OfferedInAll, BeingRead, InQueue,
     PageEnd, TaskOf
<1> QED
  BY <1>4, <1>5, <1>6, <1>7 DEF DataInv

(* DataInv through every instruction of every thread.                      *)
LEMMA DataThread ==
    ASSUME TypeInv, DataInv, NEW th \in Threads, ThreadStep(th)
    PROVE  DataInv'
<1>1. ScriptsKeepFiles'
  BY KeepThread DEF DataInv
<1>2. CASE \/ GateStep(th) \/ QueryStep(th) \/ AdmitStep(th)
           \/ RegisterStep(th) \/ PostCompleteStep(th) \/ PostCancelStep(th)
  BY <1>1, <1>2, FrameScripts DEF GateStep, QueryStep, AdmitStep,
     RegisterStep, PostCompleteStep, PostCancelStep, diskVars, runVars
<1>3. ~(\/ RemoveFoldersStep(th) \/ SnapshotStep(th) \/ FinishEachStep(th)
        \/ DeleteEachStep(th))
  <2>1. todo[th] # << >> => Head(todo[th]) \in KeepingInstr
    BY DEF DataInv, ScriptsKeepFiles
  <2> QED
    BY <2>1, KeepingFields DEF RemoveFoldersStep, SnapshotStep, FinishEachStep,
       DeleteEachStep, NextIs
<1> QED
  BY <1>1, <1>2, <1>3, KeepMark, KeepResetHalf, KeepRows, KeepEnqueue,
     KeepTryToAdd, KeepCancelScans, KeepCancelDownloads DEF ThreadStep

-----------------------------------------------------------------------------
(* Page answers.                                                           *)

(* A step that only moves the callback, for scan r.                        *)
LEMMA FrameCallback ==
    ASSUME TypeInv, DataInv, NEW r \in Runs,
           UNCHANGED <<table, disk, scan, model, pic, todo>>,
           callback'.run = r,
           callback'.at \in Reading,
           scan[r].phase \in {"scanning", "cancelled"},
           model[r].status = StartScane,
           \A i \in Offered(r) :
              /\ callback'.at = "offer" => i < callback'.pic
              /\ callback'.at = "endOfPage" /\ callback'.ok => i <= PageEnd(r)
              /\ callback'.at = "page" \/ ~callback'.ok => i <= scan[r].found,
           callback.at # "idle" => callback.run = r
    PROVE  DataInv'
<1>1. /\ ScriptsKeepFiles' /\ WaitingCountsZero' /\ FoldersAreOwn'
      /\ CountIsExact' /\ CountedIsOnDisk' /\ RowsAreTrue'
  BY DEF DataInv, ScriptsKeepFiles, WaitingCountsZero, FoldersAreOwn,
     CountIsExact, Counted, CountedIsOnDisk, FolderOf, TaskOf, RowsAreTrue,
     AllOnDisk
<1>2. CallbackCounts'
  BY DEF CallbackCounts, Reading
<1>3. \A q \in Runs : PageEnd(q)' = PageEnd(q) /\ Offered(q)' = Offered(q)
  BY DEF PageEnd, TaskOf, Offered
<1>4. ReadIsBegun'
  BY DEF ReadIsBegun, BeingRead
<1>5. FoundIsOnPage' /\ OfferedInAll'
  BY <1>3 DEF DataInv, OfferedIsFound, FoundIsOnPage, OfferedInAll
<1>6. OfferedOnPage'
  BY <1>3 DEF OfferedOnPage
<1>7. OfferedBetweenPages'
  <2>1. ASSUME NEW q \in Runs, InQueue(q)', ~BeingRead(q)'
        PROVE  InQueue(q) /\ q # r
    BY <2>1 DEF InQueue, BeingRead
  <2>2. ASSUME NEW q \in Runs, InQueue(q), q # r, BeingRead(q)
        PROVE  /\ model[q].status = StartScane
               /\ \A i \in Offered(q) : i <= scan[q].found
    BY <2>2 DEF BeingRead, Reading
  <2> QED
    BY <1>3, <2>1, <2>2 DEF DataInv, OfferedIsFound, OfferedBetweenPages
<1> QED
  BY <1>1, <1>2, <1>4, <1>5, <1>6, <1>7 DEF DataInv, OfferedIsFound

(* A page answer finds a scan between two pages.                           *)
LEMMA KeepPageAnswer ==
    ASSUME TypeInv, DataInv, NEW r \in Runs, PageAnswer(r)
    PROVE  DataInv'
<1>1. callback.at = "idle" /\ scan[r].phase = "scanning"
  BY DEF PageAnswer, DelegateIsFree, Idle
<1>2. InQueue(r) /\ ~BeingRead(r)
  BY <1>1 DEF InQueue, BeingRead, Reading
<1>3. /\ model[r].status = StartScane
      /\ \A i \in Offered(r) : i <= scan[r].found
  BY <1>2 DEF DataInv, OfferedIsFound, OfferedBetweenPages
<1>4. /\ callback'.run = r
      /\ \/ callback'.at = "page" /\ callback'.ok = TRUE
         \/ callback'.at = "endOfPage" /\ callback'.ok = FALSE
  BY DEF PageAnswer, At
<1> QED
  BY <1>1, <1>3, <1>4, FrameCallback DEF PageAnswer, diskVars, runVars, Reading

(* The first picture of a page comes after those of the pages before.      *)
LEMMA KeepDealWithPage ==
    ASSUME TypeInv, DataInv, NEW r \in Runs, DealWithPage(r)
    PROVE  DataInv'
<1>1. callback.at = "page" /\ callback.run = r
  BY DEF DealWithPage, Delivering
<1>2. scan[r].phase \in {"scanning", "cancelled"}
  BY <1>1 DEF DataInv, OfferedIsFound, ReadIsBegun, BeingRead, Reading
<1>3. scan[r].found \in Nat /\ PageEnd(r) \in Nat /\ scan[r].found <= PageEnd(r)
  BY <1>2, PageTypes, PipelineAssumption DEF DataInv, OfferedIsFound,
     FoundIsOnPage
<1>4. /\ model[r].status = StartScane
      /\ \A i \in Offered(r) : i \in Nat /\ i <= scan[r].found
  BY <1>1, PipelineAssumption DEF DataInv, OfferedIsFound, OfferedOnPage,
     Reading, Offered, PicNos
<1>5. /\ callback'.run = r /\ callback'.ok = TRUE
      /\ \/ callback'.at = "offer" /\ callback'.pic = scan[r].found + 1
         \/ callback'.at = "endOfPage"
  BY DEF DealWithPage, At
<1>6. \A i \in Offered(r) : i < scan[r].found + 1 /\ i <= PageEnd(r)
  BY <1>3, <1>4
<1> QED
  BY <1>1, <1>2, <1>4, <1>5, <1>6, FrameCallback DEF DealWithPage, diskVars,
     runVars, Reading

(* The picture offered was not offered before: it is counted once.         *)
LEMMA KeepOfferPicture ==
    ASSUME KeepsFiles, TypeInv, DataInv, NEW r \in Runs, OfferPicture(r)
    PROVE  DataInv'
<1> DEFINE i == callback.pic
<1>1. /\ callback.at = "offer" /\ callback.run = r
      /\ i \in PicNos /\ i <= PageEnd(r)
      /\ scan[r].phase \in {"scanning", "cancelled"}
  BY DEF OfferPicture, Delivering, TypeInv, Shape, CallbackIsOfScan, DataInv,
     OfferedIsFound, ReadIsBegun, BeingRead, Reading
<1>2. /\ TaskOf(r) \in Tasks /\ PageEnd(r) \in Nat /\ i \in Nat
      /\ pic \in [Runs -> [PicNos -> PicStates]] /\ model \in [Runs -> Model]
  BY <1>1, PageTypes, PipelineAssumption DEF TypeInv, TypeOK, PicNos
<1>3. /\ model[r].status = StartScane
      /\ \A j \in Offered(r) : j \in Nat /\ j < i
  BY <1>1, PipelineAssumption DEF DataInv, OfferedIsFound, OfferedOnPage,
     Reading, Offered, PicNos
<1>4. pic[r][i] = "none"
  BY <1>1, <1>2, <1>3 DEF Offered
<1>5. UNCHANGED <<table, disk, scan, todo>>
  BY DEF OfferPicture
<1>6. /\ \A q \in Runs \ {r} : pic'[q] = pic[q] /\ model'[q] = model[q]
      /\ \A j \in PicNos \ {i} : pic'[r][j] = pic[r][j]
      /\ model'[r].status = model[r].status
      /\ model'[r].total = model[r].total
      /\ \/ /\ disk[FolderOf(r)][i] # NoFile /\ pic'[r][i] = "counted"
            /\ model'[r].downloaded = model[r].downloaded + 1
         \/ pic'[r][i] = "waiting" /\ model'[r].downloaded = model[r].downloaded
  BY <1>1, <1>2 DEF OfferPicture, Model
<1>7. /\ callback'.run = r /\ callback'.ok = TRUE
      /\ \/ callback'.at = "offer" /\ callback'.pic = i + 1
         \/ callback'.at = "endOfPage" /\ i = PageEnd(r)
  <2>1. callback' = IF i < PageEnd(r) THEN At("offer", r, i + 1, TRUE)
                                      ELSE At("endOfPage", r, 0, TRUE)
    BY DEF OfferPicture, AfterOffer
  <2>2. CASE i < PageEnd(r)
    BY <2>1, <2>2 DEF At
  <2>3. CASE ~(i < PageEnd(r))
    <3>1. i = PageEnd(r)
      <4>1. \A a, b \in Nat : a <= b /\ ~(a < b) => a = b
        OBVIOUS
      <4>2. i <= PageEnd(r) /\ i \in Nat /\ PageEnd(r) \in Nat
        BY <1>1, <1>2
      <4> QED
        BY <2>3, <4>1, <4>2
    <3>2. callback' = At("endOfPage", r, 0, TRUE)
      BY <2>1, <2>3
    <3> QED
      BY <3>1, <3>2 DEF At
  <2> QED
    BY <2>2, <2>3
<1>8. /\ \A q \in Runs \ {r} : /\ Counted(q)' = Counted(q)
                               /\ Offered(q)' = Offered(q)
      /\ Offered(r)' = Offered(r) \cup {i}
      /\ Counted(r)' = IF pic'[r][i] = "counted" THEN Counted(r) \cup {i}
                                                 ELSE Counted(r)
  BY <1>1, <1>4, <1>6 DEF Counted, Offered
<1>9. CountIsExact'
  <2>1. Counted(r) \in SUBSET PicNos /\ i \notin Counted(r)
    BY <1>4 DEF Counted
  <2>2. Cardinality(Counted(r) \cup {i}) = Cardinality(Counted(r)) + 1
    BY <1>1, <2>1, OneMore
  <2>3. model'[r].downloaded = Cardinality(Counted(r)')
    BY <1>6, <1>8, <2>2 DEF DataInv, CountIsExact
  <2>4. \A q \in Runs \ {r} : model'[q].downloaded = Cardinality(Counted(q)')
    BY <1>6, <1>8 DEF DataInv, CountIsExact
  <2>5. \A q \in Runs : model'[q].downloaded = Cardinality(Counted(q)')
    BY <2>3, <2>4
  <2> QED
    BY <2>5 DEF CountIsExact
<1>10. CountedIsOnDisk'
  <2>1. pic'[r][i] = "counted" => disk[FolderOf(r)][i] = TaskOf(r)
    BY <1>1, <1>2, <1>6 DEF DataInv, FoldersAreOwn, FolderOf
  <2> QED
    BY <1>1, <1>5, <1>6, <2>1 DEF DataInv, CountedIsOnDisk, FolderOf, TaskOf
<1>11. CallbackCounts'
  BY <1>7 DEF CallbackCounts
<1>12. /\ ScriptsKeepFiles' /\ WaitingCountsZero' /\ FoldersAreOwn'
       /\ RowsAreTrue'
  BY <1>5 DEF DataInv, ScriptsKeepFiles, WaitingCountsZero, FoldersAreOwn,
     RowsAreTrue, AllOnDisk
<1>13. ReadIsBegun'
  BY <1>1, <1>5, <1>7 DEF ReadIsBegun, BeingRead
<1>14. FoundIsOnPage'
  BY <1>5 DEF DataInv, OfferedIsFound, FoundIsOnPage, PageEnd, TaskOf
<1>15. OfferedBetweenPages'
  <2>1. ASSUME NEW q \in Runs, InQueue(q)', ~BeingRead(q)'
        PROVE  InQueue(q) /\ ~BeingRead(q) /\ q # r
    BY <1>1, <1>5, <1>7, <2>1 DEF InQueue, BeingRead, Reading
  <2> QED
    BY <1>5, <1>6, <1>8, <2>1 DEF DataInv, OfferedIsFound, OfferedBetweenPages
<1>16. OfferedOnPage'
  <2>1. \A j \in Offered(r)' : j < i + 1 /\ j <= i
    BY <1>2, <1>3, <1>8
  <2>2. PageEnd(r)' = PageEnd(r)
    BY <1>5 DEF PageEnd, TaskOf
  <2> QED
    BY <1>3, <1>6, <1>7, <2>1, <2>2 DEF OfferedOnPage
<1>17. OfferedInAll'
  BY <1>3, <1>6, <1>8 DEF DataInv, OfferedIsFound, OfferedInAll
<1> QED
  BY <1>9, <1>10, <1>11, <1>12, <1>13, <1>14, <1>15, <1>16, <1>17
     DEF DataInv, OfferedIsFound

(* Going to the next page, all the pictures of this one have been offered. *)
LEMMA KeepNextPage ==
    ASSUME TypeInv, DataInv, NEW r \in Runs, NextPage(r)
    PROVE  DataInv'
<1>1. /\ callback.at = "endOfPage" /\ callback.run = r /\ callback.ok
      /\ scan[r].phase \in {"scanning", "cancelled"}
  BY DEF NextPage, Delivering, DataInv, OfferedIsFound, ReadIsBegun,
     BeingRead, Reading
<1>2. /\ scan \in [Runs -> Scan] /\ scan[r] \in Scan
      /\ TaskOf(r) \in Tasks
      /\ scan[r].page \in 1..Len(PicsUpTo[TaskOf(r)])
      /\ PicsUpTo[TaskOf(r)] \in Seq(0..MaxPics)
  BY <1>1, PageTypes DEF TypeInv, TypeOK
<1>3. /\ scan'[r].phase = scan[r].phase /\ scan'[r].task = scan[r].task
      /\ scan'[r].page = scan[r].page + 1
      /\ scan'[r].found = PageEnd(r)
      /\ \A q \in Runs \ {r} : scan'[q] = scan[q]
  <2> DEFINE s == [scan[r] EXCEPT !.page = @ + 1]
             u == [s EXCEPT !.found = PageEnd(r)]
  <2>1. /\ s \in Scan /\ s.phase = scan[r].phase /\ s.task = scan[r].task
        /\ s.page = scan[r].page + 1
    BY <1>2 DEF Scan
  <2>2. scan' = [scan EXCEPT ![r] = u]
    BY <1>2 DEF NextPage
  <2> HIDE DEF s
  <2>3. /\ u.phase = scan[r].phase /\ u.task = scan[r].task
        /\ u.page = scan[r].page + 1 /\ u.found = PageEnd(r)
    BY <2>1 DEF Scan
  <2> HIDE DEF u
  <2> QED
    BY <1>2, <2>2, <2>3
<1>4. UNCHANGED <<table, disk, model, pic, todo>> /\ callback' = Idle
  BY DEF NextPage, diskVars
<1>5. /\ ScriptsKeepFiles' /\ WaitingCountsZero' /\ FoldersAreOwn'
      /\ CountIsExact' /\ RowsAreTrue'
  BY <1>4 DEF DataInv, ScriptsKeepFiles, WaitingCountsZero, FoldersAreOwn,
     CountIsExact, Counted, RowsAreTrue, AllOnDisk
<1>6. \A q \in Runs : TaskOf(q)' = TaskOf(q)
  BY <1>3 DEF TaskOf
<1>7. CountedIsOnDisk'
  BY <1>4, <1>6 DEF DataInv, CountedIsOnDisk, FolderOf
<1>8. CallbackCounts' /\ ReadIsBegun' /\ OfferedOnPage'
  BY <1>4 DEF Idle, CallbackCounts, ReadIsBegun, BeingRead, OfferedOnPage,
     Reading
<1>9. FoundIsOnPage'
  <2>1. scan[r].page + 1 \in 1..Len(PicsUpTo[TaskOf(r)])
    BY <1>2 DEF NextPage, LastPage
  <2>2. PageEnd(r) <= PicsUpTo[TaskOf(r)][scan[r].page + 1]
    <3>1. /\ scan[r].page \in DOMAIN PicsUpTo[TaskOf(r)]
          /\ scan[r].page + 1 \in DOMAIN PicsUpTo[TaskOf(r)]
          /\ scan[r].page <= scan[r].page + 1
      BY <1>2, <2>1
    <3> QED
      BY <1>2, <3>1, PipelineAssumption DEF PageEnd
  <2>3. scan'[r].found <= PageEnd(r)'
    BY <1>3, <1>6, <2>2 DEF PageEnd
  <2> QED
    BY <1>3, <1>6, <2>3 DEF DataInv, OfferedIsFound, FoundIsOnPage, PageEnd
<1>10. OfferedBetweenPages'
  <2>1. /\ model[r].status = StartScane
        /\ \A i \in Offered(r) : i <= PageEnd(r)
    BY <1>1 DEF DataInv, OfferedIsFound, OfferedOnPage, Reading
  <2>2. \A q \in Runs \ {r} : ~BeingRead(q)
    BY <1>1 DEF BeingRead
  <2>3. \A q \in Runs \ {r} : InQueue(q)' <=> InQueue(q)
    BY <1>3 DEF InQueue
  <2>4. \A q \in Runs : Offered(q)' = Offered(q) /\ model'[q] = model[q]
    BY <1>4 DEF Offered
  <2>5. \A q \in Runs \ {r} : InQueue(q)' =>
           /\ model'[q].status = StartScane
           /\ \A i \in Offered(q)' : i <= scan'[q].found
    BY <1>3, <2>2, <2>3, <2>4 DEF DataInv, OfferedIsFound, OfferedBetweenPages
  <2> QED
    BY <1>3, <2>1, <2>4, <2>5 DEF OfferedBetweenPages
<1>11. OfferedInAll'
  BY <1>4 DEF DataInv, OfferedIsFound, OfferedInAll, Offered
<1> QED
  BY <1>5, <1>7, <1>8, <1>9, <1>10, <1>11 DEF DataInv, OfferedIsFound

(* A row written as finished has every picture counted, and on disk.       *)
LEMMA FinishedRow ==
    ASSUME TypeInv, DataInv, NEW r \in Runs, TaskOf(r) \in Tasks,
           NEW S \in SUBSET PicNos, NEW n \in Nat,
           Cardinality(S) = n,
           \A i \in S : i <= n /\ disk[FolderOf(r)][i] = TaskOf(r)
    PROVE  \A i \in 1..n : disk[Folder[TaskOf(r)]][i] = TaskOf(r)
BY AllAreCounted DEF FolderOf

(* A step that writes one row from the model of a scan.                    *)
LEMMA WriteRow ==
    ASSUME TypeInv, DataInv, NEW r \in Runs, TaskOf(r) \in Tasks,
           NEW w \in Model, w.status # StartScane,
           table' = Update(table, TaskOf(r), w), UNCHANGED disk,
           w.status = FinishDownload \/ CountsMatch(w) =>
              \A i \in 1..w.total : disk[Folder[TaskOf(r)]][i] = TaskOf(r)
    PROVE  WaitingCountsZero' /\ RowsAreTrue'
<1>1. table \in [Tasks -> Row] /\ w.status \in 1..3
  BY DEF TypeInv, TypeOK, Table, Model
<1>2. \A t \in Tasks : \/ table'[t] = table[t]
                       \/ t = TaskOf(r) /\ table'[t] = w
  BY <1>1 DEF Update
<1>3. WaitingCountsZero'
  BY <1>1, <1>2 DEF DataInv, WaitingCountsZero, Normal
<1>4. RowsAreTrue'
  BY <1>2 DEF DataInv, RowsAreTrue, AllOnDisk
<1> QED
  BY <1>3, <1>4

(* The scan is complete: the pictures offered are those it counts.         *)
LEMMA KeepCompleteScan ==
    ASSUME TypeInv, DataInv, NEW r \in Runs, CompleteScan(r)
    PROVE  DataInv'
<1> DEFINE n == IF callback.ok THEN PageEnd(r) ELSE scan[r].found
           w == AfterScan(r, n)
<1>1. /\ callback.at = "endOfPage" /\ callback.run = r
      /\ scan[r].phase \in {"scanning", "cancelled"}
  BY DEF CompleteScan, Delivering, DataInv, OfferedIsFound, ReadIsBegun,
     BeingRead, Reading
<1>2. /\ TaskOf(r) \in Tasks /\ n \in Nat
      /\ model \in [Runs -> Model] /\ model[r] \in Model
  BY <1>1, PageTypes, PipelineAssumption DEF TypeInv, TypeOK
<1>3. \A i \in Offered(r) : i <= n
  BY <1>1 DEF DataInv, OfferedIsFound, OfferedOnPage, Reading
<1> HIDE DEF n
<1>4. /\ w \in Model /\ w.total = n /\ w.downloaded = model[r].downloaded
      /\ w.status \in {FinishScane, FinishDownload}
      /\ w.status = FinishDownload => w.downloaded = w.total
  <2> DEFINE a == [model[r] EXCEPT !.total = n]
             b == [a EXCEPT !.status = FinishScane]
             c == [b EXCEPT !.status = FinishDownload]
  <2>1. a \in Model /\ a.total = n /\ a.downloaded = model[r].downloaded
    BY <1>2 DEF Model
  <2>2. [model[r] EXCEPT !.total = n, !.status = FinishScane] = b
    BY <1>2 DEF Model
  <2> HIDE DEF a
  <2>3. /\ b \in Model /\ b.total = n /\ b.downloaded = model[r].downloaded
        /\ b.status = FinishScane
    BY <2>1 DEF Model, FinishScane
  <2>4. w = IF Completed(b) THEN c ELSE b
    BY <2>2 DEF AfterScan
  <2> HIDE DEF b
  <2>5. /\ c \in Model /\ c.total = n /\ c.downloaded = model[r].downloaded
        /\ c.status = FinishDownload
    BY <2>3 DEF Model, FinishDownload
  <2> HIDE DEF c
  <2> QED
    BY <2>3, <2>4, <2>5 DEF Completed, FinishScane, FinishDownload
<1>5. /\ model' = [model EXCEPT ![r] = w]
      /\ table' = Update(table, TaskOf(r), w)
  BY DEF CompleteScan, n
<1> HIDE DEF w
<1>6. UNCHANGED <<disk, scan, pic>> /\ callback' = At("finishScan", r, 0, TRUE)
  BY DEF CompleteScan, diskVars
<1>7. \A q \in Runs : Counted(q)' = Counted(q) /\ Offered(q)' = Offered(q)
  BY <1>6 DEF Counted, Offered
<1>8. WaitingCountsZero' /\ RowsAreTrue'
  <2>1. ASSUME w.status = FinishDownload \/ CountsMatch(w)
        PROVE  \A i \in 1..w.total : disk[Folder[TaskOf(r)]][i] = TaskOf(r)
    <3>1. Cardinality(Counted(r)) = n
      BY <1>4, <2>1 DEF CountsMatch, DataInv, CountIsExact
    <3>2. /\ Counted(r) \in SUBSET PicNos
          /\ \A i \in Counted(r) : i <= n /\ disk[FolderOf(r)][i] = TaskOf(r)
      BY <1>3 DEF Counted, Offered, DataInv, CountedIsOnDisk
    <3> QED
      BY <1>2, <1>4, <3>1, <3>2, FinishedRow
  <2>2. w.status # StartScane
    BY <1>4 DEF StartScane, FinishScane, FinishDownload
  <2> QED
    BY <1>2, <1>4, <1>5, <1>6, <2>1, <2>2, WriteRow
<1>9. ScriptsKeepFiles'
  <2>1. \A j \in KeepingInstr : <<j>> \in Seq(KeepingInstr)
    OBVIOUS
  <2>2. Gate(FALSE) \in KeepingInstr
    BY KeepingTypes
  <2> QED
    BY <2>1, <2>2 DEF CompleteScan, NextIsPrepared, DataInv, ScriptsKeepFiles
<1>10. FoldersAreOwn' /\ CountedIsOnDisk'
  BY <1>6 DEF DataInv, FoldersAreOwn, CountedIsOnDisk, FolderOf, TaskOf
<1>11. CountIsExact'
  BY <1>2, <1>4, <1>5, <1>7 DEF DataInv, CountIsExact
<1>12. CallbackCounts' /\ OfferedOnPage'
  BY <1>6 DEF At, CallbackCounts, OfferedOnPage, Reading
<1>13. ReadIsBegun'
  BY <1>1, <1>6 DEF At, ReadIsBegun, BeingRead
<1>14. FoundIsOnPage'
  BY <1>6 DEF DataInv, OfferedIsFound, FoundIsOnPage, PageEnd, TaskOf
<1>15. OfferedBetweenPages'
  <2>1. ASSUME NEW q \in Runs, InQueue(q)', ~BeingRead(q)'
        PROVE  InQueue(q) /\ ~BeingRead(q) /\ q # r
    BY <1>1, <1>6, <2>1 DEF At, InQueue, BeingRead, Reading
  <2>2. \A q \in Runs \ {r} : model'[q] = model[q]
    BY <1>5
  <2> QED
    BY <1>6, <1>7, <2>1, <2>2 DEF DataInv, OfferedIsFound, OfferedBetweenPages
<1>16. OfferedInAll'
  <2>1. \A q \in Runs \ {r} : model'[q] = model[q]
    BY <1>5
  <2>2. model'[r] = w
    BY <1>2, <1>5
  <2> QED
    BY <1>3, <1>4, <1>7, <2>1, <2>2 DEF DataInv, OfferedIsFound, OfferedInAll
<1> QED
  BY <1>8, <1>9, <1>10, <1>11, <1>12, <1>13, <1>14, <1>15, <1>16
     DEF DataInv, OfferedIsFound

(* Once the callback is over, a scan it leaves is out of the queue.        *)
LEMMA FrameIdle ==
    ASSUME TypeInv, DataInv, NEW r \in Runs,
           UNCHANGED <<table, disk, model, pic, todo>>,
           callback' = Idle, callback.run = r,
           \A q \in Runs :
              /\ scan'[q].task = scan[q].task
              /\ scan'[q].page = scan[q].page
              /\ scan'[q].found = scan[q].found
              /\ scan[q].phase = "free" => scan'[q].phase = "free"
              /\ InQueue(q)' => InQueue(q) /\ q # r
    PROVE  DataInv'
<1>1. /\ ScriptsKeepFiles' /\ WaitingCountsZero' /\ FoldersAreOwn'
      /\ CountIsExact' /\ CountedIsOnDisk' /\ RowsAreTrue'
  BY DEF DataInv, ScriptsKeepFiles, WaitingCountsZero, FoldersAreOwn,
     CountIsExact, Counted, CountedIsOnDisk, FolderOf, TaskOf, RowsAreTrue,
     AllOnDisk
<1>2. CallbackCounts' /\ ReadIsBegun' /\ OfferedOnPage'
  BY DEF Idle, CallbackCounts, ReadIsBegun, BeingRead, OfferedOnPage, Reading
<1>3. \A q \in Runs : PageEnd(q)' = PageEnd(q) /\ Offered(q)' = Offered(q)
  BY DEF PageEnd, TaskOf, Offered
<1>4. FoundIsOnPage' /\ OfferedInAll'
  BY <1>3 DEF DataInv, OfferedIsFound, FoundIsOnPage, OfferedInAll
<1>5. OfferedBetweenPages'
  <2>1. \A q \in Runs \ {r} : ~BeingRead(q)
    BY DEF BeingRead
  <2> QED
    BY <1>3, <2>1 DEF DataInv, OfferedIsFound, OfferedBetweenPages
<1> QED
  BY <1>1, <1>2, <1>4, <1>5 DEF DataInv, OfferedIsFound

(* A scan that ends has its status in the model already.                   *)
LEMMA KeepFinishScan ==
    ASSUME TypeInv, DataInv, NEW r \in Runs, FinishScan(r)
    PROVE  DataInv'
<1>1. scan[r].phase \in {"scanning", "cancelled"} /\ callback.run = r
  BY DEF FinishScan, Delivering, DataInv, OfferedIsFound, ReadIsBegun, BeingRead
<1>2. scan \in [Runs -> Scan] /\ scan[r] \in Scan
  BY DEF TypeInv, TypeOK
<1>3. /\ scan'[r].phase \in {"finished", "cancelled"}
      /\ scan'[r].task = scan[r].task /\ scan'[r].page = scan[r].page
      /\ scan'[r].found = scan[r].found
      /\ \A q \in Runs \ {r} : scan'[q] = scan[q]
  BY <1>1, <1>2 DEF FinishScan, Scan
<1> QED
  BY <1>1, <1>3, FrameIdle DEF FinishScan, diskVars, InQueue

(* A handler that vanishes belongs to a scan that is cancelled.            *)
LEMMA KeepHandlerVanishes ==
    ASSUME TypeInv, DataInv, NEW r \in Runs, HandlerVanishes(r)
    PROVE  DataInv'
<1>1. ~InQueue(r)
  BY DEF HandlerVanishes, InQueue
<1> QED
  BY <1>1, FrameIdle DEF HandlerVanishes, diskVars, runVars, InQueue

(* A scan that starts has offered nothing more than when it was queued.    *)
LEMMA KeepStartScan ==
    ASSUME TypeInv, DataInv, NEW r \in Runs, StartScan(r)
    PROVE  DataInv'
<1>1. scan \in [Runs -> Scan] /\ scan[r] \in Scan
  BY DEF TypeInv, TypeOK
<1>2. /\ \/ scan[r].phase = "queued" /\ scan'[r].phase = "scanning"
         \/ scan[r].phase = "withdrawn" /\ scan'[r].phase = "cancelled"
      /\ scan'[r].task = scan[r].task /\ scan'[r].page = scan[r].page
      /\ scan'[r].found = scan[r].found
      /\ \A q \in Runs \ {r} : scan'[q] = scan[q]
  BY <1>1 DEF StartScan, Scan
<1>3. \A q \in Runs : BeingRead(q) => scan[q].phase \in {"scanning", "cancelled"}
  BY DEF DataInv, OfferedIsFound, ReadIsBegun
<1>4. ScriptsKeepFiles'
  BY DEF DataInv, ScriptsKeepFiles, StartScan
<1>5. \A q \in Runs : InQueue(q)' => InQueue(q)
  BY <1>2 DEF InQueue
<1> QED
  BY <1>2, <1>3, <1>4, <1>5, FramePhases DEF StartScan, diskVars

-----------------------------------------------------------------------------
(* Pictures.                                                               *)

(* A step of one download that neither counts it nor saves it.             *)
LEMMA FramePicture ==
    ASSUME TypeInv, DataInv, NEW r \in Runs, NEW i \in PicNos,
           NEW v \in {"running", "failed"},
           pic[r][i] \in {"waiting", "running", "late"},
           pic' = [pic EXCEPT ![r][i] = v],
           UNCHANGED <<table, disk, scan, model, todo, callback>>
    PROVE  DataInv'
<1>1. pic \in [Runs -> [PicNos -> PicStates]]
  BY DEF TypeInv, TypeOK
<1>2. /\ pic'[r][i] = v
      /\ \A q \in Runs, j \in PicNos : q # r \/ j # i => pic'[q][j] = pic[q][j]
  BY <1>1
<1>3. \A q \in Runs : Counted(q)' = Counted(q) /\ Offered(q)' = Offered(q)
  BY <1>2 DEF Counted, Offered
<1>4. /\ ScriptsKeepFiles' /\ WaitingCountsZero' /\ FoldersAreOwn'
      /\ RowsAreTrue'
  BY DEF DataInv, ScriptsKeepFiles, WaitingCountsZero, FoldersAreOwn,
     RowsAreTrue, AllOnDisk
<1>9. CallbackCounts'
  <2>1. callback.at = "count" => /\ callback.run \in Runs
                                 /\ callback.pic \in PicNos
                                 /\ pic[callback.run][callback.pic] = "saved"
    BY DEF DataInv, CallbackCounts, TypeInv, Shape, CallbackIsOfScan
  <2> QED
    BY <1>2, <2>1 DEF CallbackCounts
<1>5. CountIsExact'
  BY <1>3 DEF DataInv, CountIsExact
<1>6. CountedIsOnDisk'
  BY <1>2 DEF DataInv, CountedIsOnDisk, FolderOf, TaskOf
<1>7. ReadIsBegun' /\ FoundIsOnPage'
  BY DEF DataInv, OfferedIsFound, ReadIsBegun, FoundIsOnPage, BeingRead,
     PageEnd, TaskOf
<1>8. OfferedBetweenPages' /\ OfferedOnPage' /\ OfferedInAll'
  BY <1>3 DEF DataInv, OfferedIsFound, OfferedBetweenPages, OfferedOnPage,
     OfferedInAll, InQueue, BeingRead, PageEnd, TaskOf
<1> QED
  BY <1>4, <1>5, <1>6, <1>7, <1>8, <1>9 DEF DataInv, OfferedIsFound

(* A download that starts is not counted yet.                              *)
LEMMA KeepStartDownload ==
    ASSUME TypeInv, DataInv, NEW r \in Runs, NEW i \in PicNos,
           StartDownload(r, i)
    PROVE  DataInv'
BY FramePicture DEF StartDownload, diskVars

(* Nor is one that fails.                                                  *)
LEMMA KeepPictureFails ==
    ASSUME TypeInv, DataInv, NEW r \in Runs, NEW i \in PicNos,
           PictureFails(r, i)
    PROVE  DataInv'
BY FramePicture DEF PictureFails, diskVars

(* A picture that arrives is its own set's, and no other is touched.       *)
LEMMA KeepPictureArrives ==
    ASSUME KeepsFiles, TypeInv, DataInv, NEW r \in Runs, NEW i \in PicNos,
           PictureArrives(r, i)
    PROVE  DataInv'
<1> DEFINE f == FolderOf(r)
           t == TaskOf(r)
<1>1. /\ t \in Tasks /\ f = Folder[t] /\ f \in Folders
      /\ pic[r][i] \in {"running", "late"}
  <2>1. pic[r][i] \in {"running", "late"}
    BY DEF PictureArrives
  <2>2. scan[r].phase # "free"
    BY <2>1, PendingTypes
  <2> QED
    BY <2>1, <2>2, PageTypes DEF FolderOf
<1>2. /\ disk \in [Folders -> [PicNos -> Tasks \cup {NoFile}]]
      /\ pic \in [Runs -> [PicNos -> PicStates]]
      /\ \A u \in Tasks : Folder[u] \in Folders
      /\ NoFile \notin Tasks
  BY TasksAssumption DEF TypeInv, TypeOK, Folders, NoFile
<1>3. disk[f][i] \in {t, NoFile}
  BY <1>1 DEF DataInv, FoldersAreOwn
<1>4. /\ disk'[f][i] = t
      /\ \A g \in Folders, j \in PicNos : g # f \/ j # i =>
            disk'[g][j] = disk[g][j]
  BY <1>1, <1>2, <1>3 DEF PictureArrives
<1>5. /\ pic'[r][i] = "saved"
      /\ \A q \in Runs, j \in PicNos : q # r \/ j # i => pic'[q][j] = pic[q][j]
  BY <1>2 DEF PictureArrives
<1>6. /\ UNCHANGED <<table, scan, model, todo>>
      /\ callback' = At("count", r, i, TRUE) /\ callback = Idle
  BY DEF PictureArrives, DelegateIsFree
<1>7. \A u \in Tasks, j \in PicNos : disk[Folder[u]][j] = u =>
                                        disk'[Folder[u]][j] = u
  BY <1>1, <1>2, <1>4 DEF KeepsFiles
<1>8. FoldersAreOwn'
  BY <1>1, <1>2, <1>4 DEF KeepsFiles, DataInv, FoldersAreOwn
<1>9. \A q \in Runs : Counted(q)' = Counted(q) /\ Offered(q)' = Offered(q)
  BY <1>1, <1>5 DEF Counted, Offered
<1>10. CountIsExact'
  BY <1>6, <1>9 DEF DataInv, CountIsExact
<1>11. CountedIsOnDisk'
  <2>1. \A q \in Runs, j \in PicNos : pic[q][j] # "none" => TaskOf(q) \in Tasks
    BY PendingTypes, PageTypes
  <2>2. ASSUME NEW q \in Runs, NEW j \in PicNos,
               pic'[q][j] \in {"saved", "counted"}
        PROVE  disk'[FolderOf(q)][j] = TaskOf(q)
    <3>1. CASE q = r /\ j = i
      BY <1>1, <1>4, <3>1 DEF FolderOf
    <3>2. CASE q # r \/ j # i
      <4>1. pic[q][j] \in {"saved", "counted"}
        BY <1>5, <2>2, <3>2
      <4>2. disk[Folder[TaskOf(q)]][j] = TaskOf(q) /\ TaskOf(q) \in Tasks
        BY <2>1, <4>1 DEF DataInv, CountedIsOnDisk, FolderOf
      <4> QED
        BY <1>7, <4>2 DEF FolderOf
    <3> QED
      BY <3>1, <3>2
  <2> QED
    BY <1>6, <2>2 DEF CountedIsOnDisk, FolderOf, TaskOf
<1>12. CallbackCounts'
  BY <1>5, <1>6 DEF At, CallbackCounts
<1>13. ScriptsKeepFiles' /\ WaitingCountsZero'
  BY <1>6 DEF DataInv, ScriptsKeepFiles, WaitingCountsZero
<1>14. RowsAreTrue'
  <2>1. ASSUME NEW u \in Tasks, AllOnDisk(u)
        PROVE  AllOnDisk(u)'
    <3>1. ASSUME NEW j \in 1..table[u].total
          PROVE  disk'[Folder[u]][j] = u
      <4>1. disk[Folder[u]][j] = u
        BY <2>1 DEF AllOnDisk
      <4>2. CASE j \in PicNos
        BY <1>7, <4>1, <4>2
      <4>3. CASE j \notin PicNos
        BY <1>1, <1>2, <4>1, <4>3 DEF PictureArrives
      <4> QED
        BY <4>2, <4>3
    <3> QED
      BY <1>6, <3>1 DEF AllOnDisk
  <2> QED
    BY <1>6, <2>1 DEF DataInv, RowsAreTrue
<1>15. ReadIsBegun' /\ OfferedOnPage'
  BY <1>6 DEF At, ReadIsBegun, OfferedOnPage, BeingRead, Reading
<1>16. FoundIsOnPage' /\ OfferedInAll'
  BY <1>6, <1>9 DEF DataInv, OfferedIsFound, FoundIsOnPage, OfferedInAll,
     PageEnd, TaskOf
<1>17. OfferedBetweenPages'
  <2>1. \A q \in Runs : ~BeingRead(q)
    BY <1>6 DEF Idle, BeingRead, Reading
  <2> QED
    BY <1>6, <1>9, <2>1 DEF DataInv, OfferedIsFound, OfferedBetweenPages,
       InQueue
<1> QED
  BY <1>8, <1>10, <1>11, <1>12, <1>13, <1>14, <1>15, <1>16, <1>17
     DEF DataInv, OfferedIsFound

(* Counting a picture: the last one finishes the row, and by then every    *)
(* number up to the total is counted.                                      *)
LEMMA KeepCountPicture ==
    ASSUME TypeInv, DataInv, NEW r \in Runs, CountPicture(r)
    PROVE  DataInv'
<1> DEFINE i == callback.pic
           m == [model[r] EXCEPT !.downloaded = @ + 1]
           w == [m EXCEPT !.status = FinishDownload]
<1>1. /\ callback.at = "count" /\ callback.run = r /\ i \in PicNos
      /\ pic[r][i] = "saved"
      /\ scan[r].phase # "free"
  BY DEF CountPicture, Delivering, TypeInv, Shape, CallbackIsOfScan, DataInv,
     CallbackCounts
<1>2. /\ TaskOf(r) \in Tasks /\ model \in [Runs -> Model] /\ model[r] \in Model
      /\ pic \in [Runs -> [PicNos -> PicStates]]
  BY <1>1, PageTypes DEF TypeInv, TypeOK
<1>3. /\ m \in Model /\ m.status = model[r].status /\ m.total = model[r].total
      /\ m.downloaded = model[r].downloaded + 1
  BY <1>2 DEF Model
<1>4. UNCHANGED <<disk, scan>> /\ callback' = Idle
  BY DEF CountPicture, diskVars
<1>5. /\ \/ /\ m.status = FinishScane /\ Completed(m)
            /\ model' = [model EXCEPT ![r] = w]
            /\ table' = Update(table, TaskOf(r), w)
            /\ todo' = [todo EXCEPT !["deleg"] = <<PostComplete>>]
         \/ /\ model' = [model EXCEPT ![r] = m]
            /\ UNCHANGED <<table, todo>>
  BY DEF CountPicture
<1> HIDE DEF m
<1>6. /\ w \in Model /\ w.status = FinishDownload /\ w.total = m.total
      /\ w.downloaded = m.downloaded
  BY <1>3 DEF Model, FinishDownload
<1> HIDE DEF w
<1>7. /\ pic'[r][i] = "counted"
      /\ \A q \in Runs, j \in PicNos : q # r \/ j # i => pic'[q][j] = pic[q][j]
  BY <1>1, <1>2 DEF CountPicture
<1>8. /\ \A q \in Runs : Offered(q)' = Offered(q)
      /\ \A q \in Runs \ {r} : Counted(q)' = Counted(q)
      /\ Counted(r)' = Counted(r) \cup {i}
  BY <1>1, <1>7 DEF Counted, Offered
<1>9. /\ Counted(r) \cup {i} \in SUBSET PicNos
      /\ Cardinality(Counted(r) \cup {i}) = m.downloaded
  <2>1. Counted(r) \in SUBSET PicNos /\ i \notin Counted(r)
    BY <1>1 DEF Counted
  <2>2. Cardinality(Counted(r) \cup {i}) = Cardinality(Counted(r)) + 1
    BY <1>1, <2>1, OneMore
  <2> QED
    BY <1>1, <1>3, <2>1, <2>2 DEF DataInv, CountIsExact
<1>10. CountIsExact'
  <2>1. /\ model'[r].downloaded = m.downloaded
        /\ \A q \in Runs \ {r} : model'[q] = model[q]
    BY <1>2, <1>5, <1>6
  <2>2. model'[r].downloaded = Cardinality(Counted(r)')
    BY <1>8, <1>9, <2>1
  <2>3. \A q \in Runs \ {r} : model'[q].downloaded = Cardinality(Counted(q)')
    BY <1>8, <2>1 DEF DataInv, CountIsExact
  <2>4. \A q \in Runs : model'[q].downloaded = Cardinality(Counted(q)')
    BY <2>2, <2>3
  <2> QED
    BY <2>4 DEF CountIsExact
<1>11. CountedIsOnDisk'
  BY <1>1, <1>4, <1>7 DEF DataInv, CountedIsOnDisk, FolderOf, TaskOf
<1>12. WaitingCountsZero' /\ RowsAreTrue'
  <2>1. CASE UNCHANGED table
    BY <1>4, <2>1 DEF DataInv, WaitingCountsZero, RowsAreTrue, AllOnDisk
  <2>2. CASE /\ m.status = FinishScane /\ Completed(m)
             /\ table' = Update(table, TaskOf(r), w)
    <3>1. /\ model[r].status # StartScane
          /\ m.downloaded = m.total /\ m.total \in Nat
      BY <1>3, <2>2 DEF Completed, FinishScane, StartScane, Model
    <3>2. \A j \in Counted(r) \cup {i} :
             j <= m.total /\ disk[FolderOf(r)][j] = TaskOf(r)
      BY <1>1, <1>3, <3>1 DEF DataInv, OfferedIsFound, OfferedInAll, Offered,
         Counted, CountedIsOnDisk
    <3>3. \A j \in 1..w.total : disk[Folder[TaskOf(r)]][j] = TaskOf(r)
      BY <1>2, <1>6, <1>9, <3>1, <3>2, FinishedRow
    <3>4. w.status # StartScane
      BY <1>6 DEF StartScane, FinishDownload
    <3> QED
      BY <1>2, <1>4, <1>6, <2>2, <3>3, <3>4, WriteRow
  <2> QED
    BY <1>5, <2>1, <2>2
<1>13. ScriptsKeepFiles'
  <2>1. \A j \in KeepingInstr : <<j>> \in Seq(KeepingInstr)
    OBVIOUS
  <2>2. PostComplete \in KeepingInstr
    BY KeepingTypes
  <2> QED
    BY <1>5, <2>1, <2>2 DEF DataInv, ScriptsKeepFiles
<1>14. FoldersAreOwn' /\ CallbackCounts' /\ ReadIsBegun' /\ OfferedOnPage'
  BY <1>4 DEF DataInv, FoldersAreOwn, Idle, CallbackCounts, ReadIsBegun,
     BeingRead, OfferedOnPage, Reading
<1>15. FoundIsOnPage'
  BY <1>4 DEF DataInv, OfferedIsFound, FoundIsOnPage, PageEnd, TaskOf
<1>16. /\ \A q \in Runs \ {r} : model'[q] = model[q]
       /\ model'[r].total = model[r].total
       /\ model'[r].status = StartScane <=> model[r].status = StartScane
  <2>1. FinishScane # StartScane /\ FinishDownload # StartScane
    BY DEF StartScane, FinishScane, FinishDownload
  <2> QED
    BY <1>2, <1>3, <1>5, <1>6, <2>1
<1>17. OfferedBetweenPages'
  <2>1. \A q \in Runs : ~BeingRead(q)
    BY <1>1 DEF BeingRead, Reading
  <2>2. \A q \in Runs : InQueue(q)' <=> InQueue(q)
    BY <1>4 DEF InQueue
  <2>3. \A q \in Runs : InQueue(q) =>
           /\ model[q].status = StartScane
           /\ \A j \in Offered(q) : j <= scan[q].found
    BY <2>1 DEF DataInv, OfferedIsFound, OfferedBetweenPages
  <2> QED
    BY <1>4, <1>8, <1>16, <2>2, <2>3 DEF OfferedBetweenPages
<1>18. OfferedInAll'
  BY <1>8, <1>16 DEF DataInv, OfferedIsFound, OfferedInAll
<1> QED
  BY <1>10, <1>11, <1>12, <1>13, <1>14, <1>15, <1>17, <1>18
     DEF DataInv, OfferedIsFound

(* A freed model object counts nothing and has offered nothing.            *)
LEMMA KeepRelease ==
    ASSUME TypeInv, DataInv, NEW r \in Runs, Release(r)
    PROVE  DataInv'
<1>1. /\ scan' = [scan EXCEPT ![r] = FreeScan]
      /\ model' = [model EXCEPT ![r] =
                     [status |-> 1, total |-> 0, downloaded |-> 0]]
      /\ pic' = [pic EXCEPT ![r] = NoPics]
      /\ callback.run # r
      /\ UNCHANGED <<table, disk, todo, callback>>
  BY DEF Release, diskVars
<1>2. /\ scan'[r] = FreeScan
      /\ model'[r] = [status |-> 1, total |-> 0, downloaded |-> 0]
      /\ pic'[r] = NoPics
      /\ \A q \in Runs \ {r} : /\ scan'[q] = scan[q] /\ model'[q] = model[q]
                               /\ pic'[q] = pic[q]
  BY <1>1 DEF TypeInv, TypeOK
<1>3. /\ Counted(r)' = {} /\ Offered(r)' = {} /\ ~InQueue(r)'
      /\ \A q \in Runs \ {r} : /\ Counted(q)' = Counted(q)
                               /\ Offered(q)' = Offered(q)
                               /\ InQueue(q)' <=> InQueue(q)
                               /\ PageEnd(q)' = PageEnd(q)
                               /\ TaskOf(q)' = TaskOf(q)
  BY <1>2 DEF Counted, Offered, NoPics, InQueue, FreeScan, PageEnd, TaskOf
<1>4. /\ ScriptsKeepFiles' /\ WaitingCountsZero' /\ FoldersAreOwn'
      /\ RowsAreTrue'
  BY <1>1 DEF DataInv, ScriptsKeepFiles, WaitingCountsZero, FoldersAreOwn,
     RowsAreTrue, AllOnDisk
<1>5. CountIsExact'
  <2>1. model'[r].downloaded = Cardinality(Counted(r)')
    BY <1>2, <1>3, FS_EmptySet
  <2>2. \A q \in Runs \ {r} : model'[q].downloaded = Cardinality(Counted(q)')
    BY <1>2, <1>3 DEF DataInv, CountIsExact
  <2>3. \A q \in Runs : model'[q].downloaded = Cardinality(Counted(q)')
    BY <2>1, <2>2
  <2> QED
    BY <2>3 DEF CountIsExact
<1>6. CountedIsOnDisk'
  BY <1>1, <1>2, <1>3 DEF DataInv, CountedIsOnDisk, FolderOf, NoPics
<1>7. CallbackCounts'
  BY <1>1, <1>2 DEF DataInv, CallbackCounts, TypeInv, Shape, CallbackIsOfScan
<1>8. \A q \in Runs : BeingRead(q)' <=> BeingRead(q)
  BY <1>1 DEF BeingRead
<1>9. ReadIsBegun'
  <2>1. ~BeingRead(r)
    BY <1>1 DEF BeingRead
  <2> QED
    BY <1>2, <1>8, <2>1 DEF DataInv, OfferedIsFound, ReadIsBegun
<1>10. FoundIsOnPage'
  BY <1>2, <1>3 DEF DataInv, OfferedIsFound, FoundIsOnPage, FreeScan
<1>11. OfferedBetweenPages'
  BY <1>2, <1>3, <1>8 DEF DataInv, OfferedIsFound, OfferedBetweenPages
<1>12. OfferedOnPage'
  BY <1>1, <1>2, <1>3 DEF DataInv, OfferedIsFound, OfferedOnPage
<1>13. OfferedInAll'
  BY <1>2, <1>3 DEF DataInv, OfferedIsFound, OfferedInAll
<1> QED
  BY <1>4, <1>5, <1>6, <1>7, <1>9, <1>10, <1>11, <1>12, <1>13
     DEF DataInv, OfferedIsFound

(* DataInv through every step of the operations and of the delegate queue. *)
LEMMA DataRun ==
    ASSUME KeepsFiles, TypeInv, DataInv, NEW r \in Runs, RunStep(r)
    PROVE  DataInv'
<1>1. CASE \E i \in PicNos : \/ StartDownload(r, i)
                             \/ PictureArrives(r, i)
                             \/ PictureFails(r, i)
  BY <1>1, KeepStartDownload, KeepPictureArrives, KeepPictureFails
<1> QED
  BY <1>1, KeepPageAnswer, KeepDealWithPage, KeepOfferPicture, KeepNextPage,
     KeepCompleteScan, KeepFinishScan, KeepHandlerVanishes, KeepStartScan,
     KeepCountPicture, KeepRelease DEF RunStep

-----------------------------------------------------------------------------
(* The user, the crashes, and the theorem.                                 *)

(* DataInv through the user operations KeepsFiles allows.                  *)
LEMMA DataUser ==
    ASSUME KeepsFiles, TypeInv, DataInv, UserStep
    PROVE  DataInv'
<1>0. todo \in [Threads -> Seq(KeepingInstr)]
  BY DEF DataInv, ScriptsKeepFiles
<1>a. \A s \in Seq(KeepingInstr) : MainDoes(s) => ScriptsKeepFiles'
  BY <1>0 DEF MainDoes, ScriptsKeepFiles
<1>b. /\ \A j \in KeepingInstr : <<j>> \in Seq(KeepingInstr)
      /\ \A j, k \in KeepingInstr : <<j, k>> \in Seq(KeepingInstr)
      /\ \A j, k, l \in KeepingInstr : <<j, k, l>> \in Seq(KeepingInstr)
  BY ScriptTypes
<1>c. \A a, b \in Seq(KeepingInstr) : a \o b \in Seq(KeepingInstr)
  OBVIOUS
<1>d. \A S \in SUBSET Tasks : CancelTasks(S) \in Seq(KeepingInstr)
  BY <1>b, KeepingTypes DEF CancelTasks
<1>1. CASE CancelAll
  <2>1. CancelAllTasks \in Seq(KeepingInstr)
    BY <1>b, KeepingTypes DEF CancelAllTasks
  <2> QED
    BY <1>1, <1>a, <2>1, FrameScripts DEF CancelAll, diskVars, runVars
<1>2. CASE RestartAll
  <2>1. <<ResetZero>> \in Seq(KeepingInstr)
    BY <1>b, KeepingTypes
  <2> QED
    BY <1>2, <1>a, <2>1, FrameScripts DEF RestartAll, diskVars, runVars
<1>3. ASSUME NEW t \in Tasks, AddTask(t) PROVE DataInv'
  <2>1. <<Gate(FALSE)>> \in Seq(KeepingInstr)
    BY <1>b, KeepingTypes
  <2>2. ScriptsKeepFiles'
    BY <1>3, <1>a, <2>1 DEF AddTask
  <2>3. \A u \in Tasks : table'[u] = table[u] \/ table'[u] = NewRow
    BY <1>3 DEF AddTask, Insert, TypeInv, TypeOK, Table
  <2> QED
    BY <1>3, <2>2, <2>3, FrameRows DEF AddTask, runVars, NewRow, Normal,
       FinishDownload
<1>4. ASSUME NEW t \in Tasks, Redownload(t) PROVE DataInv'
  <2>1. {t} \in SUBSET Tasks
    OBVIOUS
  <2>2. <<ResetRow(t), Gate(FALSE)>> \in Seq(KeepingInstr)
    BY <1>b, KeepingTypes
  <2>3. CancelTasks({t}) \o <<ResetRow(t), Gate(FALSE)>> \in Seq(KeepingInstr)
    BY <1>c, <1>d, <2>1, <2>2
  <2> QED
    BY <1>4, <1>a, <2>3, FrameScripts DEF Redownload, diskVars, runVars
<1>5. ASSUME NEW t \in Tasks, DeleteTask(t) PROVE DataInv'
  <2>1. {t} \in SUBSET Tasks
    OBVIOUS
  <2>2. <<DeleteRows({t})>> \in Seq(KeepingInstr)
    BY <1>b, <2>1, KeepingTypes
  <2>3. CancelTasks({t}) \o <<DeleteRows({t})>> \in Seq(KeepingInstr)
    BY <1>c, <1>d, <2>1, <2>2
  <2>4. MainDoes(CancelTasks({t}) \o <<DeleteRows({t})>>)
    BY <1>5 DEF KeepsFiles, DeleteTask, May
  <2> QED
    BY <1>5, <1>a, <2>3, <2>4, FrameScripts DEF DeleteTask, diskVars, runVars
<1>6. CASE ClearAllData
  <2>1. <<DeleteRows(Tasks)>> \in Seq(KeepingInstr)
    BY <1>b, KeepingTypes
  <2>2. MainDoes(<<DeleteRows(Tasks)>>)
    BY <1>6 DEF KeepsFiles, ClearAllData, May
  <2> QED
    BY <1>6, <1>a, <2>1, <2>2, FrameScripts DEF ClearAllData, diskVars, runVars
<1>7. ASSUME NEW t \in Tasks, AddAgain(t) PROVE DataInv'
  <2>1. <<DeleteRows(Namesakes(t)), TryToAdd(t)>> \in Seq(KeepingInstr)
    BY <1>b, KeepingTypes DEF Namesakes
  <2>2. MainDoes(<<DeleteRows(Namesakes(t)), TryToAdd(t)>>)
    BY <1>7 DEF KeepsFiles, AddAgain, May
  <2> QED
    BY <1>7, <1>a, <2>1, <2>2, FrameScripts DEF AddAgain, diskVars, runVars
<1>8. /\ ~StopAndDelete /\ ~FinishAll /\ ~ClearRoot
      /\ \A t \in Tasks : /\ ~RedownloadForce(t) /\ ~ClearFolder(t)
                          /\ ~RemoveSelected(t)
      /\ \A S \in SUBSET Tasks : ~ClearCategory(S)
  BY DEF KeepsFiles, StopAndDelete, FinishAll, RedownloadForce, ClearRoot,
     ClearFolder, ClearCategory, RemoveSelected, May
<1> QED
  BY <1>1, <1>2, <1>3, <1>4, <1>5, <1>6, <1>7, <1>8 DEF UserStep

(* After a launch nothing is counted, offered or in the queue.             *)
Fresh ==
    /\ scan = [r \in Runs |-> FreeScan]
    /\ model = [r \in Runs |-> [status |-> 1, total |-> 0, downloaded |-> 0]]
    /\ pic = [r \in Runs |-> NoPics]
    /\ callback = Idle

RunsAreCounted ==
    CountIsExact /\ CountedIsOnDisk /\ CallbackCounts /\ OfferedIsFound

(* Free operations count nothing.                                          *)
LEMMA FreshRuns == Fresh => RunsAreCounted
<1> SUFFICES ASSUME Fresh PROVE RunsAreCounted
  OBVIOUS
<1> USE DEF Fresh
<1>1. \A r \in Runs : Counted(r) = {} /\ Offered(r) = {} /\ ~InQueue(r)
  BY DEF Counted, Offered, NoPics, InQueue, FreeScan
<1>2. CountIsExact
  BY <1>1, FS_EmptySet DEF CountIsExact
<1>3. CountedIsOnDisk /\ CallbackCounts
  BY DEF CountedIsOnDisk, NoPics, CallbackCounts, Idle
<1>4. /\ ReadIsBegun /\ FoundIsOnPage /\ OfferedBetweenPages /\ OfferedOnPage
      /\ OfferedInAll
  BY <1>1 DEF ReadIsBegun, FoundIsOnPage, OfferedBetweenPages, OfferedOnPage,
     OfferedInAll, BeingRead, Reading, Idle, FreeScan, StartScane
<1> QED
  BY <1>2, <1>3, <1>4 DEF RunsAreCounted, OfferedIsFound

(* prepareForAppLaunch keeps files.                                        *)
LEMMA LaunchKeepsFiles == LaunchScript \in Seq(KeepingInstr)
<1>1. /\ ResetHalf \in KeepingInstr /\ Gate(FALSE) \in KeepingInstr
      /\ [op |-> "register"] \in KeepingInstr
  BY KeepingTypes
<1> QED
  BY <1>1, ScriptTypes DEF LaunchScript

(* After a restart the rows are as true as before, and the operations are  *)
(* gone.                                                                   *)
LEMMA DataCrash ==
    ASSUME TypeInv, DataInv, Crash
    PROVE  DataInv'
<1>1. ScriptsKeepFiles'
  BY LaunchKeepsFiles DEF Crash, ScriptsKeepFiles
<1>2. WaitingCountsZero' /\ FoldersAreOwn' /\ RowsAreTrue'
  BY DEF Crash, diskVars, DataInv, WaitingCountsZero, FoldersAreOwn,
     RowsAreTrue, AllOnDisk
<1>3. Fresh'
  BY DEF Crash, Fresh
<1>4. (Fresh => RunsAreCounted)'
  BY FreshRuns, PTL
<1> QED
  BY <1>1, <1>2, <1>3, <1>4 DEF DataInv, RunsAreCounted

(* DataInv holds at the first launch.                                      *)
LEMMA DataInit == Init => DataInv
<1> SUFFICES ASSUME Init PROVE DataInv
  OBVIOUS
<1>1. ScriptsKeepFiles
  BY LaunchKeepsFiles DEF Init, InitWith, ScriptsKeepFiles
<1>2. WaitingCountsZero /\ FoldersAreOwn /\ RowsAreTrue
  BY DEF Init, InitWith, EmptyTable, NoRow, Absent, FinishDownload,
     WaitingCountsZero, FoldersAreOwn, Folders, RowsAreTrue, CountsMatch
<1>3. RunsAreCounted
  BY FreshRuns DEF Init, InitWith, Fresh
<1> QED
  BY <1>1, <1>2, <1>3 DEF DataInv, RunsAreCounted

(* DataInv is inductive, with the types, while files are kept.             *)
LEMMA DataStep == KeepsFiles /\ TypeInv /\ DataInv /\ [Next]_vars => DataInv'
<1> SUFFICES ASSUME KeepsFiles, TypeInv, DataInv, [Next]_vars PROVE DataInv'
  OBVIOUS
<1>1. CASE UNCHANGED vars
  <2>1. ScriptsKeepFiles'
    BY <1>1 DEF vars, DataInv, ScriptsKeepFiles
  <2> QED
    BY <1>1, <2>1, FrameScripts DEF vars, diskVars, runVars
<1>2. CASE \E th \in Threads : ThreadStep(th)
  BY <1>2, DataThread
<1>3. CASE \E r \in Runs : RunStep(r)
  BY <1>3, DataRun
<1> QED
  BY <1>1, <1>2, <1>3, DataUser, DataCrash DEF Next

(* A true row that is finished has its pictures.                           *)
LEMMA FinishedRowsAreTrue == RowsAreTrue => FinishedIsOnDisk
BY DEF RowsAreTrue, AllOnDisk, FinishedIsOnDisk

(* As long as files are kept, what the rows, the model objects, the        *)
(* downloads and the folders say of one another agrees at every step of    *)
(* every thread: PipelineInv is inductive.                                 *)
THEOREM PipelineIsSound == KeepsFiles => (Spec => []PipelineInv)
<1> SUFFICES ASSUME KeepsFiles PROVE Spec => []PipelineInv
  OBVIOUS
<1>1. Init => PipelineInv
  BY TypeInit, DataInit DEF PipelineInv
<1>2. PipelineInv /\ [Next]_vars => PipelineInv'
  BY TypeStep, DataStep DEF PipelineInv
<1> QED
  BY <1>1, <1>2, PTL DEF Spec

(* As long as files are kept, a set shown as finished has every picture it *)
(* counts in its folder, and they are its own: no interleaving of scans,   *)
(* late answers, cancellations and restarts of the app makes               *)
(* taskCompleteHandler, downloadSuccessBlock or resetHalfWorkingTasks      *)
(* finish a row too early.                                                 *)
THEOREM FinishedSetsAreOnDisk == KeepsFiles => (Spec => []FinishedIsOnDisk)
<1>1. PipelineInv => FinishedIsOnDisk
  BY FinishedRowsAreTrue DEF PipelineInv, DataInv
<1> QED
  BY <1>1, PipelineIsSound, PTL

-----------------------------------------------------------------------------
(* The test for the last picture.                                          *)

NotAllSeen ==
    \A r \in Runs : model[r].status = FinishScane => ~Completed(model[r])

(* The end of the scan and the count of a picture each test the model they *)
(* have just changed; a scan that goes on has another status.              *)
LEMMA NotAllSeenStep ==
    ASSUME PipelineInv, NotAllSeen, [Next]_vars
    PROVE  NotAllSeen'
<1>0. model \in [Runs -> Model]
  BY DEF PipelineInv, TypeInv, TypeOK
<1>1. CASE UNCHANGED model
  BY <1>1 DEF NotAllSeen
<1>2. ASSUME \A r \in Runs : \/ model'[r] = model[r]
                             \/ model'[r].status # FinishScane
                             \/ ~Completed(model'[r])
      PROVE  NotAllSeen'
  BY <1>2 DEF NotAllSeen
<1>3. ASSUME NEW th \in Threads, ThreadStep(th), ~EnqueueStep(th)
      PROVE  UNCHANGED model
  BY <1>3 DEF ThreadStep, GateStep, QueryStep, AdmitStep, MarkStep,
     ResetHalfStep, RegisterStep, CancelScansStep, CancelDownloadsStep,
     DeleteStep, ResetRowStep, ResetZeroStep, RemoveFoldersStep, TryToAddStep,
     PostCompleteStep, PostCancelStep, SnapshotStep, FinishEachStep,
     DeleteEachStep, runVars
<1>4. ASSUME NEW th \in Threads, EnqueueStep(th) PROVE NotAllSeen'
  BY <1>0, <1>2, <1>4 DEF EnqueueStep, StartScane, FinishScane
<1>5. ASSUME NEW r \in Runs, OfferPicture(r) PROVE NotAllSeen'
  <2>1. model[r].status = StartScane
    BY <1>5 DEF OfferPicture, Delivering, PipelineInv, DataInv,
       OfferedIsFound, OfferedOnPage, Reading
  <2>2. \A q \in Runs : \/ model'[q] = model[q]
                        \/ model'[q].status = StartScane
    BY <1>0, <1>5, <2>1 DEF OfferPicture, Model
  <2> QED
    BY <1>2, <2>2 DEF StartScane, FinishScane
<1>6. ASSUME NEW r \in Runs, CompleteScan(r) PROVE NotAllSeen'
  <2>1. \A n : \/ ~Completed(AfterScan(r, n))
               \/ AfterScan(r, n).status = FinishDownload
    <3> TAKE n
    <3> DEFINE b == [model[r] EXCEPT !.total = n, !.status = FinishScane]
    <3>1. [b EXCEPT !.status = FinishDownload].status = FinishDownload
      BY <1>0 DEF Model
    <3>2. AfterScan(r, n) = IF Completed(b)
                            THEN [b EXCEPT !.status = FinishDownload] ELSE b
      BY DEF AfterScan
    <3> QED
      BY <3>1, <3>2
  <2>2. \E n : model' = [model EXCEPT ![r] = AfterScan(r, n)]
    BY <1>6 DEF CompleteScan
  <2> QED
    BY <1>0, <1>2, <2>1, <2>2 DEF FinishScane, FinishDownload
<1>7. ASSUME NEW r \in Runs, CountPicture(r) PROVE NotAllSeen'
  <2> DEFINE m == [model[r] EXCEPT !.downloaded = @ + 1]
  <2>1. m \in Model
    BY <1>0 DEF Model
  <2>2. \/ model' = [model EXCEPT ![r] = [m EXCEPT !.status = FinishDownload]]
        \/ /\ ~(m.status = FinishScane /\ Completed(m))
           /\ model' = [model EXCEPT ![r] = m]
    BY <1>7 DEF CountPicture
  <2> HIDE DEF m
  <2>3. [m EXCEPT !.status = FinishDownload].status # FinishScane
    BY <2>1 DEF Model, FinishScane, FinishDownload
  <2> QED
    BY <1>0, <1>2, <2>2, <2>3
<1>8. ASSUME NEW r \in Runs, Release(r) PROVE NotAllSeen'
  BY <1>0, <1>2, <1>8 DEF Release, FinishScane
<1>9. ASSUME NEW r \in Runs, RunStep(r), ~OfferPicture(r), ~CompleteScan(r),
             ~CountPicture(r), ~Release(r)
      PROVE  UNCHANGED model
  BY <1>9 DEF RunStep, PageAnswer, DealWithPage, NextPage, FinishScan,
     HandlerVanishes, StartScan, StartDownload, PictureArrives, PictureFails,
     runVars
<1>10. ASSUME UserStep PROVE UNCHANGED model
  BY <1>10 DEF UserStep, CancelAll, StopAndDelete, FinishAll, RestartAll,
     AddTask, Redownload, RedownloadForce, DeleteTask, ClearAllData,
     ClearFolder, ClearCategory, ClearRoot, RemoveSelected, AddAgain, runVars
<1>11. ASSUME Crash PROVE NotAllSeen'
  BY <1>2, <1>11 DEF Crash, FinishScane
<1> QED
  BY <1>1, <1>3, <1>4, <1>5, <1>6, <1>7, <1>8, <1>9, <1>10, <1>11 DEF Next,
     vars, runVars

(* No scan has more pictures counted than it has in all.                   *)
LEMMA CountIsBounded ==
    ASSUME PipelineInv, NEW r \in Runs, model[r].status = FinishScane
    PROVE  model[r].downloaded <= model[r].total
<1>1. model[r].total \in Nat
  BY DEF PipelineInv, TypeInv, TypeOK, Model
<1>2. Counted(r) \subseteq 1..model[r].total
  BY <1>1, PipelineAssumption DEF PipelineInv, DataInv, OfferedIsFound,
     OfferedInAll, StartScane, FinishScane, Counted, Offered, PicNos
<1>3. /\ IsFiniteSet(1..model[r].total)
      /\ Cardinality(1..model[r].total) = model[r].total
  <2>1. \A n \in Nat : IsFiniteSet(1..n) /\ Cardinality(1..n) = n
    BY FS_Interval
  <2> QED
    BY <1>1, <2>1
<1>4. Cardinality(Counted(r)) <= Cardinality(1..model[r].total)
  BY <1>2, <1>3, FS_Subset
<1> QED
  BY <1>3, <1>4 DEF PipelineInv, DataInv, CountIsExact

(* As long as files are kept, the last picture is never missed: however    *)
(* the end of a scan and the answers to its pictures are ordered, one of   *)
(* taskCompleteHandler and downloadSuccessBlock finds the counts equal     *)
(* before one of them runs past the other.                                 *)
THEOREM LastPictureIsNeverMissed == KeepsFiles => (Spec => []LastPictureIsSeen)
<1> SUFFICES ASSUME KeepsFiles PROVE Spec => []LastPictureIsSeen
  OBVIOUS
<1>1. Init => NotAllSeen
  BY DEF Init, InitWith, NotAllSeen, FinishScane
<1>2. PipelineInv /\ NotAllSeen /\ [Next]_vars => NotAllSeen'
  BY NotAllSeenStep
<1>3. PipelineInv /\ NotAllSeen => LastPictureIsSeen
  <2> SUFFICES ASSUME PipelineInv, NotAllSeen, NEW r \in Runs,
                      model[r].status = FinishScane, model[r].total > 0
               PROVE  model[r].downloaded < model[r].total
    BY DEF LastPictureIsSeen
  <2>1. model[r].downloaded <= model[r].total
    BY CountIsBounded
  <2>2. model[r].downloaded # model[r].total
    BY DEF NotAllSeen, Completed
  <2>3. model[r].downloaded \in Nat /\ model[r].total \in Nat
    BY DEF PipelineInv, TypeInv, TypeOK, Model
  <2> QED
    BY <2>1, <2>2, <2>3
<1> QED
  BY <1>1, <1>2, <1>3, PipelineIsSound, PTL DEF Spec
=============================================================================
