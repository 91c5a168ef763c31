----------------------- MODULE DownloadPipelineProofs -----------------------
(***************************************************************************)
(* What DownloadPipeline keeps whatever the user does and whatever fails,  *)
(* for every value of its constants: its types, and the bound of the scan  *)
(* queue, which passes its limit by one operation less than there are      *)
(* threads, and no more.                                                   *)
(***************************************************************************)
EXTENDS PipelineInvariant, FiniteSetTheorems, TLAPS

-----------------------------------------------------------------------------
(* Instructions and scripts.                                               *)

(* The constructors build instructions.                                    *)
LEMMA InstrTypes ==
    /\ \A f \in BOOLEAN : Gate(f) \in Instr
    /\ Query \in Instr /\ ResetHalf \in Instr /\ ResetZero \in Instr
    /\ PostComplete \in Instr /\ [op |-> "register"] \in Instr
    /\ \A t \in Tasks, n \in Nat : /\ Admit(t, n) \in Instr
                                   /\ Mark(t, n) \in Instr
                                   /\ Enqueue(t, n) \in Instr
    /\ \A S \in SUBSET Tasks : /\ CancelScans(S) \in Instr
                               /\ CancelDownloads(S) \in Instr
                               /\ DeleteRows(S) \in Instr
                               /\ PostCancel(S) \in Instr
                               /\ RemoveFolders(S) \in Instr
    /\ \A t \in Tasks : ResetRow(t) \in Instr /\ TryToAdd(t) \in Instr
    /\ \A e \in {"finishEach", "deleteEach"}, W \in SUBSET Seen :
          /\ \A s \in Normal..FinishScane : Snapshot(e, s, W) \in Instr
          /\ Each(e, W) \in Instr
<1>1. \A f \in BOOLEAN : Gate(f) \in Instr
  BY DEF Gate, Instr
<1>2. /\ Query \in Instr /\ ResetHalf \in Instr /\ ResetZero \in Instr
      /\ PostComplete \in Instr /\ [op |-> "register"] \in Instr
  BY DEF Query, ResetHalf, ResetZero, PostComplete, Instr
<1>3. \A t \in Tasks, n \in Nat : /\ Admit(t, n) \in Instr
                                  /\ Mark(t, n) \in Instr
                                  /\ Enqueue(t, n) \in Instr
  BY DEF Admit, Mark, Enqueue, Instr
<1>4. \A S \in SUBSET Tasks : /\ CancelScans(S) \in Instr
                              /\ CancelDownloads(S) \in Instr
                              /\ DeleteRows(S) \in Instr
                              /\ PostCancel(S) \in Instr
                              /\ RemoveFolders(S) \in Instr
  BY DEF CancelScans, CancelDownloads, DeleteRows, PostCancel, RemoveFolders,
     Instr
<1>5. \A t \in Tasks : ResetRow(t) \in Instr /\ TryToAdd(t) \in Instr
  BY DEF ResetRow, TryToAdd, Instr
<1>6. \A e \in {"finishEach", "deleteEach"}, W \in SUBSET Seen :
          \A s \in Normal..FinishScane : Snapshot(e, s, W) \in Instr
  BY DEF Snapshot, Instr
<1>7. \A e \in {"finishEach", "deleteEach"}, W \in SUBSET Seen :
          Each(e, W) \in Instr
  BY DEF Each, Instr
<1> QED
  BY <1>1, <1>2, <1>3, <1>4, <1>5, <1>6, <1>7

(* The fields an instruction has, by its kind.                             *)
LEMMA InstrFields ==
    ASSUME NEW i \in Instr
    PROVE  /\ i.op = "gate" => i.force \in BOOLEAN
           /\ i.op \in {"admit", "mark", "enqueue"} =>
                 i.task \in Tasks /\ i.downloaded \in Nat
           /\ i.op \in {"cancelScans", "cancelDownloads", "delete",
                        "postCancel", "removeFolders"} =>
                 i.tasks \in SUBSET Tasks
           /\ i.op \in {"resetRow", "tryToAdd"} => i.task \in Tasks
           /\ i.op = "snapshot" => /\ i.each \in {"finishEach", "deleteEach"}
                                   /\ i.status \in Normal..FinishScane
           /\ i.op \in {"snapshot", "finishEach", "deleteEach"} =>
                 i.seen \in SUBSET Seen
  BY DEF Instr

(* Replacing the head of a script keeps scripts made of the same           *)
(* instructions.                                                           *)
LEMMA ThenTypes ==
    ASSUME NEW S, todo \in [Threads -> Seq(S)],
           NEW th \in Threads, todo[th] # << >>,
           NEW s \in Seq(S), Then(th, s)
    PROVE  todo' \in [Threads -> Seq(S)]
<1>1. s \o Tail(todo[th]) \in Seq(S)
  OBVIOUS
<1> QED
  BY <1>1 DEF Then

(* Short scripts.                                                          *)
LEMMA ScriptTypes ==
    ASSUME NEW S, NEW a \in S, NEW b \in S, NEW c \in S, NEW d \in S
    PROVE  /\ << >> \in Seq(S) /\ <<a>> \in Seq(S) /\ <<a, b>> \in Seq(S)
           /\ <<a, b, c>> \in Seq(S) /\ <<a, b, c, d>> \in Seq(S)
  OBVIOUS

(* An element of a sequence is at an index of it and in its set.           *)
LEMMA ElementTypes ==
    ASSUME NEW S, NEW s \in Seq(S), NEW k \in DOMAIN s
    PROVE  k \in 1..Len(s) /\ s[k] \in S
  OBVIOUS

(* Every statement sent to the database leaves a table.                    *)
LEMMA TableTypes ==
    ASSUME NEW tbl \in Table
    PROVE  /\ \A t \in Tasks : Insert(tbl, t) \in Table
           /\ \A t \in Tasks, s \in 0..3 : UpdateStatus(tbl, t, s) \in Table
           /\ \A t \in Tasks, w \in Row : Update(tbl, t, w) \in Table
           /\ \A S : Delete(tbl, S) \in Table
           /\ ResetHalfWorking(tbl) \in Table
           /\ ResetToZero(tbl) \in Table
<1> USE DEF Table, Row, NewRow, NoRow, Absent, Normal, StartScane, FinishScane,
            FinishDownload
<1>0. \A w \in Row : /\ [w EXCEPT !.status = FinishDownload] \in Row
                     /\ [w EXCEPT !.status = Normal, !.downloaded = 0] \in Row
  <2>1. \A w \in Row : [w EXCEPT !.status = FinishDownload] \in Row
    OBVIOUS
  <2>2. \A w \in Row : [w EXCEPT !.status = Normal] \in Row
    OBVIOUS
  <2>3. \A w \in Row : [w EXCEPT !.downloaded = 0] \in Row
    OBVIOUS
  <2>4. \A w \in Row : [w EXCEPT !.status = Normal, !.downloaded = 0]
                         = [[w EXCEPT !.status = Normal] EXCEPT !.downloaded = 0]
    OBVIOUS
  <2> HIDE DEF Row
  <2> QED
    BY <2>1, <2>2, <2>3, <2>4
<1>1. \A t \in Tasks : Insert(tbl, t) \in Table
  BY DEF Insert
<1>2. \A t \in Tasks, s \in 0..3 : UpdateStatus(tbl, t, s) \in Table
  BY DEF UpdateStatus
<1>3. \A t \in Tasks, w \in Row : Update(tbl, t, w) \in Table
  BY DEF Update
<1>4. \A S : Delete(tbl, S) \in Table
  BY DEF Delete
<1>5. ResetHalfWorking(tbl) \in Table
  <2>1. ASSUME NEW u \in Tasks PROVE tbl[u] \in Row
    OBVIOUS
  <2> QED
    BY <1>0, <2>1 DEF ResetHalfWorking
<1>6. ResetToZero(tbl) \in Table
  <2>1. ASSUME NEW u \in Tasks PROVE tbl[u] \in Row
    OBVIOUS
  <2> QED
    BY <1>0, <2>1 DEF ResetToZero
<1> QED
  BY <1>1, <1>2, <1>3, <1>4, <1>5, <1>6

-----------------------------------------------------------------------------
(* Type correctness.                                                       *)

(* The initial state has the types, and no operation or callback yet.      *)
LEMMA TypeInit == Init => TypeInv
<1> SUFFICES ASSUME Init PROVE TypeInv
  OBVIOUS
<1>1. LaunchScript \in Seq(Instr)
  <2>1. /\ ResetHalf \in Instr /\ Gate(FALSE) \in Instr
        /\ [op |-> "register"] \in Instr
    BY InstrTypes
  <2> QED
    BY <2>1, ScriptTypes DEF LaunchScript
<1>2. table \in Table
  BY DEF Init, InitWith, EmptyTable, Table, Row, NoRow, Absent, FinishDownload
<1>3. /\ folders \subseteq Folders
      /\ disk \in [Folders -> [PicNos -> Tasks \cup {NoFile}]]
  BY DEF Init, InitWith
<1>4. /\ scan \in [Runs -> Scan] /\ model \in [Runs -> Model]
      /\ pic \in [Runs -> [PicNos -> PicStates]]
  <2>1. FreeScan \in Scan
    BY PipelineAssumption DEF FreeScan, Scan, Phases
  <2>2. [status |-> 1, total |-> 0, downloaded |-> 0] \in Model
    BY DEF Model
  <2>3. NoPics \in [PicNos -> PicStates]
    BY DEF NoPics, PicStates
  <2> QED
    BY <2>1, <2>2, <2>3 DEF Init, InitWith
<1>5. todo \in [Threads -> Seq(Instr)]
  BY <1>1 DEF Init, InitWith
<1>6. /\ callback \in Callback /\ registered \in BOOLEAN
      /\ crashes \in 0..MaxCrashes
  <2>1. Idle \in Callback
    BY DEF Idle, Callback, Steps
  <2>2. callback = Idle /\ registered = FALSE /\ crashes = 0
    BY DEF Init, InitWith
  <2>3. crashes \in 0..MaxCrashes
    BY <2>2, PipelineAssumption
  <2> QED
    BY <2>1, <2>2, <2>3
<1>7. Shape
  BY DEF Init, InitWith, FreeScan, Idle, Shape, ScansAreOfTasks,
         PicsAreOfScans, CallbackIsOfScan
<1> QED
  BY <1>2, <1>3, <1>4, <1>5, <1>6, <1>7 DEF TypeInv, TypeOK

(* A step that changes only rows and scripts.                              *)
LEMMA TypeFrame ==
    ASSUME TypeInv, table' \in Table, todo' \in [Threads -> Seq(Instr)],
           UNCHANGED <<diskVars, runVars, callback, registered, crashes>>
    PROVE  TypeInv'
BY DEF TypeInv, TypeOK, Shape, ScansAreOfTasks, PicsAreOfScans,
       CallbackIsOfScan, TaskOf, PageEnd, diskVars, runVars

(* Cancelling keeps scans and downloads what they are.                     *)
LEMMA TypeCancelScans ==
    ASSUME TypeInv, NEW th \in Threads, CancelScansStep(th),
           todo' \in [Threads -> Seq(Instr)]
    PROVE  TypeInv'
<1>1. \A r \in Runs : /\ scan'[r] \in Scan
                      /\ scan'[r].phase = "free" <=> scan[r].phase = "free"
                      /\ scan'[r].task = scan[r].task
                      /\ scan'[r].page = scan[r].page
  <2> SUFFICES ASSUME NEW r \in Runs
               PROVE  /\ scan'[r] \in Scan
                      /\ scan'[r].phase = "free" <=> scan[r].phase = "free"
                      /\ scan'[r].task = scan[r].task
                      /\ scan'[r].page = scan[r].page
    OBVIOUS
  <2>1. scan[r] \in Scan
    BY DEF TypeInv, TypeOK
  <2>2. \/ scan'[r] = scan[r]
        \/ /\ scan[r].phase = "queued"
           /\ scan'[r] = [scan[r] EXCEPT !.phase = "withdrawn"]
        \/ /\ scan[r].phase = "scanning"
           /\ scan'[r] = [scan[r] EXCEPT !.phase = "cancelled"]
    <3>1. \A s \in Scan : [s EXCEPT !.phase = s.phase] = s
      BY DEF Scan
    <3> QED
      BY <2>1, <3>1 DEF CancelScansStep
  <2> QED
    BY <2>1, <2>2 DEF Scan, Phases
<1>2. scan' \in [Runs -> Scan]
  BY <1>1 DEF CancelScansStep
<1> QED
  BY <1>1, <1>2 DEF CancelScansStep, TypeInv, TypeOK, Shape, ScansAreOfTasks,
     PicsAreOfScans, CallbackIsOfScan, TaskOf, PageEnd, diskVars

(* cancelDownloadsByIdentifiers moves downloads to other states; the scans *)
(* they hang on stay.                                                      *)
LEMMA TypeCancelDownloads ==
    ASSUME TypeInv, NEW th \in Threads, CancelDownloadsStep(th),
           todo' \in [Threads -> Seq(Instr)]
    PROVE  TypeInv'
<1>1. pic' \in [Runs -> [PicNos -> PicStates]]
  BY DEF CancelDownloadsStep, TypeInv, TypeOK, PicStates
<1>2. PicsAreOfScans'
  BY DEF CancelDownloadsStep, TypeInv, TypeOK, Shape, PicsAreOfScans, NoPics
<1> QED
  BY <1>1, <1>2 DEF CancelDownloadsStep, TypeInv, TypeOK, Shape,
     ScansAreOfTasks, CallbackIsOfScan, TaskOf, PageEnd, diskVars

(* Adding an operation: its scan begins at the first page of a task.       *)
LEMMA TypeEnqueue ==
    ASSUME TypeInv, NEW th \in Threads, EnqueueStep(th),
           todo' \in [Threads -> Seq(Instr)]
    PROVE  TypeInv'
<1>1. Head(todo[th]) \in Instr /\ Head(todo[th]).op = "enqueue"
  BY DEF EnqueueStep, NextIs, TypeInv, TypeOK
<1>2. Head(todo[th]).task \in Tasks /\ Head(todo[th]).downloaded \in Nat
  BY <1>1, InstrFields
<1>3. PICK r \in Runs : /\ IsFree(r)
                        /\ scan' = [scan EXCEPT ![r] = NewScan(Head(todo[th]).task)]
                        /\ model' = [model EXCEPT ![r] =
                              [status |-> StartScane, total |-> 0,
                               downloaded |-> Head(todo[th]).downloaded]]
  BY DEF EnqueueStep
<1>4. NewScan(Head(todo[th]).task) \in Scan
  BY <1>2, PipelineAssumption DEF NewScan, Scan, Phases
<1>5. [status |-> StartScane, total |-> 0,
       downloaded |-> Head(todo[th]).downloaded] \in Model
  BY <1>2 DEF Model, StartScane
<1>6. scan' \in [Runs -> Scan] /\ model' \in [Runs -> Model]
  BY <1>3, <1>4, <1>5 DEF TypeInv, TypeOK
<1>7. 1 \in DOMAIN PicsUpTo[Head(todo[th]).task]
  <2>1. /\ PicsUpTo[Head(todo[th]).task] \in Seq(0..MaxPics)
        /\ PicsUpTo[Head(todo[th]).task] # << >>
    BY <1>2, PipelineAssumption
  <2> QED
    BY <2>1
<1>8. Shape'
  <2>1. /\ NewScan(Head(todo[th]).task).phase = "queued"
        /\ NewScan(Head(todo[th]).task).task = Head(todo[th]).task
        /\ NewScan(Head(todo[th]).task).page = 1
    BY DEF NewScan
  <2> QED
    BY <1>2, <1>3, <1>7, <2>1 DEF EnqueueStep, IsFree, TypeInv, TypeOK, Shape,
       ScansAreOfTasks, PicsAreOfScans, CallbackIsOfScan, TaskOf, PageEnd
<1> QED
  BY <1>6, <1>8 DEF EnqueueStep, TypeInv, TypeOK, diskVars

(* The instructions of a thread: what each leaves in the script, and what  *)
(* else it changes.                                                        *)
LEMMA TypeThread ==
    ASSUME TypeInv, NEW th \in Threads, ThreadStep(th)
    PROVE  TypeInv'
<1> DEFINE i == Head(todo[th])
<1> USE DEF NextIs
<1>0. /\ table \in Table /\ todo \in [Threads -> Seq(Instr)]
      /\ folders \subseteq Folders
      /\ registered \in BOOLEAN
  BY DEF TypeInv, TypeOK
<1>a. todo[th] # << >>
  BY DEF ThreadStep, GateStep, QueryStep, AdmitStep, MarkStep, EnqueueStep,
     ResetHalfStep, RegisterStep, CancelScansStep, CancelDownloadsStep,
     DeleteStep, ResetRowStep, ResetZeroStep, RemoveFoldersStep,
     PostCompleteStep, PostCancelStep, SnapshotStep, FinishEachStep,
     DeleteEachStep, TryToAddStep
<1>b. i \in Instr
  BY <1>0, <1>a
<1>c. \A s \in Seq(Instr) : Then(th, s) => todo' \in [Threads -> Seq(Instr)]
  BY <1>0, <1>a, ThenTypes
<1>d. << >> \in Seq(Instr) /\ \A j \in Instr : <<j>> \in Seq(Instr)
  OBVIOUS
<1>e. /\ \A j, k \in Instr : <<j, k>> \in Seq(Instr)
      /\ \A j, k, l \in Instr : <<j, k, l>> \in Seq(Instr)
      /\ \A j, k, l, m \in Instr : <<j, k, l, m>> \in Seq(Instr)
  BY ScriptTypes
<1>f. \A S \in SUBSET Tasks : CancelTasks(S) \in Seq(Instr)
  BY <1>e, InstrTypes DEF CancelTasks
<1> HIDE DEF i
<1>1. CASE GateStep(th)
  <2>1. todo' \in [Threads -> Seq(Instr)]
    BY <1>1, <1>c, <1>d, InstrTypes DEF GateStep
  <2> QED
    BY <1>0, <1>1, <2>1, TypeFrame DEF GateStep
<1>2. CASE QueryStep(th)
  <2>1. \A t \in NextTasks(table) : t \in Tasks /\ table[t].downloaded \in Nat
    BY <1>0 DEF NextTasks, WithStatus, Table, Row
  <2>2. todo' \in [Threads -> Seq(Instr)]
    BY <1>2, <1>c, <1>d, <2>1, InstrTypes DEF QueryStep
  <2> QED
    BY <1>0, <1>2, <2>2, TypeFrame DEF QueryStep
<1>3. CASE AdmitStep(th)
  <2>1. i.task \in Tasks /\ i.downloaded \in Nat
    BY <1>3, <1>b, InstrFields DEF AdmitStep, i
  <2>2. todo' \in [Threads -> Seq(Instr)]
    BY <1>3, <1>c, <1>d, <2>1, InstrTypes DEF AdmitStep, i
  <2>3. folders' \subseteq Folders
    BY <1>0, <1>3, <2>1 DEF AdmitStep, i, Folders
  <2> QED
    BY <1>3, <2>2, <2>3 DEF AdmitStep, TypeInv, TypeOK, Shape,
       ScansAreOfTasks, PicsAreOfScans, CallbackIsOfScan, TaskOf, PageEnd,
       runVars
<1>4. CASE MarkStep(th)
  <2>1. i.task \in Tasks /\ i.downloaded \in Nat
    BY <1>4, <1>b, InstrFields DEF MarkStep, i
  <2>2. todo' \in [Threads -> Seq(Instr)]
    BY <1>4, <1>c, <1>d, <2>1, InstrTypes DEF MarkStep, i
  <2>3. table' \in Table
    <3>1. StartScane \in 0..3
      BY DEF StartScane
    <3>2. UpdateStatus(table, i.task, StartScane) \in Table
      BY <1>0, <2>1, <3>1, TableTypes
    <3> QED
      BY <1>4, <3>2 DEF MarkStep, i
  <2> QED
    BY <1>4, <2>2, <2>3, TypeFrame DEF MarkStep
<1>5. CASE EnqueueStep(th)
  <2>1. todo' \in [Threads -> Seq(Instr)]
    BY <1>5, <1>c, <1>d, InstrTypes DEF EnqueueStep
  <2> QED
    BY <1>5, <2>1, TypeEnqueue
<1>6. CASE ResetHalfStep(th)
  <2>1. todo' \in [Threads -> Seq(Instr)]
    BY <1>6, <1>c, <1>d DEF ResetHalfStep
  <2>2. table' \in Table
    BY <1>0, <1>6, TableTypes DEF ResetHalfStep
  <2> QED
    BY <1>6, <2>1, <2>2, TypeFrame DEF ResetHalfStep
<1>7. CASE RegisterStep(th)
  <2>1. todo' \in [Threads -> Seq(Instr)]
    BY <1>7, <1>c, <1>d DEF RegisterStep
  <2> QED
    BY <1>7, <2>1 DEF RegisterStep, TypeInv, TypeOK, Shape, ScansAreOfTasks,
       PicsAreOfScans, CallbackIsOfScan, TaskOf, PageEnd, diskVars, runVars
<1>8. CASE CancelScansStep(th)
  <2>1. todo' \in [Threads -> Seq(Instr)]
    BY <1>8, <1>c, <1>d DEF CancelScansStep
  <2> QED
    BY <1>8, <2>1, TypeCancelScans
<1>9. CASE CancelDownloadsStep(th)
  <2>1. todo' \in [Threads -> Seq(Instr)]
    BY <1>9, <1>c, <1>d DEF CancelDownloadsStep
  <2> QED
    BY <1>9, <2>1, TypeCancelDownloads
<1>10. CASE DeleteStep(th)
  <2>1. todo' \in [Threads -> Seq(Instr)]
    BY <1>10, <1>c, <1>d DEF DeleteStep
  <2>2. table' \in Table
    BY <1>0, <1>10, TableTypes DEF DeleteStep
  <2> QED
    BY <1>10, <2>1, <2>2, TypeFrame DEF DeleteStep
<1>11. CASE ResetRowStep(th)
  <2>1. i.task \in Tasks
    BY <1>11, <1>b, InstrFields DEF ResetRowStep, i
  <2>2. todo' \in [Threads -> Seq(Instr)]
    BY <1>11, <1>c, <1>d DEF ResetRowStep
  <2>3. NewRow \in Row
    BY DEF NewRow, Row, Absent, Normal, FinishDownload
  <2>4. table' \in Table
    BY <1>0, <1>11, <2>1, <2>3, TableTypes DEF ResetRowStep, i
  <2> QED
    BY <1>11, <2>2, <2>4, TypeFrame DEF ResetRowStep
<1>12. CASE ResetZeroStep(th)
  <2>1. todo' \in [Threads -> Seq(Instr)]
    BY <1>12, <1>c, <1>d DEF ResetZeroStep
  <2>2. table' \in Table
    BY <1>0, <1>12, TableTypes DEF ResetZeroStep
  <2> QED
    BY <1>12, <2>1, <2>2, TypeFrame DEF ResetZeroStep
<1>13. CASE RemoveFoldersStep(th)
  <2>1. i.tasks \in SUBSET Tasks
    BY <1>13, <1>b, InstrFields DEF RemoveFoldersStep, i
  <2>2. todo' \in [Threads -> Seq(Instr)]
    BY <1>13, <1>c, <1>d DEF RemoveFoldersStep
  <2>3. /\ folders' \subseteq Folders
        /\ disk' \in [Folders -> [PicNos -> Tasks \cup {NoFile}]]
    BY <1>13 DEF RemoveFoldersStep, TypeInv, TypeOK
  <2> QED
    BY <1>13, <2>2, <2>3 DEF RemoveFoldersStep, TypeInv, TypeOK, Shape,
       ScansAreOfTasks, PicsAreOfScans, CallbackIsOfScan, TaskOf, PageEnd,
       runVars
<1>14. CASE PostCompleteStep(th)
  <2>1. todo' \in [Threads -> Seq(Instr)]
    BY <1>14, <1>c, <1>d, InstrTypes DEF PostCompleteStep
  <2> QED
    BY <1>0, <1>14, <2>1, TypeFrame DEF PostCompleteStep
<1>15. CASE PostCancelStep(th)
  <2>1. i.tasks \in SUBSET Tasks
    BY <1>15, <1>b, InstrFields DEF PostCancelStep, i
  <2>2. todo' \in [Threads -> Seq(Instr)]
    BY <1>15, <1>c, <1>d, <1>f, <2>1 DEF PostCancelStep, i
  <2> QED
    BY <1>0, <1>15, <2>2, TypeFrame DEF PostCancelStep
<1>16. CASE SnapshotStep(th)
  <2> DEFINE W == i.seen \cup {[task |-> t, row |-> table[t]] :
                                  t \in WithStatus(table, {i.status})}
  <2>1. /\ i.each \in {"finishEach", "deleteEach"}
        /\ i.status \in Normal..FinishScane /\ i.seen \in SUBSET Seen
    BY <1>16, <1>b, InstrFields DEF SnapshotStep, i
  <2>2. W \in SUBSET Seen
    BY <1>0, <2>1 DEF WithStatus, Table, Seen
  <2>3. i.status # FinishScane => i.status + 1 \in Normal..FinishScane
    BY <2>1 DEF Normal, FinishScane
  <2>4. /\ i.status # FinishScane => Snapshot(i.each, i.status + 1, W) \in Instr
        /\ Each(i.each, W) \in Instr
    BY <2>1, <2>2, <2>3, InstrTypes
  <2>5. \/ i.status # FinishScane /\ Then(th, <<Snapshot(i.each, i.status + 1, W)>>)
        \/ Then(th, <<Each(i.each, W)>>)
    BY <1>16 DEF SnapshotStep, i
  <2>6. todo' \in [Threads -> Seq(Instr)]
    BY <1>c, <1>d, <2>4, <2>5
  <2> QED
    BY <1>0, <1>16, <2>6, TypeFrame DEF SnapshotStep
<1>17. CASE FinishEachStep(th)
  <2>1. i.seen \in SUBSET Seen
    BY <1>17, <1>b, InstrFields DEF FinishEachStep, i
  <2>2. CASE i.seen = {} /\ Then(th, << >>) /\ UNCHANGED table
    <3>1. todo' \in [Threads -> Seq(Instr)]
      BY <1>c, <1>d, <2>2
    <3> QED
      BY <1>0, <1>17, <2>2, <3>1, TypeFrame DEF FinishEachStep
  <2>3. CASE \E w \in i.seen :
               /\ table' = Update(table, w.task, [w.row EXCEPT
                                                    !.status = FinishDownload])
               /\ Then(th, <<PostComplete, Each("finishEach", i.seen \ {w})>>)
    <3>1. PICK w \in i.seen :
               /\ table' = Update(table, w.task, [w.row EXCEPT
                                                    !.status = FinishDownload])
               /\ Then(th, <<PostComplete, Each("finishEach", i.seen \ {w})>>)
      BY <2>3
    <3>2. w.task \in Tasks /\ [w.row EXCEPT !.status = FinishDownload] \in Row
      BY <2>1 DEF Seen, Row, Absent, FinishDownload
    <3>3. table' \in Table
      BY <1>0, <3>1, <3>2, TableTypes
    <3>4. /\ PostComplete \in Instr
          /\ Each("finishEach", i.seen \ {w}) \in Instr
      BY <2>1, InstrTypes
    <3>5. todo' \in [Threads -> Seq(Instr)]
      BY <1>c, <1>e, <3>1, <3>4
    <3> QED
      BY <1>17, <3>3, <3>5, TypeFrame DEF FinishEachStep
  <2> QED
    BY <1>17, <2>2, <2>3 DEF FinishEachStep, i
<1>18. CASE DeleteEachStep(th)
  <2>1. i.seen \in SUBSET Seen
    BY <1>18, <1>b, InstrFields DEF DeleteEachStep, i
  <2>2. ASSUME NEW w \in i.seen
        PROVE  /\ DeleteRows({w.task}) \in Instr
               /\ RemoveFolders({w.task}) \in Instr
               /\ PostCancel({w.task}) \in Instr
               /\ Each("deleteEach", i.seen \ {w}) \in Instr
    <3>1. w.task \in Tasks /\ {w.task} \in SUBSET Tasks
      BY <2>1 DEF Seen
    <3> QED
      BY <2>1, <3>1, InstrTypes
  <2>3. todo' \in [Threads -> Seq(Instr)]
    BY <1>18, <1>c, <1>d, <1>e, <2>2 DEF DeleteEachStep, i
  <2> QED
    BY <1>0, <1>18, <2>3, TypeFrame DEF DeleteEachStep
<1>19. CASE TryToAddStep(th)
  <2>1. i.task \in Tasks
    BY <1>19, <1>b, InstrFields DEF TryToAddStep, i
  <2>2. todo' \in [Threads -> Seq(Instr)]
    BY <1>19, <1>c, <1>d, InstrTypes DEF TryToAddStep
  <2>3. table' \in Table
    BY <1>0, <1>19, <2>1, TableTypes DEF TryToAddStep, i
  <2>4. folders' \subseteq Folders
    BY <1>0, <1>19, <2>1 DEF TryToAddStep, i, Folders
  <2> QED
    BY <1>19, <2>2, <2>3, <2>4 DEF TryToAddStep, TypeInv, TypeOK, Shape,
       ScansAreOfTasks, PicsAreOfScans, CallbackIsOfScan, TaskOf, PageEnd,
       runVars
<1> QED
  BY <1>1, <1>2, <1>3, <1>4, <1>5, <1>6, <1>7, <1>8, <1>9, <1>10, <1>11,
     <1>12, <1>13, <1>14, <1>15, <1>16, <1>17, <1>18, <1>19 DEF ThreadStep

(* The answers to page requests.                                           *)

(* The page a scan is on, and how many pictures there are up to its end.   *)
LEMMA PageTypes ==
    ASSUME TypeInv, NEW r \in Runs, scan[r].phase # "free"
    PROVE  /\ TaskOf(r) \in Tasks
           /\ PicsUpTo[TaskOf(r)] \in Seq(0..MaxPics)
           /\ scan[r].page \in 1..Len(PicsUpTo[TaskOf(r)])
           /\ PageEnd(r) \in 0..MaxPics
           /\ scan[r].found \in 0..MaxPics
           /\ FolderOf(r) \in Folders
<1>1. TaskOf(r) \in Tasks /\ scan[r].page \in DOMAIN PicsUpTo[TaskOf(r)]
  BY DEF TypeInv, Shape, ScansAreOfTasks
<1>2. PicsUpTo[TaskOf(r)] \in Seq(0..MaxPics)
  BY <1>1, PipelineAssumption
<1>3. scan[r].found \in 0..MaxPics
  BY DEF TypeInv, TypeOK, Scan
<1>4. /\ scan[r].page \in 1..Len(PicsUpTo[TaskOf(r)])
      /\ PageEnd(r) \in 0..MaxPics
  BY <1>1, <1>2, ElementTypes DEF PageEnd
<1>5. FolderOf(r) \in Folders
  BY <1>1 DEF FolderOf, Folders
<1> QED
  BY <1>1, <1>2, <1>3, <1>4, <1>5

(* A step that only moves the callback on, to a picture of its page if it  *)
(* is to offer one.                                                        *)
LEMMA TypeCallback ==
    ASSUME TypeInv, NEW r \in Runs, scan[r].phase # "free",
           NEW step \in Steps, NEW n, NEW ok \in BOOLEAN,
           IF step \in {"offer", "count"} THEN n \in PicNos ELSE n = 0,
           step = "offer" => n <= PageEnd(r),
           callback' = At(step, r, n, ok),
           UNCHANGED <<table, diskVars, runVars, todo, registered, crashes>>
    PROVE  TypeInv'
<1>1. callback' \in Callback
  BY DEF At, Callback
<1> QED
  BY <1>1 DEF At, TypeInv, TypeOK, Shape, ScansAreOfTasks, PicsAreOfScans,
     CallbackIsOfScan, TaskOf, PageEnd, diskVars, runVars

(* The end of a delivery: the delegate queue refers to nothing.            *)
LEMMA TypeIdle ==
    ASSUME TypeInv, callback' = Idle,
           UNCHANGED <<table, diskVars, runVars, todo, registered, crashes>>
    PROVE  TypeInv'
BY DEF Idle, Callback, Steps, TypeInv, TypeOK, Shape, ScansAreOfTasks,
   PicsAreOfScans, CallbackIsOfScan, TaskOf, PageEnd, diskVars, runVars

(* Where the answer being delivered stands.                                *)
LEMMA DeliveringTypes ==
    ASSUME TypeInv, NEW r \in Runs, callback.run = r, callback.at # "idle"
    PROVE  scan[r].phase # "free"
BY DEF TypeInv, Shape, CallbackIsOfScan

(* The answer to a page request is delivered to a scan that is alive.      *)
LEMMA TypePageAnswer ==
    ASSUME TypeInv, NEW r \in Runs, PageAnswer(r) PROVE TypeInv'
<1>1. scan[r].phase # "free"
  BY DEF PageAnswer
<1>2. CASE callback' = At("page", r, 0, TRUE)
  BY <1>1, <1>2, TypeCallback DEF PageAnswer, Steps
<1>3. CASE callback' = At("endOfPage", r, 0, FALSE)
  BY <1>1, <1>3, TypeCallback DEF PageAnswer, Steps
<1> QED
  BY <1>2, <1>3 DEF PageAnswer

(* dealWithHtmlData goes on to a picture of the page, or to its end.       *)
LEMMA TypeDealWithPage ==
    ASSUME TypeInv, NEW r \in Runs, DealWithPage(r) PROVE TypeInv'
<1>1. scan[r].phase # "free"
  BY DeliveringTypes DEF DealWithPage, Delivering
<1>2. CASE /\ scan[r].found < PageEnd(r)
           /\ callback' = At("offer", r, scan[r].found + 1, TRUE)
  <2>1. scan[r].found + 1 \in PicNos /\ scan[r].found + 1 <= PageEnd(r)
    BY <1>1, <1>2, PageTypes, PipelineAssumption DEF PicNos
  <2> QED
    BY <1>1, <1>2, <2>1, TypeCallback DEF DealWithPage, Steps
<1>3. CASE callback' = At("endOfPage", r, 0, TRUE)
  BY <1>1, <1>3, TypeCallback DEF DealWithPage, Steps
<1> QED
  BY <1>2, <1>3 DEF DealWithPage

(* Moving one download to another state keeps the type of pic.             *)
LEMMA PicTypes ==
    ASSUME TypeInv, NEW r \in Runs, NEW i, NEW v \in PicStates
    PROVE  [pic EXCEPT ![r][i] = v] \in [Runs -> [PicNos -> PicStates]]
<1>1. pic \in [Runs -> [PicNos -> PicStates]]
  BY DEF TypeInv, TypeOK
<1>2. [pic[r] EXCEPT ![i] = v] \in [PicNos -> PicStates]
  BY <1>1
<1> QED
  BY <1>1, <1>2

(* The loop of downWithSource stays on the pictures of the page.           *)
LEMMA TypeOfferPicture ==
    ASSUME TypeInv, NEW r \in Runs, OfferPicture(r) PROVE TypeInv'
<1> DEFINE i == callback.pic
<1>1. /\ scan[r].phase # "free" /\ i \in PicNos /\ i <= PageEnd(r)
      /\ callback.run = r
  BY DEF OfferPicture, Delivering, TypeInv, Shape, CallbackIsOfScan
<1>2. PageEnd(r) \in 0..MaxPics /\ FolderOf(r) \in Folders
  BY <1>1, PageTypes
<1>3. pic' \in [Runs -> [PicNos -> PicStates]]
  <2>1. "counted" \in PicStates /\ "waiting" \in PicStates
    BY DEF PicStates
  <2> QED
    BY <2>1, PicTypes DEF OfferPicture
<1>4. model' \in [Runs -> Model]
  <2>1. model[r] \in Model /\ model \in [Runs -> Model]
    BY DEF TypeInv, TypeOK
  <2>2. [model[r] EXCEPT !.downloaded = @ + 1] \in Model
    BY <2>1 DEF Model
  <2> QED
    BY <2>1, <2>2 DEF OfferPicture
<1>5. /\ callback' \in Callback
      /\ callback'.run = r
      /\ callback'.at \in {"offer", "endOfPage"}
      /\ callback'.at = "offer" => /\ callback'.pic \in PicNos
                                   /\ callback'.pic <= PageEnd(r)
  <2>1. CASE i < PageEnd(r)
    <3>1. i + 1 \in PicNos /\ i + 1 <= PageEnd(r)
      BY <1>1, <1>2, <2>1, PipelineAssumption DEF PicNos
    <3> QED
      BY <2>1, <3>1 DEF OfferPicture, AfterOffer, At, Callback, Steps
  <2>2. CASE ~(i < PageEnd(r))
    BY <2>2 DEF OfferPicture, AfterOffer, At, Callback, Steps
  <2> QED
    BY <2>1, <2>2
<1>6. folders' \subseteq Folders
  BY <1>2 DEF OfferPicture, TypeInv, TypeOK
<1>7. UNCHANGED <<table, disk, scan, todo, registered, crashes>>
  BY DEF OfferPicture
<1>8. PicsAreOfScans'
  BY <1>1, <1>7 DEF OfferPicture, TypeInv, TypeOK, Shape, PicsAreOfScans
<1> QED
  BY <1>1, <1>3, <1>4, <1>5, <1>6, <1>7, <1>8 DEF TypeInv, TypeOK, Shape,
     ScansAreOfTasks, CallbackIsOfScan, TaskOf, PageEnd

(* The next page exists: the last one has no successor.                    *)
LEMMA TypeNextPage ==
    ASSUME TypeInv, NEW r \in Runs, NextPage(r) PROVE TypeInv'
<1>1. scan[r].phase # "free" /\ scan[r] \in Scan /\ scan \in [Runs -> Scan]
  BY DeliveringTypes DEF NextPage, Delivering, TypeInv, TypeOK
<1>2. scan[r].page + 1 \in 1..Len(PicsUpTo[TaskOf(r)])
  BY <1>1, PageTypes DEF NextPage, LastPage
<1>3. PageEnd(r) \in 0..MaxPics
  BY <1>1, PageTypes
<1> DEFINE s == [scan[r] EXCEPT !.page = @ + 1]
           u == [s EXCEPT !.found = PageEnd(r)]
<1>4. /\ s \in Scan /\ s.phase = scan[r].phase /\ s.task = scan[r].task
      /\ s.page = scan[r].page + 1
  BY <1>1 DEF Scan
<1>5. scan' = [scan EXCEPT ![r] = u]
  BY <1>1 DEF NextPage
<1> HIDE DEF s
<1>6. /\ u \in Scan /\ u.phase = scan[r].phase /\ u.task = scan[r].task
      /\ u.page = scan[r].page + 1
  BY <1>3, <1>4 DEF Scan
<1> HIDE DEF u
<1>7. scan' \in [Runs -> Scan]
  BY <1>1, <1>5, <1>6
<1>8. Shape'
  <2>1. ScansAreOfTasks'
    BY <1>1, <1>2, <1>5, <1>6 DEF TypeInv, Shape, ScansAreOfTasks, TaskOf
  <2>2. PicsAreOfScans'
    BY <1>1, <1>5, <1>6 DEF NextPage, TypeInv, Shape, PicsAreOfScans
  <2> QED
    BY <2>1, <2>2 DEF NextPage, Shape, CallbackIsOfScan, Idle
<1>9. callback' \in Callback
  BY DEF NextPage, Idle, Callback, Steps
<1> QED
  BY <1>7, <1>8, <1>9 DEF NextPage, TypeInv, TypeOK, diskVars

(* taskCompleteHandler stores a row of counts and goes on to               *)
(* finishOperation.                                                        *)
LEMMA TypeCompleteScan ==
    ASSUME TypeInv, NEW r \in Runs, CompleteScan(r) PROVE TypeInv'
<1> DEFINE n == IF callback.ok THEN PageEnd(r) ELSE scan[r].found
<1>1. scan[r].phase # "free" /\ model[r] \in Model /\ table \in Table
  BY DeliveringTypes DEF CompleteScan, Delivering, TypeInv, TypeOK
<1>2. TaskOf(r) \in Tasks /\ n \in Nat
  BY <1>1, PageTypes, PipelineAssumption
<1> HIDE DEF n
<1>3. AfterScan(r, n) \in Model
  <2>1. \A m \in Model : /\ [m EXCEPT !.total = n] \in Model
                         /\ [m EXCEPT !.status = FinishScane] \in Model
                         /\ [m EXCEPT !.status = FinishDownload] \in Model
    BY <1>2 DEF Model, FinishScane, FinishDownload
  <2>2. [model[r] EXCEPT !.total = n, !.status = FinishScane]
           = [[model[r] EXCEPT !.total = n] EXCEPT !.status = FinishScane]
    BY <1>1 DEF Model
  <2>3. [model[r] EXCEPT !.total = n, !.status = FinishScane] \in Model
    BY <1>1, <2>1, <2>2
  <2> QED
    BY <2>1, <2>3 DEF AfterScan
<1>4. Model \subseteq Row
  BY DEF Model, Row, Absent, FinishDownload
<1>5. table' \in Table
  BY <1>1, <1>2, <1>3, <1>4, TableTypes DEF CompleteScan, n
<1>6. model' \in [Runs -> Model]
  BY <1>3 DEF CompleteScan, n, TypeInv, TypeOK
<1>7. todo' \in [Threads -> Seq(Instr)]
  <2>1. Gate(FALSE) \in Instr
    BY InstrTypes
  <2>2. \A j \in Instr : <<j>> \in Seq(Instr)
    OBVIOUS
  <2> QED
    BY <2>1, <2>2 DEF CompleteScan, NextIsPrepared, TypeInv, TypeOK
<1>8. callback' \in Callback
  BY DEF CompleteScan, At, Callback, Steps
<1> QED
  BY <1>1, <1>5, <1>6, <1>7, <1>8 DEF CompleteScan, At, TypeInv, TypeOK,
     Shape, ScansAreOfTasks, PicsAreOfScans, CallbackIsOfScan, TaskOf,
     PageEnd, diskVars

(* A step that moves a scan to another phase, or frees it with what hangs  *)
(* on it.                                                                  *)
LEMMA TypePhase ==
    ASSUME TypeInv, NEW r \in Runs, scan[r].phase # "free",
           NEW ph \in Phases \ {"free"},
           scan' = [scan EXCEPT ![r].phase = ph],
           callback' = callback \/ callback' = Idle,
           UNCHANGED <<table, diskVars, model, pic, todo, registered, crashes>>
    PROVE  TypeInv'
<1>1. scan \in [Runs -> Scan] /\ scan[r] \in Scan
  BY DEF TypeInv, TypeOK
<1>2. [scan[r] EXCEPT !.phase = ph] \in Scan
  BY <1>1 DEF Scan
<1>3. scan' \in [Runs -> Scan]
  BY <1>1, <1>2
<1>4. /\ scan'[r].phase = ph /\ scan'[r].task = scan[r].task
      /\ scan'[r].page = scan[r].page
      /\ \A q \in Runs \ {r} : scan'[q] = scan[q]
  BY <1>1 DEF Scan
<1>5. Shape'
  <2>1. ScansAreOfTasks' /\ PicsAreOfScans'
    BY <1>4 DEF TypeInv, Shape, ScansAreOfTasks, PicsAreOfScans, TaskOf
  <2>2. CallbackIsOfScan'
    BY <1>4 DEF TypeInv, Shape, CallbackIsOfScan, Idle, TaskOf, PageEnd
  <2> QED
    BY <2>1, <2>2 DEF Shape
<1>6. callback' \in Callback
  <2>1. Idle \in Callback
    BY DEF Idle, Callback, Steps
  <2> QED
    BY <2>1 DEF TypeInv, TypeOK
<1> QED
  BY <1>3, <1>5, <1>6 DEF TypeInv, TypeOK, diskVars

(* finishOperation moves the scan to another phase.                        *)
LEMMA TypeFinishScan ==
    ASSUME TypeInv, NEW r \in Runs, FinishScan(r) PROVE TypeInv'
<1>1. scan[r].phase # "free" /\ scan[r].phase \in Phases
  BY DeliveringTypes DEF FinishScan, Delivering, TypeInv, TypeOK, Scan
<1> DEFINE ph == IF scan[r].phase = "scanning" THEN "finished"
                                               ELSE scan[r].phase
<1>2. ph \in Phases \ {"free"}
  BY <1>1 DEF Phases
<1>3. scan' = [scan EXCEPT ![r].phase = ph]
  BY DEF FinishScan
<1> QED
  BY <1>1, <1>2, <1>3, TypePhase DEF FinishScan

(* So does the queue when it starts the scan.                              *)
LEMMA TypeStartScan ==
    ASSUME TypeInv, NEW r \in Runs, StartScan(r) PROVE TypeInv'
<1>1. scan[r].phase # "free"
  BY DEF StartScan
<1>2. "scanning" \in Phases \ {"free"} /\ "cancelled" \in Phases \ {"free"}
  BY DEF Phases
<1> QED
  BY <1>1, <1>2, TypePhase DEF StartScan

-----------------------------------------------------------------------------
(* The pictures.                                                           *)

(* A step that changes the state of one download of a scan that exists.    *)
LEMMA TypePicture ==
    ASSUME TypeInv, NEW r \in Runs, scan[r].phase # "free", NEW i,
           NEW v \in PicStates, pic' = [pic EXCEPT ![r][i] = v],
           UNCHANGED <<scan, callback>>
    PROVE  /\ pic' \in [Runs -> [PicNos -> PicStates]]
           /\ Shape'
<1>1. pic' \in [Runs -> [PicNos -> PicStates]]
  BY PicTypes
<1> QED
  BY <1>1 DEF TypeInv, TypeOK, Shape, ScansAreOfTasks, PicsAreOfScans,
     CallbackIsOfScan, TaskOf, PageEnd

(* A picture that is being downloaded belongs to a scan that exists.       *)
LEMMA PendingTypes ==
    ASSUME TypeInv, NEW r \in Runs, NEW i \in PicNos, pic[r][i] # "none"
    PROVE  scan[r].phase # "free"
BY DEF TypeInv, Shape, PicsAreOfScans, NoPics

(* A download that starts hangs on a scan that is alive.                   *)
LEMMA TypeStartDownload ==
    ASSUME TypeInv, NEW r \in Runs, NEW i \in PicNos, StartDownload(r, i)
    PROVE  TypeInv'
<1>1. scan[r].phase # "free" /\ "running" \in PicStates
  BY PendingTypes DEF StartDownload, PicStates
<1> QED
  BY <1>1, TypePicture DEF StartDownload, TypeInv, TypeOK, diskVars

(* So does one that fails.                                                 *)
LEMMA TypePictureFails ==
    ASSUME TypeInv, NEW r \in Runs, NEW i \in PicNos, PictureFails(r, i)
    PROVE  TypeInv'
<1>1. scan[r].phase # "free" /\ "failed" \in PicStates
  BY PendingTypes DEF PictureFails, PicStates
<1> QED
  BY <1>1, TypePicture DEF PictureFails, TypeInv, TypeOK, diskVars

(* So does one that arrives; its file goes to a folder of a task.          *)
LEMMA TypePictureArrives ==
    ASSUME TypeInv, NEW r \in Runs, NEW i \in PicNos, PictureArrives(r, i)
    PROVE  TypeInv'
<1> DEFINE f == FolderOf(r)
<1>1. scan[r].phase # "free"
  BY PendingTypes DEF PictureArrives
<1>2. TaskOf(r) \in Tasks
  BY <1>1, PageTypes
<1>3. disk' \in [Folders -> [PicNos -> Tasks \cup {NoFile}]]
  <2>1. disk \in [Folders -> [PicNos -> Tasks \cup {NoFile}]] /\ f \in Folders
    BY DEF TypeInv, TypeOK, PictureArrives
  <2>2. [disk[f] EXCEPT ![i] = IF @ = NoFile THEN TaskOf(r) ELSE @]
           \in [PicNos -> Tasks \cup {NoFile}]
    BY <1>2, <2>1
  <2>3. disk' = [disk EXCEPT ![f] =
                   [disk[f] EXCEPT ![i] = IF @ = NoFile THEN TaskOf(r) ELSE @]]
    BY <2>1 DEF PictureArrives
  <2> QED
    BY <2>1, <2>2, <2>3
<1>4. pic' \in [Runs -> [PicNos -> PicStates]]
  BY PicTypes DEF PictureArrives, PicStates
<1>5. callback' \in Callback
  BY DEF PictureArrives, At, Callback, Steps
<1>6. Shape'
  BY <1>1 DEF PictureArrives, At, TypeInv, TypeOK, Shape, ScansAreOfTasks,
     PicsAreOfScans, CallbackIsOfScan, TaskOf, PageEnd
<1> QED
  BY <1>3, <1>4, <1>5, <1>6 DEF PictureArrives, TypeInv, TypeOK

(* downloadSuccessBlock counts it in the model and stores the row when it  *)
(* was the last.                                                           *)
LEMMA TypeCountPicture ==
    ASSUME TypeInv, NEW r \in Runs, CountPicture(r) PROVE TypeInv'
<1> DEFINE i == callback.pic
           m == [model[r] EXCEPT !.downloaded = @ + 1]
<1>1. scan[r].phase # "free" /\ model[r] \in Model /\ table \in Table
  BY DeliveringTypes DEF CountPicture, Delivering, TypeInv, TypeOK
<1>2. TaskOf(r) \in Tasks
  BY <1>1, PageTypes
<1>3. m \in Model
  BY <1>1 DEF Model
<1>4. [m EXCEPT !.status = FinishDownload] \in Model
  <2>1. \A w \in Model : [w EXCEPT !.status = FinishDownload] \in Model
    BY DEF Model, FinishDownload
  <2> QED
    BY <1>3, <2>1
<1>5. Model \subseteq Row
  BY DEF Model, Row, Absent, FinishDownload
<1>6. model' \in [Runs -> Model]
  BY <1>3, <1>4 DEF CountPicture, TypeInv, TypeOK
<1>7. table' \in Table
  <2>1. Update(table, TaskOf(r), [m EXCEPT !.status = FinishDownload]) \in Table
    BY <1>1, <1>2, <1>4, <1>5, TableTypes
  <2> QED
    BY <1>1, <2>1 DEF CountPicture
<1>8. todo' \in [Threads -> Seq(Instr)]
  <2>1. PostComplete \in Instr
    BY InstrTypes
  <2>2. <<PostComplete>> \in Seq(Instr)
    BY <2>1
  <2> QED
    BY <2>2 DEF CountPicture, TypeInv, TypeOK
<1>9. pic' \in [Runs -> [PicNos -> PicStates]]
  BY PicTypes DEF CountPicture, PicStates
<1>10. callback' \in Callback
  BY DEF CountPicture, Idle, Callback, Steps
<1>11. Shape'
  BY <1>1 DEF CountPicture, Idle, TypeInv, TypeOK, Shape, ScansAreOfTasks,
     PicsAreOfScans, CallbackIsOfScan, TaskOf
<1> QED
  BY <1>6, <1>7, <1>8, <1>9, <1>10, <1>11 DEF CountPicture, TypeInv, TypeOK,
     diskVars

(* A scan is freed when nothing refers to it.                              *)
LEMMA FreeTypes ==
    /\ FreeScan \in Scan
    /\ [status |-> 1, total |-> 0, downloaded |-> 0] \in Model
    /\ NoPics \in [PicNos -> PicStates]
    /\ Idle \in Callback
    /\ LaunchScript \in Seq(Instr)
<1>1. FreeScan \in Scan
  BY PipelineAssumption DEF FreeScan, Scan, Phases
<1>2. [status |-> 1, total |-> 0, downloaded |-> 0] \in Model
  BY DEF Model
<1>3. NoPics \in [PicNos -> PicStates]
  BY DEF NoPics, PicStates
<1>4. Idle \in Callback
  BY DEF Idle, Callback, Steps
<1>5. LaunchScript \in Seq(Instr)
  <2>1. /\ ResetHalf \in Instr /\ Gate(FALSE) \in Instr
        /\ [op |-> "register"] \in Instr
    BY InstrTypes
  <2> QED
    BY <2>1, ScriptTypes DEF LaunchScript
<1> QED
  BY <1>1, <1>2, <1>3, <1>4, <1>5

(* A freed operation leaves no download and no callback behind.            *)
LEMMA TypeRelease ==
    ASSUME TypeInv, NEW r \in Runs, Release(r) PROVE TypeInv'
<1>1. /\ scan' \in [Runs -> Scan] /\ model' \in [Runs -> Model]
      /\ pic' \in [Runs -> [PicNos -> PicStates]]
  BY FreeTypes DEF Release, TypeInv, TypeOK
<1>2. Shape'
  BY DEF Release, FreeScan, TypeInv, TypeOK, Shape, ScansAreOfTasks,
     PicsAreOfScans, CallbackIsOfScan, TaskOf, PageEnd
<1> QED
  BY <1>1, <1>2 DEF Release, TypeInv, TypeOK, diskVars

(* Every step of a scan or of one of its downloads.                        *)
LEMMA TypeRun ==
    ASSUME TypeInv, NEW r \in Runs, RunStep(r)
    PROVE  TypeInv'
<1>1. CASE FinishScan(r)
  BY <1>1, TypeFinishScan
<1>2. CASE HandlerVanishes(r)
  BY <1>2, TypeIdle DEF HandlerVanishes
<1>3. CASE \E i \in PicNos : \/ StartDownload(r, i)
                             \/ PictureArrives(r, i)
                             \/ PictureFails(r, i)
  BY <1>3, TypeStartDownload, TypePictureArrives, TypePictureFails
<1> QED
  BY <1>1, <1>2, <1>3, TypePageAnswer, TypeDealWithPage, TypeOfferPicture,
     TypeNextPage, TypeCompleteScan, TypeStartScan, TypeCountPicture,
     TypeRelease DEF RunStep

-----------------------------------------------------------------------------
(* The user and the launch.                                                *)

(* The instructions a user operation may start with, in a set I.           *)
UserInstrIn(I) ==
    /\ Gate(FALSE) \in I /\ ResetHalf \in I /\ ResetZero \in I
    /\ \A S \in SUBSET Tasks : /\ CancelScans(S) \in I /\ DeleteRows(S) \in I
                               /\ CancelDownloads(S) \in I
                               /\ PostCancel(S) \in I /\ RemoveFolders(S) \in I
    /\ \A t \in Tasks : ResetRow(t) \in I /\ TryToAdd(t) \in I
    /\ Snapshot("deleteEach", Normal, {}) \in I
    /\ "finishAll" \in UserOps => Snapshot("finishEach", Normal, {}) \in I

(* The scripts the user operations start are made of these.                *)
LEMMA UserScripts ==
    ASSUME NEW I, UserInstrIn(I)
    PROVE  /\ CancelAllTasks \in Seq(I)
           /\ CancelAllTasks \o <<Snapshot("deleteEach", Normal, {})>> \in Seq(I)
           /\ "finishAll" \in UserOps =>
                 CancelAllTasks \o <<Snapshot("finishEach", Normal, {})>> \in Seq(I)
           /\ \A t \in Tasks :
                 /\ CancelTasks({t}) \in Seq(I)
                 /\ CancelTasks({t}) \o <<ResetRow(t), Gate(FALSE)>> \in Seq(I)
                 /\ CancelTasks({t}) \o <<RemoveFolders({t}), ResetRow(t),
                                          Gate(FALSE)>> \in Seq(I)
                 /\ CancelTasks({t}) \o <<DeleteRows({t})>> \in Seq(I)
                 /\ CancelTasks({t}) \o <<DeleteRows({t}), RemoveFolders({t})>>
                       \in Seq(I)
<1>1. \A a, b \in Seq(I) : a \o b \in Seq(I)
  OBVIOUS
<1>2. /\ \A j \in I : <<j>> \in Seq(I)
      /\ \A j, k \in I : <<j, k>> \in Seq(I)
      /\ \A j, k, l \in I : <<j, k, l>> \in Seq(I)
  BY ScriptTypes
<1>3. /\ Gate(FALSE) \in I /\ ResetHalf \in I
      /\ \A S \in SUBSET Tasks : /\ CancelScans(S) \in I
                                 /\ CancelDownloads(S) \in I
                                 /\ DeleteRows(S) \in I
                                 /\ RemoveFolders(S) \in I
      /\ \A t \in Tasks : ResetRow(t) \in I
      /\ Snapshot("deleteEach", Normal, {}) \in I
      /\ "finishAll" \in UserOps => Snapshot("finishEach", Normal, {}) \in I
  BY DEF UserInstrIn
<1>4. CancelAllTasks \in Seq(I)
  BY <1>2, <1>3 DEF CancelAllTasks
<1>5. \A S \in SUBSET Tasks : CancelTasks(S) \in Seq(I)
  BY <1>2, <1>3 DEF CancelTasks
<1>6. \A t \in Tasks : {t} \in SUBSET Tasks
  OBVIOUS
<1>7. /\ CancelAllTasks \o <<Snapshot("deleteEach", Normal, {})>> \in Seq(I)
      /\ "finishAll" \in UserOps =>
            CancelAllTasks \o <<Snapshot("finishEach", Normal, {})>> \in Seq(I)
  BY <1>1, <1>2, <1>3, <1>4
<1>8. ASSUME NEW t \in Tasks
      PROVE  /\ CancelTasks({t}) \o <<ResetRow(t), Gate(FALSE)>> \in Seq(I)
             /\ CancelTasks({t}) \o <<RemoveFolders({t}), ResetRow(t),
                                      Gate(FALSE)>> \in Seq(I)
             /\ CancelTasks({t}) \o <<DeleteRows({t})>> \in Seq(I)
             /\ CancelTasks({t}) \o <<DeleteRows({t}), RemoveFolders({t})>>
                   \in Seq(I)
  <2>1. /\ <<ResetRow(t), Gate(FALSE)>> \in Seq(I)
        /\ <<RemoveFolders({t}), ResetRow(t), Gate(FALSE)>> \in Seq(I)
        /\ <<DeleteRows({t})>> \in Seq(I)
        /\ <<DeleteRows({t}), RemoveFolders({t})>> \in Seq(I)
    BY <1>2, <1>3, <1>6
  <2> QED
    BY <1>1, <1>5, <1>6, <2>1
<1> QED
  BY <1>4, <1>5, <1>6, <1>7, <1>8

(* So are those that clear folders or everything, or add a set again.      *)
LEMMA ClearScripts ==
    ASSUME NEW I, UserInstrIn(I)
    PROVE  /\ <<DeleteRows(Tasks)>> \in Seq(I)
           /\ <<DeleteRows(Tasks), RemoveFolders(Tasks)>> \in Seq(I)
           /\ CancelAllTasks \o <<DeleteRows(Tasks), RemoveFolders(Tasks)>>
                 \in Seq(I)
           /\ \A S, C \in SUBSET Tasks :
                 <<DeleteRows(S), PostCancel(C), RemoveFolders(S)>> \in Seq(I)
           /\ \A t \in Tasks, S \in SUBSET Tasks :
                 /\ <<DeleteRows(S), TryToAdd(t)>> \in Seq(I)
                 /\ <<DeleteRows(S), RemoveFolders({t}), TryToAdd(t)>> \in Seq(I)
<1>1. /\ \A j \in I : <<j>> \in Seq(I)
      /\ \A j, k \in I : <<j, k>> \in Seq(I)
      /\ \A j, k, l \in I : <<j, k, l>> \in Seq(I)
  BY ScriptTypes
<1>2. /\ \A S \in SUBSET Tasks : /\ DeleteRows(S) \in I
                                 /\ PostCancel(S) \in I
                                 /\ RemoveFolders(S) \in I
      /\ \A t \in Tasks : TryToAdd(t) \in I
  BY DEF UserInstrIn
<1>3. /\ Tasks \in SUBSET Tasks
      /\ \A t \in Tasks : {t} \in SUBSET Tasks
  OBVIOUS
<1>4. /\ <<DeleteRows(Tasks)>> \in Seq(I)
      /\ <<DeleteRows(Tasks), RemoveFolders(Tasks)>> \in Seq(I)
  BY <1>1, <1>2, <1>3
<1>5. CancelAllTasks \o <<DeleteRows(Tasks), RemoveFolders(Tasks)>> \in Seq(I)
  <2>1. CancelAllTasks \in Seq(I)
    BY UserScripts
  <2> QED
    BY <1>4, <2>1
<1>6. \A S, C \in SUBSET Tasks :
          <<DeleteRows(S), PostCancel(C), RemoveFolders(S)>> \in Seq(I)
  BY <1>1, <1>2
<1>7. \A t \in Tasks, S \in SUBSET Tasks :
          /\ <<DeleteRows(S), TryToAdd(t)>> \in Seq(I)
          /\ <<DeleteRows(S), RemoveFolders({t}), TryToAdd(t)>> \in Seq(I)
  BY <1>1, <1>2, <1>3
<1> QED
  BY <1>4, <1>5, <1>6, <1>7

(* A user operation gives the main thread such a script.                   *)
LEMMA UserWrites ==
    ASSUME NEW I, UserInstrIn(I), UserStep
    PROVE  \E s \in Seq(I) : MainDoes(s)
<1>1. CASE CancelAll
  BY <1>1, UserScripts DEF CancelAll
<1>2. CASE StopAndDelete
  BY <1>2, UserScripts DEF StopAndDelete
<1>3. CASE FinishAll
  BY <1>3, UserScripts DEF FinishAll, May
<1>4. CASE RestartAll
  <2>1. <<ResetZero>> \in Seq(I)
    BY ScriptTypes DEF UserInstrIn
  <2> QED
    BY <1>4, <2>1 DEF RestartAll
<1>5. ASSUME NEW t \in Tasks, AddTask(t) PROVE \E s \in Seq(I) : MainDoes(s)
  <2>1. <<Gate(FALSE)>> \in Seq(I)
    BY ScriptTypes DEF UserInstrIn
  <2> QED
    BY <1>5, <2>1 DEF AddTask
<1>6. ASSUME NEW t \in Tasks, Redownload(t) PROVE \E s \in Seq(I) : MainDoes(s)
  BY <1>6, UserScripts DEF Redownload
<1>7. ASSUME NEW t \in Tasks, RedownloadForce(t)
      PROVE  \E s \in Seq(I) : MainDoes(s)
  BY <1>7, UserScripts DEF RedownloadForce
<1>8. ASSUME NEW t \in Tasks, DeleteTask(t) PROVE \E s \in Seq(I) : MainDoes(s)
  BY <1>8, UserScripts DEF DeleteTask
<1>9. CASE ClearAllData
  BY <1>9, ClearScripts DEF ClearAllData
<1>10. CASE ClearRoot
  BY <1>10, ClearScripts DEF ClearRoot
<1>11. ASSUME NEW t \in Tasks, ClearFolder(t)
       PROVE  \E s \in Seq(I) : MainDoes(s)
  <2>1. {t} \in SUBSET Tasks
    OBVIOUS
  <2> QED
    BY <1>11, <2>1, ClearScripts DEF ClearFolder
<1>12. ASSUME NEW S \in SUBSET Tasks, ClearCategory(S)
       PROVE  \E s \in Seq(I) : MainDoes(s)
  <2>1. {} \in SUBSET Tasks
    OBVIOUS
  <2> QED
    BY <1>12, <2>1, ClearScripts DEF ClearCategory
<1>13. ASSUME NEW t \in Tasks, AddAgain(t) PROVE \E s \in Seq(I) : MainDoes(s)
  <2>1. Namesakes(t) \in SUBSET Tasks
    BY DEF Namesakes
  <2> QED
    BY <1>13, <2>1, ClearScripts DEF AddAgain
<1>14. ASSUME NEW t \in Tasks, RemoveSelected(t)
       PROVE  \E s \in Seq(I) : MainDoes(s)
  <2>1. << >> \in Seq(I)
    OBVIOUS
  <2>2. <<RemoveFolders({t})>> \in Seq(I)
    BY ScriptTypes DEF UserInstrIn
  <2> QED
    BY <1>14, <2>1, <2>2 DEF RemoveSelected
<1> QED
  BY <1>1, <1>2, <1>3, <1>4, <1>5, <1>6, <1>7, <1>8, <1>9, <1>10, <1>11,
     <1>12, <1>13, <1>14 DEF UserStep

(* A user operation changes no type.                                       *)
LEMMA TypeUser ==
    ASSUME TypeInv, UserStep
    PROVE  TypeInv'
<1>0. /\ table \in Table /\ todo \in [Threads -> Seq(Instr)]
      /\ folders \subseteq Folders
  BY DEF TypeInv, TypeOK
<1>1. UserInstrIn(Instr)
  <2>1. Normal \in Normal..FinishScane /\ {} \in SUBSET Seen
    BY DEF Normal, FinishScane
  <2> QED
    BY <2>1, InstrTypes DEF UserInstrIn
<1>2. todo' \in [Threads -> Seq(Instr)]
  <2>1. PICK s \in Seq(Instr) : MainDoes(s)
    BY <1>1, UserWrites
  <2> QED
    BY <1>0, <2>1 DEF MainDoes
<1>3. ASSUME NEW t \in Tasks, AddTask(t) PROVE TypeInv'
  <2>1. table' \in Table
    BY <1>0, <1>3, TableTypes DEF AddTask
  <2>2. folders' \subseteq Folders
    BY <1>0, <1>3 DEF AddTask, Folders
  <2> QED
    BY <1>2, <1>3, <2>1, <2>2 DEF AddTask, TypeInv, TypeOK, Shape,
       ScansAreOfTasks, PicsAreOfScans, CallbackIsOfScan, TaskOf, PageEnd,
       runVars
<1>4. ASSUME NEW t \in Tasks, RemoveSelected(t) PROVE TypeInv'
  <2>1. disk' \in [Folders -> [PicNos -> Tasks \cup {NoFile}]]
    <3>1. disk \in [Folders -> [PicNos -> Tasks \cup {NoFile}]]
      BY DEF TypeInv, TypeOK
    <3>2. ASSUME NEW i \in PicNos
          PROVE  [disk EXCEPT ![Folder[t]][i] = NoFile]
                    \in [Folders -> [PicNos -> Tasks \cup {NoFile}]]
      <4>1. NoFile \in Tasks \cup {NoFile}
        OBVIOUS
      <4> QED
        BY <3>1, <4>1
    <3> QED
      BY <1>4, <3>1, <3>2 DEF RemoveSelected
  <2> QED
    BY <1>2, <1>4, <2>1 DEF RemoveSelected, TypeInv, TypeOK, Shape,
       ScansAreOfTasks, PicsAreOfScans, CallbackIsOfScan, TaskOf, PageEnd,
       runVars
<1>5. ASSUME \A t \in Tasks : ~AddTask(t) /\ ~RemoveSelected(t)
      PROVE  UNCHANGED <<table, diskVars, runVars, callback, registered,
                         crashes>>
  BY <1>5 DEF UserStep, CancelAll, StopAndDelete, FinishAll, RestartAll,
     Redownload, RedownloadForce, DeleteTask, ClearAllData, ClearRoot,
     ClearFolder, ClearCategory, AddAgain
<1> QED
  BY <1>0, <1>2, <1>3, <1>4, <1>5, TypeFrame

(* A restart begins with no operations and the launch script.              *)
LEMMA TypeCrash ==
    ASSUME TypeInv, Crash
    PROVE  TypeInv'
<1>1. /\ scan' \in [Runs -> Scan] /\ model' \in [Runs -> Model]
      /\ pic' \in [Runs -> [PicNos -> PicStates]]
      /\ callback' \in Callback
      /\ todo' \in [Threads -> Seq(Instr)]
  BY FreeTypes DEF Crash
<1>2. registered' \in BOOLEAN
  BY DEF Crash
<1>3. crashes' \in 0..MaxCrashes
  BY PipelineAssumption DEF Crash, TypeInv, TypeOK
<1>4. Shape'
  BY DEF Crash, FreeScan, Idle, Shape, ScansAreOfTasks, PicsAreOfScans,
     CallbackIsOfScan
<1> QED
  BY <1>1, <1>2, <1>3, <1>4 DEF Crash, TypeInv, TypeOK, diskVars

(* The type invariant is inductive.                                        *)
LEMMA TypeStep == TypeInv /\ [Next]_vars => TypeInv'
<1> SUFFICES ASSUME TypeInv, [Next]_vars PROVE TypeInv'
  OBVIOUS
<1>1. CASE UNCHANGED vars
  BY <1>1 DEF vars, diskVars, runVars, TypeInv, TypeOK, Shape,
     ScansAreOfTasks, PicsAreOfScans, CallbackIsOfScan, TaskOf, PageEnd
<1>2. CASE \E th \in Threads : ThreadStep(th)
  BY <1>2, TypeThread
<1>3. CASE \E r \in Runs : RunStep(r)
  BY <1>3, TypeRun
<1> QED
  BY <1>1, <1>2, <1>3, TypeUser, TypeCrash DEF Next

(* Whatever the threads, the answers, the user and the crashes do, every   *)
(* variable keeps its type, a callback refers to an operation that is      *)
(* alive, and an operation is on a page its set has.                       *)
THEOREM TypeCorrect == Spec => [](TypeOK /\ Shape)
<1>1. TypeInv => TypeOK /\ Shape
  BY DEF TypeInv
<1> QED
  BY <1>1, TypeInit, TypeStep, PTL DEF Spec

-----------------------------------------------------------------------------
(* Counting scans and threads.                                             *)

(* Sets of scans and sets of threads can be counted.                       *)
LEMMA BacklogIsFinite ==
    /\ \A S \in SUBSET Runs : IsFiniteSet(S) /\ Cardinality(S) \in Nat
    /\ \A S \in SUBSET Threads : IsFiniteSet(S) /\ Cardinality(S) \in Nat
<1>1. IsFiniteSet(Runs)
  BY PipelineAssumption, FS_Interval DEF Runs
<1>2. IsFiniteSet(Threads)
  <2>1. IsFiniteSet({}) /\ \A S, x : IsFiniteSet(S) => IsFiniteSet(S \cup {x})
    BY FS_EmptySet, FS_AddElement
  <2>2. Threads = (({} \cup {"main"}) \cup {"deleg"}) \cup {"launch"}
    BY DEF Threads
  <2> QED
    BY <2>1, <2>2
<1> QED
  BY <1>1, <1>2, FS_Subset, FS_CardinalityType

(* No more scans, no more threads that may add one: no less room.          *)
LEMMA RoomStays ==
    ASSUME RoomIsLeft, QueuedScans' \subseteq QueuedScans,
           Admitted' \subseteq Admitted
    PROVE  RoomIsLeft'
<1>1. /\ QueuedScans \in SUBSET Runs /\ QueuedScans' \in SUBSET Runs
      /\ Admitted \in SUBSET Threads /\ Admitted' \in SUBSET Threads
  BY DEF QueuedScans, Admitted
<1>2. /\ Cardinality(QueuedScans') <= Cardinality(QueuedScans)
      /\ Cardinality(Admitted') <= Cardinality(Admitted)
  BY <1>1, BacklogIsFinite, FS_Subset
<1>3. /\ Cardinality(QueuedScans) \in Nat /\ Cardinality(QueuedScans') \in Nat
      /\ Cardinality(Admitted) \in Nat /\ Cardinality(Admitted') \in Nat
      /\ ScanLimit \in Nat /\ Cardinality(Threads) \in Nat
  BY <1>1, BacklogIsFinite, PipelineAssumption
<1>4. /\ Cardinality(QueuedScans)' = Cardinality(QueuedScans')
      /\ Cardinality(Admitted)' = Cardinality(Admitted')
  OBVIOUS
<1> QED
  BY <1>2, <1>3, <1>4 DEF RoomIsLeft

-----------------------------------------------------------------------------
(* The scripts.                                                            *)

(* The constructors build instructions that add no operation.              *)
LEMMA LaterTypes ==
    /\ UserInstrIn(LaterInstr)
    /\ Gate(TRUE) \in LaterInstr /\ Query \in LaterInstr
    /\ PostComplete \in LaterInstr /\ [op |-> "register"] \in LaterInstr
    /\ \A t \in Tasks, n \in Nat : Admit(t, n) \in LaterInstr
    /\ \A e \in {"finishEach", "deleteEach"}, W \in SUBSET Seen :
          /\ \A s \in Normal..FinishScane : Snapshot(e, s, W) \in LaterInstr
          /\ Each(e, W) \in LaterInstr
<1> USE DEF LaterInstr, Admitting
<1>1. \A f \in BOOLEAN : Gate(f) \in LaterInstr
  BY InstrTypes DEF Gate
<1>2. /\ Query \in LaterInstr /\ ResetHalf \in LaterInstr
      /\ ResetZero \in LaterInstr /\ PostComplete \in LaterInstr
      /\ [op |-> "register"] \in LaterInstr
  BY InstrTypes DEF Query, ResetHalf, ResetZero, PostComplete
<1>3. \A S \in SUBSET Tasks : /\ CancelScans(S) \in LaterInstr
                              /\ CancelDownloads(S) \in LaterInstr
                              /\ DeleteRows(S) \in LaterInstr
                              /\ PostCancel(S) \in LaterInstr
                              /\ RemoveFolders(S) \in LaterInstr
  BY InstrTypes DEF CancelScans, CancelDownloads, DeleteRows, PostCancel,
     RemoveFolders
<1>4. \A t \in Tasks : /\ ResetRow(t) \in LaterInstr /\ TryToAdd(t) \in LaterInstr
                       /\ \A n \in Nat : Admit(t, n) \in LaterInstr
  BY InstrTypes DEF ResetRow, TryToAdd, Admit
<1>5. \A e \in {"finishEach", "deleteEach"}, W \in SUBSET Seen :
          /\ \A s \in Normal..FinishScane : Snapshot(e, s, W) \in LaterInstr
          /\ Each(e, W) \in LaterInstr
  BY InstrTypes DEF Snapshot, Each
<1>6. Normal \in Normal..FinishScane /\ {} \in SUBSET Seen
  BY DEF Normal, FinishScane
<1> HIDE DEF LaterInstr, Admitting
<1>7. UserInstrIn(LaterInstr)
  BY <1>1, <1>2, <1>3, <1>4, <1>5, <1>6 DEF UserInstrIn
<1> QED
  BY <1>1, <1>2, <1>4, <1>5, <1>7

(* A thread that is given a script of such instructions is not admitted.   *)
LEMMA ScriptReplaced ==
    ASSUME TypeInv, AdmittedIsFirst, NEW th \in Threads,
           NEW s \in Seq(LaterInstr), todo' = [todo EXCEPT ![th] = s]
    PROVE  AdmittedIsFirst' /\ Admitted' = Admitted \ {th}
<1>1. todo \in [Threads -> Seq(Instr)]
  BY DEF TypeInv, TypeOK
<1>2. /\ todo'[th] = s
      /\ \A u \in Threads \ {th} : todo'[u] = todo[u]
  BY <1>1
<1>3. s # << >> => Tail(s) \in Seq(LaterInstr) /\ Head(s) \in LaterInstr
  OBVIOUS
<1>4. AdmittedIsFirst'
  BY <1>2, <1>3 DEF AdmittedIsFirst
<1>5. s # << >> => Head(s).op \notin Admitting
  BY <1>3 DEF LaterInstr
<1>6. Admitted' = Admitted \ {th}
  BY <1>2, <1>5 DEF Admitted
<1> QED
  BY <1>4, <1>6

(* Nor is one that leaves such a script behind.                            *)
LEMMA ScriptContinued ==
    ASSUME TypeInv, AdmittedIsFirst, NEW th \in Threads, todo[th] # << >>,
           NEW s \in Seq(LaterInstr), Then(th, s)
    PROVE  AdmittedIsFirst' /\ Admitted' = Admitted \ {th}
<1>1. Tail(todo[th]) \in Seq(LaterInstr)
  BY DEF AdmittedIsFirst
<1>2. s \o Tail(todo[th]) \in Seq(LaterInstr)
  BY <1>1
<1>3. todo' = [todo EXCEPT ![th] = s \o Tail(todo[th])]
  BY DEF Then
<1> QED
  BY <1>2, <1>3, ScriptReplaced

(* One instruction that may add an operation is the only one.              *)
LEMMA AdmissionContinued ==
    ASSUME TypeInv, AdmittedIsFirst, NEW th \in Threads, todo[th] # << >>,
           NEW j \in Instr, Then(th, <<j>>)
    PROVE  AdmittedIsFirst' /\ Admitted' \subseteq Admitted \cup {th}
<1>1. todo \in [Threads -> Seq(Instr)]
  BY DEF TypeInv, TypeOK
<1>2. Tail(todo[th]) \in Seq(LaterInstr)
  BY DEF AdmittedIsFirst
<1>3. Tail(<<j>> \o Tail(todo[th])) = Tail(todo[th])
  BY <1>2
<1>4. /\ todo'[th] = <<j>> \o Tail(todo[th])
      /\ \A u \in Threads \ {th} : todo'[u] = todo[u]
  BY <1>1 DEF Then
<1>5. AdmittedIsFirst'
  BY <1>2, <1>3, <1>4 DEF AdmittedIsFirst
<1>6. Admitted' \subseteq Admitted \cup {th}
  BY <1>4 DEF Admitted
<1> QED
  BY <1>5, <1>6

-----------------------------------------------------------------------------
(* The threads.                                                            *)

(* Every instruction but the two that lead to addOperation leaves a script *)
(* that adds none.                                                         *)
LEMMA ThreadGoesOn ==
    ASSUME TypeInv, BacklogInv, NEW th \in Threads, ThreadStep(th),
           ~AdmitStep(th), ~MarkStep(th)
    PROVE  AdmittedIsFirst' /\ Admitted' = Admitted \ {th}
<1> DEFINE i == Head(todo[th])
<1> USE DEF NextIs
<1>a. todo[th] # << >>
  BY DEF ThreadStep, GateStep, QueryStep, AdmitStep, MarkStep, EnqueueStep,
     ResetHalfStep, RegisterStep, CancelScansStep, CancelDownloadsStep,
     DeleteStep, ResetRowStep, ResetZeroStep, RemoveFoldersStep,
     PostCompleteStep, PostCancelStep, SnapshotStep, FinishEachStep,
     DeleteEachStep, TryToAddStep
<1>b. i \in Instr /\ table \in Table
  BY <1>a DEF TypeInv, TypeOK
<1>c. \A s \in Seq(LaterInstr) :
         Then(th, s) => AdmittedIsFirst' /\ Admitted' = Admitted \ {th}
  BY <1>a, ScriptContinued DEF BacklogInv
<1>d. << >> \in Seq(LaterInstr)
  OBVIOUS
<1>e. /\ \A j \in LaterInstr : <<j>> \in Seq(LaterInstr)
      /\ \A j, k \in LaterInstr : <<j, k>> \in Seq(LaterInstr)
      /\ \A j, k, l \in LaterInstr : <<j, k, l>> \in Seq(LaterInstr)
      /\ \A j, k, l, m \in LaterInstr : <<j, k, l, m>> \in Seq(LaterInstr)
  BY ScriptTypes
<1>f. /\ Gate(FALSE) \in LaterInstr /\ Gate(TRUE) \in LaterInstr
      /\ \A S \in SUBSET Tasks : /\ CancelScans(S) \in LaterInstr
                                 /\ CancelDownloads(S) \in LaterInstr
                                 /\ DeleteRows(S) \in LaterInstr
                                 /\ PostCancel(S) \in LaterInstr
                                 /\ RemoveFolders(S) \in LaterInstr
  BY LaterTypes DEF UserInstrIn
<1> HIDE DEF i
<1>1. CASE GateStep(th) \/ EnqueueStep(th) \/ TryToAddStep(th)
  <2>1. Query \in LaterInstr
    BY LaterTypes
  <2> QED
    BY <1>1, <1>c, <1>d, <1>e, <1>f, <2>1 DEF GateStep, EnqueueStep,
       TryToAddStep
<1>2. CASE QueryStep(th)
  <2>1. \A t \in NextTasks(table) : t \in Tasks /\ table[t].downloaded \in Nat
    BY <1>b DEF NextTasks, WithStatus, Table, Row
  <2> QED
    BY <1>2, <1>c, <1>d, <1>e, <2>1, LaterTypes DEF QueryStep
<1>3. CASE \/ ResetHalfStep(th) \/ RegisterStep(th) \/ CancelScansStep(th)
           \/ CancelDownloadsStep(th) \/ DeleteStep(th) \/ ResetRowStep(th)
           \/ ResetZeroStep(th) \/ RemoveFoldersStep(th)
  BY <1>3, <1>c, <1>d DEF ResetHalfStep, RegisterStep, CancelScansStep,
     CancelDownloadsStep, DeleteStep, ResetRowStep, ResetZeroStep,
     RemoveFoldersStep
<1>4. CASE PostCompleteStep(th)
  BY <1>4, <1>c, <1>d, <1>e, <1>f DEF PostCompleteStep
<1>5. CASE PostCancelStep(th)
  <2>1. i.tasks \in SUBSET Tasks
    BY <1>5, <1>b, InstrFields DEF PostCancelStep, i
  <2>2. CancelTasks(i.tasks) \in Seq(LaterInstr)
    BY <1>e, <1>f, <2>1 DEF CancelTasks
  <2> QED
    BY <1>5, <1>c, <1>d, <2>2 DEF PostCancelStep, i
<1>6. CASE SnapshotStep(th)
  <2> DEFINE W == i.seen \cup {[task |-> t, row |-> table[t]] :
                                  t \in WithStatus(table, {i.status})}
  <2>1. /\ i.each \in {"finishEach", "deleteEach"}
        /\ i.status \in Normal..FinishScane
        /\ i.seen \in SUBSET Seen
    BY <1>6, <1>b, InstrFields DEF SnapshotStep, i
  <2>2. W \in SUBSET Seen
    BY <1>b, <2>1 DEF WithStatus, Table, Seen
  <2>3. i.status # FinishScane => i.status + 1 \in Normal..FinishScane
    BY <2>1 DEF Normal, FinishScane
  <2>4. \/ i.status # FinishScane /\ Then(th, <<Snapshot(i.each, i.status + 1, W)>>)
        \/ Then(th, <<Each(i.each, W)>>)
    BY <1>6 DEF SnapshotStep, i
  <2> HIDE DEF W
  <2> QED
    BY <1>c, <1>e, <2>1, <2>2, <2>3, <2>4, LaterTypes
<1>7. CASE FinishEachStep(th)
  <2>1. i.seen \in SUBSET Seen
    BY <1>7, <1>b, InstrFields DEF FinishEachStep, i
  <2>2. \A w \in i.seen : i.seen \ {w} \in SUBSET Seen
    BY <2>1
  <2>3. \A w \in i.seen : /\ PostComplete \in LaterInstr
                          /\ Each("finishEach", i.seen \ {w}) \in LaterInstr
    BY <2>2, LaterTypes
  <2>4. \A w \in i.seen :
           <<PostComplete, Each("finishEach", i.seen \ {w})>> \in Seq(LaterInstr)
    BY <1>e, <2>3
  <2> QED
    BY <1>7, <1>c, <1>d, <2>4 DEF FinishEachStep, i
<1>8. CASE DeleteEachStep(th)
  <2>1. i.seen \in SUBSET Seen
    BY <1>8, <1>b, InstrFields DEF DeleteEachStep, i
  <2>2. \A w \in i.seen : i.seen \ {w} \in SUBSET Seen /\ {w.task} \in SUBSET Tasks
    BY <2>1 DEF Seen
  <2>3. \A w \in i.seen : Each("deleteEach", i.seen \ {w}) \in LaterInstr
    BY <2>2, LaterTypes
  <2>4. \A w \in i.seen :
           /\ <<DeleteRows({w.task}), RemoveFolders({w.task}),
                PostCancel({w.task}), Each("deleteEach", i.seen \ {w})>>
                 \in Seq(LaterInstr)
           /\ <<Each("deleteEach", i.seen \ {w})>> \in Seq(LaterInstr)
    BY <1>e, <1>f, <2>2, <2>3
  <2> QED
    BY <1>8, <1>c, <1>d, <2>4 DEF DeleteEachStep, i
<1> QED
  BY <1>1, <1>2, <1>3, <1>4, <1>5, <1>6, <1>7, <1>8 DEF ThreadStep

(* The check of operationCount leaves room for every thread that passed    *)
(* it; addOperation takes the place its thread had already.                *)
LEMMA BacklogThread ==
    ASSUME TypeInv, BacklogInv, NEW th \in Threads, ThreadStep(th)
    PROVE  BacklogInv'
<1> DEFINE i == Head(todo[th])
<1>0. scan \in [Runs -> Scan] /\ (todo[th] # << >> => i \in Instr)
  BY DEF TypeInv, TypeOK
<1>1. CASE AdmitStep(th) /\ Then(th, << >>)
  <2>1. << >> \in Seq(LaterInstr)
    OBVIOUS
  <2>2. AdmittedIsFirst' /\ Admitted' = Admitted \ {th}
    BY <1>1, <2>1, ScriptContinued DEF AdmitStep, NextIs, BacklogInv
  <2>3. QueuedScans' = QueuedScans
    BY <1>1 DEF AdmitStep, runVars, QueuedScans, InQueue
  <2> QED
    BY <2>2, <2>3, RoomStays DEF BacklogInv
<1>2. CASE AdmitStep(th) /\ HasRoom /\ Then(th, <<Mark(i.task, i.downloaded)>>)
  <2>1. Mark(i.task, i.downloaded) \in Instr
    BY <1>0, <1>2, InstrFields, InstrTypes DEF AdmitStep, NextIs
  <2>2. AdmittedIsFirst'
    BY <1>2, <2>1, AdmissionContinued DEF AdmitStep, NextIs, BacklogInv
  <2>3. /\ QueuedScans' = QueuedScans /\ QueuedScans \in SUBSET Runs
        /\ Admitted' \in SUBSET Threads
    BY <1>2 DEF AdmitStep, runVars, QueuedScans, InQueue, Admitted
  <2>4. /\ Cardinality(Admitted') <= Cardinality(Threads)
        /\ Cardinality(Admitted') \in Nat /\ Cardinality(Threads) \in Nat
        /\ Cardinality(QueuedScans) \in Nat /\ ScanLimit \in Nat
    BY <2>3, BacklogIsFinite, FS_Subset, PipelineAssumption
  <2>5. Cardinality(QueuedScans) < ScanLimit
    BY <1>2 DEF HasRoom
  <2>6. Cardinality(QueuedScans') + Cardinality(Admitted')
           < ScanLimit + Cardinality(Threads)
    BY <2>3, <2>4, <2>5
  <2> QED
    BY <2>2, <2>6 DEF BacklogInv, RoomIsLeft
<1>3. CASE MarkStep(th)
  <2>1. Enqueue(i.task, i.downloaded) \in Instr
    BY <1>0, <1>3, InstrFields, InstrTypes DEF MarkStep, NextIs
  <2>2. th \in Admitted
    BY <1>3 DEF MarkStep, NextIs, Admitted, Admitting
  <2>3. AdmittedIsFirst' /\ Admitted' \subseteq Admitted
    BY <1>3, <2>1, <2>2, AdmissionContinued DEF MarkStep, NextIs, BacklogInv
  <2>4. QueuedScans' = QueuedScans
    BY <1>3 DEF MarkStep, runVars, QueuedScans, InQueue
  <2> QED
    BY <2>3, <2>4, RoomStays DEF BacklogInv
<1>4. CASE EnqueueStep(th)
  <2>1. th \in Admitted /\ ~AdmitStep(th) /\ ~MarkStep(th)
    BY <1>4 DEF EnqueueStep, AdmitStep, MarkStep, NextIs, Admitted, Admitting
  <2>2. AdmittedIsFirst' /\ Admitted' = Admitted \ {th}
    BY <1>4, <2>1, ThreadGoesOn
  <2>3. PICK r \in Runs : /\ IsFree(r)
                          /\ \E t : scan' = [scan EXCEPT ![r] = NewScan(t)]
    BY <1>4 DEF EnqueueStep
  <2>4. QueuedScans' \subseteq QueuedScans \cup {r} /\ r \notin QueuedScans
    BY <1>0, <2>3 DEF QueuedScans, InQueue, IsFree
  <2>5. /\ QueuedScans \in SUBSET Runs /\ QueuedScans \cup {r} \in SUBSET Runs
        /\ QueuedScans' \in SUBSET Runs
        /\ Admitted \in SUBSET Threads /\ Admitted' \in SUBSET Threads
    BY DEF QueuedScans, Admitted
  <2>6. /\ Cardinality(QueuedScans \cup {r}) = Cardinality(QueuedScans) + 1
        /\ Cardinality(QueuedScans') <= Cardinality(QueuedScans \cup {r})
    BY <2>4, <2>5, BacklogIsFinite, FS_AddElement, FS_Subset
  <2>7. Cardinality(Admitted') = Cardinality(Admitted) - 1
    BY <2>1, <2>2, <2>5, BacklogIsFinite, FS_RemoveElement
  <2>8. /\ Cardinality(QueuedScans) \in Nat /\ Cardinality(QueuedScans') \in Nat
        /\ Cardinality(Admitted) \in Nat /\ Cardinality(Admitted') \in Nat
        /\ ScanLimit \in Nat /\ Cardinality(Threads) \in Nat
    BY <2>5, BacklogIsFinite, PipelineAssumption
  <2>9. Cardinality(QueuedScans') + Cardinality(Admitted')
           < ScanLimit + Cardinality(Threads)
    BY <2>6, <2>7, <2>8 DEF BacklogInv, RoomIsLeft
  <2> QED
    BY <2>2, <2>9 DEF BacklogInv, RoomIsLeft
<1>5. ASSUME ~AdmitStep(th), ~MarkStep(th), ~EnqueueStep(th)
      PROVE  BacklogInv'
  <2>1. AdmittedIsFirst' /\ Admitted' = Admitted \ {th}
    BY <1>5, ThreadGoesOn
  <2>2. CASE UNCHANGED scan
    BY <2>1, <2>2, RoomStays DEF BacklogInv, QueuedScans, InQueue
  <2>3. CASE CancelScansStep(th)
    <3>1. QueuedScans' \subseteq QueuedScans
      BY <1>0, <2>3 DEF CancelScansStep, QueuedScans, InQueue, Scan
    <3> QED
      BY <2>1, <3>1, RoomStays DEF BacklogInv
  <2> QED
    BY <1>5, <2>2, <2>3 DEF ThreadStep, GateStep, QueryStep, ResetHalfStep,
       RegisterStep, CancelDownloadsStep, DeleteStep, ResetRowStep,
       ResetZeroStep, RemoveFoldersStep, TryToAddStep, PostCompleteStep,
       PostCancelStep, SnapshotStep, FinishEachStep, DeleteEachStep, runVars
<1> QED
  BY <1>1, <1>2, <1>3, <1>4, <1>5 DEF AdmitStep

-----------------------------------------------------------------------------
(* The rest of the program, and the theorem.                               *)

(* The answers and the queues add no operation and admit none.             *)
LEMMA BacklogRun ==
    ASSUME TypeInv, BacklogInv, NEW r \in Runs, RunStep(r)
    PROVE  BacklogInv'
<1>0. scan \in [Runs -> Scan]
  BY DEF TypeInv, TypeOK
<1>1. QueuedScans' \subseteq QueuedScans
  <2>1. CASE UNCHANGED scan
    BY <2>1 DEF QueuedScans, InQueue
  <2>2. CASE NextPage(r) \/ FinishScan(r) \/ StartScan(r) \/ Release(r)
    BY <1>0, <2>2 DEF NextPage, FinishScan, StartScan, Release, FreeScan, Scan,
       QueuedScans, InQueue
  <2> QED
    BY <2>1, <2>2 DEF RunStep, PageAnswer, DealWithPage, OfferPicture,
       CompleteScan, HandlerVanishes, StartDownload, PictureArrives,
       CountPicture, PictureFails, runVars
<1>2. AdmittedIsFirst' /\ Admitted' \subseteq Admitted
  <2>1. CASE UNCHANGED todo
    BY <2>1 DEF BacklogInv, AdmittedIsFirst, Admitted
  <2>2. ASSUME NEW s \in Seq(LaterInstr), todo' = [todo EXCEPT !["deleg"] = s]
        PROVE  AdmittedIsFirst' /\ Admitted' \subseteq Admitted
    BY <2>2, ScriptReplaced DEF Threads, BacklogInv
  <2>3. /\ << Gate(FALSE) >> \in Seq(LaterInstr)
        /\ << PostComplete >> \in Seq(LaterInstr)
    BY LaterTypes, ScriptTypes DEF UserInstrIn
  <2> QED
    BY <2>1, <2>2, <2>3 DEF RunStep, PageAnswer, DealWithPage, OfferPicture,
       NextPage, CompleteScan, NextIsPrepared, FinishScan, HandlerVanishes,
       StartScan, StartDownload, PictureArrives, CountPicture, PictureFails,
       Release
<1> QED
  BY <1>1, <1>2, RoomStays DEF BacklogInv

(* Nor does the user.                                                      *)
LEMMA BacklogUser ==
    ASSUME TypeInv, BacklogInv, UserStep
    PROVE  BacklogInv'
<1>1. PICK s \in Seq(LaterInstr) : MainDoes(s)
  BY LaterTypes, UserWrites
<1>2. AdmittedIsFirst' /\ Admitted' = Admitted \ {"main"}
  BY <1>1, ScriptReplaced DEF MainDoes, Threads, BacklogInv
<1>3. QueuedScans' = QueuedScans
  BY DEF UserStep, CancelAll, StopAndDelete, FinishAll, RestartAll, AddTask,
     Redownload, RedownloadForce, DeleteTask, ClearAllData, ClearRoot,
     ClearFolder, ClearCategory, RemoveSelected, AddAgain, runVars,
     QueuedScans, InQueue
<1> QED
  BY <1>2, <1>3, RoomStays DEF BacklogInv

(* After a launch the queue is empty and no thread was admitted.           *)
LEMMA BacklogFresh ==
    ASSUME scan = [r \in Runs |-> FreeScan],
           todo = [th \in Threads |-> IF th = "launch" THEN LaunchScript
                                                       ELSE << >>]
    PROVE  BacklogInv
<1>1. QueuedScans = {}
  BY DEF QueuedScans, InQueue, FreeScan
<1>2. Tail(LaunchScript) \in Seq(LaterInstr) /\ Head(LaunchScript) = ResetHalf
  <2>1. <<Gate(FALSE), [op |-> "register"]>> \in Seq(LaterInstr)
    BY LaterTypes, ScriptTypes DEF UserInstrIn
  <2>2. \A a, b, c : /\ Head(<<a, b, c>>) = a
                     /\ Tail(<<a, b, c>>) = <<b, c>>
    OBVIOUS
  <2> QED
    BY <2>1, <2>2, Zenon DEF LaunchScript
<1>3. AdmittedIsFirst
  BY <1>2 DEF AdmittedIsFirst
<1>4. Admitted = {}
  BY <1>2 DEF Admitted, ResetHalf, Admitting
<1>5. /\ Cardinality({}) = 0 /\ ScanLimit \in Nat \ {0}
      /\ Cardinality(Threads) \in Nat
  BY BacklogIsFinite, FS_EmptySet, PipelineAssumption
<1> QED
  BY <1>1, <1>3, <1>4, <1>5 DEF BacklogInv, RoomIsLeft

(* BacklogInv is inductive, with the types.                                *)
LEMMA BacklogStep == TypeInv /\ BacklogInv /\ [Next]_vars => BacklogInv'
<1> SUFFICES ASSUME TypeInv, BacklogInv, [Next]_vars PROVE BacklogInv'
  OBVIOUS
<1>1. CASE UNCHANGED vars
  BY <1>1 DEF vars, runVars, BacklogInv, AdmittedIsFirst, RoomIsLeft, Admitted,
     QueuedScans, InQueue
<1>2. CASE Crash
  <2>1. /\ scan' = [r \in Runs |-> FreeScan]
        /\ todo' = [th \in Threads |-> IF th = "launch" THEN LaunchScript
                                                        ELSE << >>]
    BY <1>2 DEF Crash
  <2>2. ASSUME (scan = [r \in Runs |-> FreeScan])',
               (todo = [th \in Threads |-> IF th = "launch" THEN LaunchScript
                                                            ELSE << >>])'
        PROVE  BacklogInv'
    BY <2>2, BacklogFresh, PTL
  <2> QED
    BY <2>1, <2>2
<1> QED
  BY <1>1, <1>2, BacklogThread, BacklogRun, BacklogUser DEF Next

(* parserWithSourceModel sees room in the queue and adds its operation     *)
(* later, with no lock between: whatever the threads, the answers, the     *)
(* user and the crashes do, the queue holds less than the limit and the    *)
(* threads together.                                                       *)
THEOREM BacklogStaysBounded == Spec => []ScanBacklogIsBounded
<1>1. Init => BacklogInv
  BY BacklogFresh DEF Init, InitWith
<1>2. TypeInv /\ BacklogInv /\ [Next]_vars => BacklogInv'
  BY BacklogStep
<1>3. BacklogInv => ScanBacklogIsBounded
  <2> SUFFICES ASSUME BacklogInv PROVE ScanBacklogIsBounded
    OBVIOUS
  <2>1. QueuedScans \in SUBSET Runs /\ Admitted \in SUBSET Threads
    BY DEF QueuedScans, Admitted
  <2>2. /\ Cardinality(QueuedScans) \in Nat /\ Cardinality(Admitted) \in Nat
        /\ ScanLimit \in Nat /\ Cardinality(Threads) \in Nat
    BY <2>1, BacklogIsFinite, PipelineAssumption
  <2> QED
    BY <2>2 DEF BacklogInv, RoomIsLeft, ScanBacklogIsBounded
<1> QED
  BY <1>1, <1>2, <1>3, TypeInit, TypeStep, PTL DEF Spec
=============================================================================
