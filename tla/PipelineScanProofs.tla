------------------------ MODULE PipelineScanProofs --------------------------
(***************************************************************************)
(* What the scans of DownloadPipeline promise, for every value of the      *)
(* constants: a finished set has all the pictures of its pages, if every   *)
(* page can be read and the user does not declare sets finished; and a row *)
(* that says it is being scanned is, if the user cancels nothing.          *)
(***************************************************************************)
EXTENDS DownloadPipelineProofs

-----------------------------------------------------------------------------
(* Scripts that declare no set finished.                                   *)

(* The constructors build such instructions, but for two.                  *)
LEMMA ScanningTypes ==
    /\ \A i \in ScanningInstr : i \in Instr /\ ~DeclaresFinished(i)
    /\ \A f \in BOOLEAN : Gate(f) \in ScanningInstr
    /\ Query \in ScanningInstr /\ PostComplete \in ScanningInstr
    /\ [op |-> "register"] \in ScanningInstr
    /\ \A t \in Tasks, n \in Nat : /\ Admit(t, n) \in ScanningInstr
                                   /\ Mark(t, n) \in ScanningInstr
                                   /\ Enqueue(t, n) \in ScanningInstr
    /\ \A W \in SUBSET Seen :
          /\ \A s \in Normal..FinishScane :
                Snapshot("deleteEach", s, W) \in ScanningInstr
          /\ Each("deleteEach", W) \in ScanningInstr
    /\ ScansAreWhole => UserInstrIn(ScanningInstr)
<1>1. \A i \in Instr : i.op \notin {"snapshot", "finishEach"}
                          => i \in ScanningInstr
  BY DEF ScanningInstr, DeclaresFinished
<1>2. \A f \in BOOLEAN : Gate(f) \in ScanningInstr
  BY <1>1, InstrTypes DEF Gate
<1>3. /\ Query \in ScanningInstr /\ PostComplete \in ScanningInstr
      /\ [op |-> "register"] \in ScanningInstr
      /\ ResetHalf \in ScanningInstr /\ ResetZero \in ScanningInstr
  BY <1>1, InstrTypes DEF Query, PostComplete, ResetHalf, ResetZero
<1>4. \A t \in Tasks, n \in Nat : /\ Admit(t, n) \in ScanningInstr
                                  /\ Mark(t, n) \in ScanningInstr
                                  /\ Enqueue(t, n) \in ScanningInstr
  BY <1>1, InstrTypes DEF Admit, Mark, Enqueue
<1>5. \A W \in SUBSET Seen :
          /\ \A s \in Normal..FinishScane :
                Snapshot("deleteEach", s, W) \in ScanningInstr
          /\ Each("deleteEach", W) \in ScanningInstr
  BY InstrTypes DEF Snapshot, Each, ScanningInstr, DeclaresFinished
<1>6. \A S \in SUBSET Tasks : /\ CancelScans(S) \in ScanningInstr
                              /\ CancelDownloads(S) \in ScanningInstr
                              /\ DeleteRows(S) \in ScanningInstr
                              /\ PostCancel(S) \in ScanningInstr
                              /\ RemoveFolders(S) \in ScanningInstr
  BY <1>1, InstrTypes DEF CancelScans, CancelDownloads, DeleteRows, PostCancel,
     RemoveFolders
<1>7. \A t \in Tasks : ResetRow(t) \in ScanningInstr /\ TryToAdd(t) \in ScanningInstr
  BY <1>1, InstrTypes DEF ResetRow, TryToAdd
<1>8. Normal \in Normal..FinishScane /\ {} \in SUBSET Seen
  BY DEF Normal, FinishScane
<1>9. ScansAreWhole => UserInstrIn(ScanningInstr)
  BY <1>2, <1>3, <1>5, <1>6, <1>7, <1>8 DEF ScansAreWhole, UserInstrIn
<1> QED
  BY <1>2, <1>3, <1>4, <1>5, <1>9 DEF ScanningInstr

(* A thread leaves such a script behind, and finishes no row from a copy.  *)
LEMMA ScanningThread ==
    ASSUME TypeInv, ScansAreWhole, todo \in [Threads -> Seq(ScanningInstr)],
           NEW th \in Threads, ThreadStep(th)
    PROVE  todo' \in [Threads -> Seq(ScanningInstr)] /\ ~FinishEachStep(th)
<1> DEFINE i == Head(todo[th])
           Scripts == todo' \in [Threads -> Seq(ScanningInstr)]
<1> USE DEF NextIs
<1>0. table \in Table
  BY DEF TypeInv, TypeOK
<1>a. todo[th] # << >>
  BY DEF ThreadStep, GateStep, QueryStep, AdmitStep, MarkStep, EnqueueStep,
     ResetHalfStep, RegisterStep, CancelScansStep, CancelDownloadsStep,
     DeleteStep, ResetRowStep, ResetZeroStep, RemoveFoldersStep,
     PostCompleteStep, PostCancelStep, SnapshotStep, FinishEachStep,
     DeleteEachStep, TryToAddStep
<1>b. i \in ScanningInstr /\ i \in Instr /\ ~DeclaresFinished(i)
  BY <1>a, ScanningTypes
<1>c. \A s \in Seq(ScanningInstr) : Then(th, s) => Scripts
  BY <1>a, ThenTypes
<1>d. /\ << >> \in Seq(ScanningInstr)
      /\ \A j \in ScanningInstr : <<j>> \in Seq(ScanningInstr)
      /\ \A j, k, l \in ScanningInstr : <<j, k, l>> \in Seq(ScanningInstr)
      /\ \A j, k, l, m \in ScanningInstr : <<j, k, l, m>> \in Seq(ScanningInstr)
  <2>1. << >> \in Seq(ScanningInstr)
    OBVIOUS
  <2> QED
    BY <2>1, ScriptTypes
<1>e. UserInstrIn(ScanningInstr)
  BY ScanningTypes
<1>f. ~FinishEachStep(th)
  BY <1>b DEF FinishEachStep, DeclaresFinished, i
<1> SUFFICES Scripts
  BY <1>f
<1> HIDE DEF i, Scripts
<1>1. CASE GateStep(th)
  BY <1>1, <1>c, <1>d, ScanningTypes DEF GateStep
<1>2. CASE QueryStep(th)
  <2>1. \A t \in NextTasks(table) : t \in Tasks /\ table[t].downloaded \in Nat
    BY <1>0 DEF NextTasks, WithStatus, Table, Row
  <2> QED
    BY <1>2, <1>c, <1>d, <2>1, ScanningTypes DEF QueryStep
<1>3. CASE AdmitStep(th)
  <2>1. i.task \in Tasks /\ i.downloaded \in Nat
    BY <1>3, <1>b, InstrFields DEF AdmitStep, i
  <2> QED
    BY <1>3, <1>c, <1>d, <2>1, ScanningTypes DEF AdmitStep, i
<1>4. CASE MarkStep(th)
  <2>1. i.task \in Tasks /\ i.downloaded \in Nat
    BY <1>4, <1>b, InstrFields DEF MarkStep, i
  <2> QED
    BY <1>4, <1>c, <1>d, <2>1, ScanningTypes DEF MarkStep, i
<1>5. CASE EnqueueStep(th)
  BY <1>5, <1>c, <1>d, ScanningTypes DEF EnqueueStep
<1>6. CASE \/ ResetHalfStep(th) \/ RegisterStep(th) \/ CancelScansStep(th)
           \/ CancelDownloadsStep(th) \/ DeleteStep(th) \/ ResetRowStep(th)
           \/ ResetZeroStep(th) \/ RemoveFoldersStep(th)
  BY <1>6, <1>c, <1>d DEF ResetHalfStep, RegisterStep, CancelScansStep,
     CancelDownloadsStep, DeleteStep, ResetRowStep, ResetZeroStep,
     RemoveFoldersStep
<1>7. CASE PostCompleteStep(th)
  BY <1>7, <1>c, <1>d, ScanningTypes DEF PostCompleteStep
<1>8. CASE PostCancelStep(th)
  <2>1. i.tasks \in SUBSET Tasks
    BY <1>8, <1>b, InstrFields DEF PostCancelStep, i
  <2>2. CancelTasks(i.tasks) \in Seq(ScanningInstr)
    BY <1>d, <1>e, <2>1 DEF CancelTasks, UserInstrIn
  <2> QED
    BY <1>8, <1>c, <1>d, <2>2 DEF PostCancelStep, i
<1>9. CASE SnapshotStep(th)
  <2> DEFINE W == i.seen \cup {[task |-> t, row |-> table[t]] :
                                  t \in WithStatus(table, {i.status})}
  <2>1. /\ i.each = "deleteEach"
        /\ i.status \in Normal..FinishScane /\ i.seen \in SUBSET Seen
    BY <1>9, <1>b, InstrFields DEF SnapshotStep, DeclaresFinished, i
  <2>2. W \in SUBSET Seen
    BY <1>0, <2>1 DEF WithStatus, Table, Seen
  <2>3. i.status # FinishScane => i.status + 1 \in Normal..FinishScane
    BY <2>1 DEF Normal, FinishScane
  <2>4. /\ i.status # FinishScane
               => Snapshot(i.each, i.status + 1, W) \in ScanningInstr
        /\ Each(i.each, W) \in ScanningInstr
    BY <2>1, <2>2, <2>3, ScanningTypes
  <2>5. \/ i.status # FinishScane /\ Then(th, <<Snapshot(i.each, i.status + 1, W)>>)
        \/ Then(th, <<Each(i.each, W)>>)
    BY <1>9 DEF SnapshotStep, i
  <2> QED
    BY <1>c, <1>d, <2>4, <2>5
<1>10. CASE DeleteEachStep(th)
  <2>1. i.seen \in SUBSET Seen
    BY <1>10, <1>b, InstrFields DEF DeleteEachStep, i
  <2>2. ASSUME NEW w \in i.seen
        PROVE  /\ DeleteRows({w.task}) \in ScanningInstr
               /\ RemoveFolders({w.task}) \in ScanningInstr
               /\ PostCancel({w.task}) \in ScanningInstr
               /\ Each("deleteEach", i.seen \ {w}) \in ScanningInstr
    <3>1. w.task \in Tasks /\ {w.task} \in SUBSET Tasks
      BY <2>1 DEF Seen
    <3>2. i.seen \ {w} \in SUBSET Seen
      BY <2>1
    <3> QED
      BY <1>e, <3>1, <3>2, ScanningTypes DEF UserInstrIn
  <2> QED
    BY <1>10, <1>c, <1>d, <2>2 DEF DeleteEachStep, i
<1>11. CASE TryToAddStep(th)
  BY <1>11, <1>c, <1>d, ScanningTypes DEF TryToAddStep
<1> QED
  BY <1>1, <1>2, <1>3, <1>4, <1>5, <1>6, <1>7, <1>8, <1>9, <1>10, <1>11, <1>f
     DEF ThreadStep

-----------------------------------------------------------------------------
(* The rows.                                                               *)

(* A statement of a thread that finishes no row from a copy leaves a row   *)
(* alone, sets its count to 0, or changes its status only, to finished if  *)
(* the counts match.                                                       *)
LEMMA StatementsOnRows ==
    ASSUME TypeInv, NEW th \in Threads, ThreadStep(th), ~FinishEachStep(th)
    PROVE  \A t \in Tasks :
              \/ table'[t] = table[t]
              \/ /\ table'[t].downloaded = 0
                 /\ table'[t].status # FinishDownload
              \/ /\ table'[t].total = table[t].total
                 /\ table'[t].downloaded = table[t].downloaded
                 /\ table'[t].status = FinishDownload => CountsMatch(table[t])
<1>0. table \in [Tasks -> Row]
  BY DEF TypeInv, TypeOK, Table
<1> DEFINE Waits(w) == [w EXCEPT !.status = Normal, !.downloaded = 0]
           Ends(w) == [w EXCEPT !.status = FinishDownload]
<1>a. \A w \in Row : /\ Waits(w).downloaded = 0
                     /\ Waits(w).status # FinishDownload
                     /\ Ends(w).total = w.total
                     /\ Ends(w).downloaded = w.downloaded
  BY DEF Row, Normal, FinishDownload
<1>1. CASE MarkStep(th)
  <2>1. \A t \in Tasks : \/ table'[t] = table[t]
                         \/ /\ table'[t].total = table[t].total
                            /\ table'[t].downloaded = table[t].downloaded
                            /\ table'[t].status = StartScane
    BY <1>0, <1>1 DEF MarkStep, UpdateStatus, Row
  <2> QED
    BY <2>1 DEF StartScane, FinishDownload
<1>2. CASE ResetHalfStep(th)
  <2>1. \A t \in Tasks :
           \/ table'[t] = table[t]
           \/ table'[t] = Ends(table[t]) /\ CountsMatch(table[t])
           \/ table'[t] = Waits(table[t])
    BY <1>2 DEF ResetHalfStep, ResetHalfWorking
  <2> HIDE DEF Waits, Ends
  <2> QED
    BY <1>0, <1>a, <2>1
<1>3. CASE DeleteStep(th) \/ ResetRowStep(th) \/ TryToAddStep(th)
  <2>1. \A t \in Tasks : table'[t] \in {table[t], NoRow, NewRow}
    BY <1>0, <1>3 DEF DeleteStep, Delete, ResetRowStep, Update, TryToAddStep,
       Insert
  <2> QED
    BY <2>1 DEF NoRow, NewRow, Absent, Normal, FinishDownload
<1>4. CASE ResetZeroStep(th)
  <2>1. \A t \in Tasks :
           \/ table'[t] = table[t]
           \/ table'[t] = Waits(table[t])
    BY <1>4 DEF ResetZeroStep, ResetToZero
  <2> HIDE DEF Waits, Ends
  <2> QED
    BY <1>0, <1>a, <2>1
<1>5. CASE /\ ~MarkStep(th) /\ ~ResetHalfStep(th) /\ ~DeleteStep(th)
           /\ ~ResetRowStep(th) /\ ~TryToAddStep(th) /\ ~ResetZeroStep(th)
  BY <1>5 DEF ThreadStep, GateStep, QueryStep, AdmitStep, EnqueueStep,
     RegisterStep, CancelScansStep, CancelDownloadsStep, PostCompleteStep,
     PostCancelStep, SnapshotStep, DeleteEachStep, RemoveFoldersStep
<1> QED
  BY <1>1, <1>2, <1>3, <1>4, <1>5

(* Such a step claims no total that was not claimed before.                *)
LEMMA RowsStayWhole ==
    ASSUME RowsAreWhole,
           \A t \in Tasks :
              \/ table'[t] = table[t]
              \/ /\ table'[t].downloaded = 0
                 /\ table'[t].status # FinishDownload
              \/ /\ table'[t].total = table[t].total
                 /\ table'[t].downloaded = table[t].downloaded
                 /\ table'[t].status = FinishDownload => CountsMatch(table[t])
    PROVE  RowsAreWhole'
BY DEF RowsAreWhole, CountsMatch

(* A row written from the model of a scan has the total of its set.        *)
LEMMA WrittenIsWhole ==
    ASSUME TypeInv, RowsAreWhole, NEW r \in Runs, NEW w,
           w.total = WholeSet(TaskOf(r)), table' = Update(table, TaskOf(r), w)
    PROVE  RowsAreWhole'
<1>1. \A t \in Tasks : \/ table'[t] = table[t]
                       \/ t = TaskOf(r) /\ table'[t] = w
  BY DEF Update, TypeInv, TypeOK, Table
<1> QED
  BY <1>1 DEF RowsAreWhole

-----------------------------------------------------------------------------
(* A finished set is complete.                                             *)

(* Models whose status, total and set stay, or which have just begun, stay *)
(* whole.                                                                  *)
LEMMA ModelsStayWhole ==
    ASSUME ModelsAreWhole,
           \A r \in Runs : \/ model'[r].status = StartScane
                           \/ /\ model'[r].total = model[r].total
                              /\ model'[r].status = model[r].status
                              /\ scan'[r].task = scan[r].task
    PROVE  ModelsAreWhole'
BY DEF ModelsAreWhole, TaskOf

(* The threads.                                                            *)
LEMMA WholeThread ==
    ASSUME TypeInv, ScansAreWhole, WholeInv,
           NEW th \in Threads, ThreadStep(th)
    PROVE  WholeInv'
<1>0. scan \in [Runs -> Scan] /\ model \in [Runs -> Model]
  BY DEF TypeInv, TypeOK
<1>1. todo' \in [Threads -> Seq(ScanningInstr)] /\ ~FinishEachStep(th)
  BY ScanningThread DEF WholeInv
<1>2. RowsAreWhole'
  BY <1>1, StatementsOnRows, RowsStayWhole DEF WholeInv
<1>3. UNCHANGED callback
  BY DEF ThreadStep, GateStep, QueryStep, AdmitStep, MarkStep, EnqueueStep,
     ResetHalfStep, RegisterStep, CancelScansStep, CancelDownloadsStep,
     DeleteStep, ResetRowStep, ResetZeroStep, RemoveFoldersStep,
     PostCompleteStep, PostCancelStep, SnapshotStep, FinishEachStep,
     DeleteEachStep, TryToAddStep
<1>4. \A r \in Runs : \/ model'[r].status = StartScane
                      \/ /\ model'[r].total = model[r].total
                         /\ model'[r].status = model[r].status
                         /\ scan'[r].task = scan[r].task
  <2>1. CASE EnqueueStep(th)
    BY <1>0, <2>1 DEF EnqueueStep
  <2>2. CASE CancelScansStep(th)
    <3>1. \A r \in Runs : \A p : [scan[r] EXCEPT !.phase = p].task = scan[r].task
      BY <1>0 DEF Scan
    <3> QED
      BY <1>0, <2>2, <3>1 DEF CancelScansStep
  <2>3. CASE ~EnqueueStep(th) /\ ~CancelScansStep(th)
    BY <2>3 DEF ThreadStep, GateStep, QueryStep, AdmitStep, MarkStep,
       ResetHalfStep, RegisterStep, CancelDownloadsStep,
       DeleteStep, ResetRowStep, ResetZeroStep, RemoveFoldersStep,
       PostCompleteStep, PostCancelStep, SnapshotStep, FinishEachStep,
       DeleteEachStep, TryToAddStep, runVars
  <2> QED
    BY <2>1, <2>2, <2>3
<1>5. ModelsAreWhole'
  BY <1>4, ModelsStayWhole DEF WholeInv
<1> QED
  BY <1>1, <1>2, <1>3, <1>5 DEF WholeInv, PagesAreRead

(* The end of a scan: the last page was read, so that the total is that of *)
(* the set.                                                                *)
LEMMA WholeCompleteScan ==
    ASSUME TypeInv, WholeInv, NEW r \in Runs, CompleteScan(r)
    PROVE  RowsAreWhole' /\ ModelsAreWhole' /\ PagesAreRead'
<1> DEFINE n == PageEnd(r)
           w == AfterScan(r, n)
<1>0. model \in [Runs -> Model]
  BY DEF TypeInv, TypeOK
<1>1. /\ callback.ok /\ LastPage(r)
      /\ model' = [model EXCEPT ![r] = w]
      /\ table' = Update(table, TaskOf(r), w)
      /\ callback' = At("finishScan", r, 0, TRUE) /\ UNCHANGED scan
  BY DEF CompleteScan, Delivering, WholeInv, PagesAreRead
<1>2. n = WholeSet(TaskOf(r))
  BY <1>1 DEF LastPage, PageEnd, WholeSet
<1> HIDE DEF n
<1>3. w.total = n
  <2> DEFINE m == [model[r] EXCEPT !.total = n, !.status = FinishScane]
  <2>1. m.total = n /\ [m EXCEPT !.status = FinishDownload].total = n
    BY <1>0 DEF Model
  <2> QED
    BY <2>1 DEF AfterScan
<1> HIDE DEF w
<1>4. RowsAreWhole'
  BY <1>1, <1>2, <1>3, WrittenIsWhole DEF WholeInv
<1>5. ModelsAreWhole'
  BY <1>0, <1>1, <1>2, <1>3 DEF WholeInv, ModelsAreWhole, TaskOf
<1> QED
  BY <1>1, <1>4, <1>5 DEF PagesAreRead, At

(* The count of a picture: it may finish the row with the total of the     *)
(* model.                                                                  *)
LEMMA WholeCountPicture ==
    ASSUME TypeInv, WholeInv, NEW r \in Runs, CountPicture(r)
    PROVE  RowsAreWhole' /\ ModelsAreWhole' /\ PagesAreRead'
<1> DEFINE m == [model[r] EXCEPT !.downloaded = @ + 1]
           w == [m EXCEPT !.status = FinishDownload]
<1>0. model \in [Runs -> Model]
  BY DEF TypeInv, TypeOK
<1>1. /\ m.total = model[r].total /\ m.status = model[r].status
      /\ w.total = model[r].total
  BY <1>0 DEF Model
<1>2. /\ \/ /\ m.status = FinishScane /\ model' = [model EXCEPT ![r] = w]
            /\ table' = Update(table, TaskOf(r), w)
         \/ model' = [model EXCEPT ![r] = m] /\ UNCHANGED table
      /\ callback' = Idle /\ UNCHANGED scan
  BY DEF CountPicture
<1> HIDE DEF m, w
<1>3. m.status = FinishScane => w.total = WholeSet(TaskOf(r))
  <2>1. model[r].status # StartScane => model[r].total = WholeSet(TaskOf(r))
    BY DEF WholeInv, ModelsAreWhole
  <2> QED
    BY <1>1, <2>1 DEF StartScane, FinishScane
<1>4. RowsAreWhole'
  BY <1>2, <1>3, WrittenIsWhole DEF WholeInv, RowsAreWhole
<1>5. ModelsAreWhole'
  BY <1>0, <1>1, <1>2, <1>3 DEF WholeInv, ModelsAreWhole, TaskOf
<1> QED
  BY <1>2, <1>4, <1>5 DEF PagesAreRead, Idle

(* The operations and the answers.                                         *)
LEMMA WholeRun ==
    ASSUME TypeInv, ScansAreWhole, WholeInv, NEW r \in Runs, RunStep(r)
    PROVE  WholeInv'
<1>0. scan \in [Runs -> Scan] /\ model \in [Runs -> Model]
  BY DEF TypeInv, TypeOK
<1>1. todo' \in [Threads -> Seq(ScanningInstr)]
  <2>1. <<Gate(FALSE)>> \in Seq(ScanningInstr)
        /\ <<PostComplete>> \in Seq(ScanningInstr)
    BY ScriptTypes, ScanningTypes
  <2>2. \/ UNCHANGED todo
        \/ todo' = [todo EXCEPT !["deleg"] = <<Gate(FALSE)>>]
        \/ todo' = [todo EXCEPT !["deleg"] = <<PostComplete>>]
    BY DEF RunStep, PageAnswer, DealWithPage, OfferPicture, NextPage,
       CompleteScan, NextIsPrepared, FinishScan, HandlerVanishes, StartScan,
       StartDownload, PictureArrives, CountPicture, PictureFails, Release
  <2> QED
    BY <2>1, <2>2 DEF WholeInv
<1>2. CASE CompleteScan(r)
  BY <1>1, <1>2, WholeCompleteScan DEF WholeInv
<1>3. CASE CountPicture(r)
  BY <1>1, <1>3, WholeCountPicture DEF WholeInv
<1>4. CASE ~CompleteScan(r) /\ ~CountPicture(r)
  <2>1. RowsAreWhole'
    <3>1. UNCHANGED table
      BY <1>4 DEF RunStep, PageAnswer, DealWithPage, OfferPicture, NextPage,
         FinishScan, HandlerVanishes, StartScan, StartDownload, PictureArrives,
         PictureFails, Release
    <3> QED
      BY <3>1 DEF WholeInv, RowsAreWhole
  <2>2. PagesAreRead'
    BY <1>4 DEF RunStep, PageAnswer, DealWithPage, OfferPicture, AfterOffer,
       NextPage, FinishScan, HandlerVanishes, StartScan, StartDownload,
       PictureArrives, PictureFails, Release, ScansAreWhole, At, Idle, WholeInv,
       PagesAreRead
  <2>3. ModelsAreWhole'
    <3>1. CASE OfferPicture(r)
      <4>1. \A q \in Runs : /\ model'[q].total = model[q].total
                            /\ model'[q].status = model[q].status
        BY <1>0, <3>1 DEF OfferPicture, Model
      <4>2. UNCHANGED scan
        BY <3>1 DEF OfferPicture
      <4> QED
        BY <4>1, <4>2, ModelsStayWhole DEF WholeInv
    <3>2. CASE NextPage(r) \/ FinishScan(r) \/ StartScan(r)
      <4>1. UNCHANGED model /\ \A q \in Runs : scan'[q].task = scan[q].task
        BY <1>0, <3>2 DEF NextPage, FinishScan, StartScan, Scan
      <4> QED
        BY <4>1, ModelsStayWhole DEF WholeInv
    <3>3. CASE Release(r)
      BY <1>0, <3>3, ModelsStayWhole DEF Release, StartScane, WholeInv
    <3>4. CASE /\ ~OfferPicture(r) /\ ~NextPage(r) /\ ~FinishScan(r)
               /\ ~StartScan(r) /\ ~Release(r)
      <4>1. UNCHANGED <<scan, model>>
        BY <1>4, <3>4 DEF RunStep, PageAnswer, DealWithPage, HandlerVanishes,
           StartDownload, PictureArrives, PictureFails, runVars
      <4> QED
        BY <4>1, ModelsStayWhole DEF WholeInv
    <3> QED
      BY <3>1, <3>2, <3>3, <3>4
  <2> QED
    BY <1>1, <2>1, <2>2, <2>3 DEF WholeInv
<1> QED
  BY <1>2, <1>3, <1>4

(* The user: a set that is added claims nothing.                           *)
LEMMA WholeUser ==
    ASSUME TypeInv, ScansAreWhole, WholeInv, UserStep
    PROVE  WholeInv'
<1>1. PICK s \in Seq(ScanningInstr) : MainDoes(s)
  BY ScanningTypes, UserWrites
<1>2. todo' \in [Threads -> Seq(ScanningInstr)]
  BY <1>1 DEF MainDoes, WholeInv
<1>3. UNCHANGED <<scan, model, callback>>
  BY DEF UserStep, CancelAll, StopAndDelete, FinishAll, RestartAll, AddTask,
     Redownload, RedownloadForce, DeleteTask, ClearAllData, ClearRoot,
     ClearFolder, ClearCategory, RemoveSelected, AddAgain, runVars
<1>4. \A t \in Tasks : table'[t] = table[t] \/ table'[t] = NewRow
  <2>1. ASSUME NEW t \in Tasks, AddTask(t)
        PROVE  \A u \in Tasks : table'[u] = table[u] \/ table'[u] = NewRow
    BY <2>1 DEF AddTask, Insert, TypeInv, TypeOK, Table
  <2>2. CASE \A t \in Tasks : ~AddTask(t)
    BY <2>2 DEF UserStep, CancelAll, StopAndDelete, FinishAll, RestartAll,
       Redownload, RedownloadForce, DeleteTask, ClearAllData, ClearRoot,
       ClearFolder, ClearCategory, RemoveSelected, AddAgain
  <2> QED
    BY <2>1, <2>2
<1>5. RowsAreWhole'
  BY <1>4, RowsStayWhole DEF NewRow, Normal, FinishDownload, WholeInv
<1> QED
  BY <1>2, <1>3, <1>5 DEF WholeInv, PagesAreRead, ModelsAreWhole, TaskOf

(* After a launch there is no model object, and the script of the launch   *)
(* declares nothing.                                                       *)
LEMMA WholeFresh ==
    ASSUME ScansAreWhole, callback = Idle,
           model = [r \in Runs |-> [status |-> 1, total |-> 0, downloaded |-> 0]],
           todo = [th \in Threads |-> IF th = "launch" THEN LaunchScript
                                                       ELSE << >>]
    PROVE  /\ todo \in [Threads -> Seq(ScanningInstr)]
           /\ PagesAreRead /\ ModelsAreWhole
<1>1. LaunchScript \in Seq(ScanningInstr) /\ << >> \in Seq(ScanningInstr)
  <2>1. /\ ResetHalf \in ScanningInstr /\ Gate(FALSE) \in ScanningInstr
        /\ [op |-> "register"] \in ScanningInstr
    BY ScanningTypes DEF UserInstrIn
  <2> QED
    BY <2>1, ScriptTypes DEF LaunchScript
<1> QED
  BY <1>1 DEF PagesAreRead, Idle, ModelsAreWhole, StartScane

(* As long as every page can be read and the user does not declare sets    *)
(* finished, a set shown as finished has all the pictures of its pages:    *)
(* whatever was cancelled, deleted, added again, scanned twice at the same *)
(* time, or lost in a crash, no scan writes a total it did not read to the *)
(* end, and no row finishes with a total of another scan.                  *)
THEOREM FinishedSetsAreComplete ==
    ScansAreWhole => (Spec => []FinishedIsComplete)
<1> SUFFICES ASSUME ScansAreWhole PROVE Spec => []FinishedIsComplete
  OBVIOUS
<1>1. Init => WholeInv
  <2> SUFFICES ASSUME Init PROVE WholeInv
    OBVIOUS
  <2>1. RowsAreWhole
    BY DEF Init, InitWith, RowsAreWhole, EmptyTable, NoRow, Absent,
       FinishDownload, CountsMatch
  <2> QED
    BY <2>1, WholeFresh DEF Init, InitWith, WholeInv
<1>2. TypeInv /\ WholeInv /\ [Next]_vars => WholeInv'
  <2> SUFFICES ASSUME TypeInv, WholeInv, [Next]_vars PROVE WholeInv'
    OBVIOUS
  <2>1. CASE UNCHANGED vars
    BY <2>1 DEF vars, runVars, WholeInv, PagesAreRead, ModelsAreWhole,
       RowsAreWhole, TaskOf
  <2>2. CASE \E th \in Threads : ThreadStep(th)
    BY <2>2, WholeThread
  <2>3. CASE \E r \in Runs : RunStep(r)
    BY <2>3, WholeRun
  <2>4. CASE UserStep
    BY <2>4, WholeUser
  <2>5. CASE Crash
    <3>1. RowsAreWhole'
      BY <2>5 DEF Crash, WholeInv, RowsAreWhole
    <3>2. /\ todo' \in [Threads -> Seq(ScanningInstr)]
          /\ PagesAreRead' /\ ModelsAreWhole'
      <4>1. LaunchScript \in Seq(ScanningInstr) /\ << >> \in Seq(ScanningInstr)
        <5>1. /\ ResetHalf \in ScanningInstr /\ Gate(FALSE) \in ScanningInstr
              /\ [op |-> "register"] \in ScanningInstr
          BY ScanningTypes DEF UserInstrIn
        <5> QED
          BY <5>1, ScriptTypes DEF LaunchScript
      <4> QED
        BY <2>5, <4>1 DEF Crash, PagesAreRead, Idle, ModelsAreWhole, StartScane
    <3> QED
      BY <3>1, <3>2 DEF WholeInv
  <2> QED
    BY <2>1, <2>2, <2>3, <2>4, <2>5 DEF Next
<1>3. WholeInv => FinishedIsComplete
  BY DEF WholeInv, RowsAreWhole, FinishedIsComplete, WholeSet
<1> QED
  BY <1>1, <1>2, <1>3, TypeInit, TypeStep, PTL DEF Spec

-----------------------------------------------------------------------------
(* A row that is being scanned is worked on.                               *)

(* What the constructors build for a user who cancels nothing.             *)
LEMMA WorkingTypes ==
    /\ \A i \in WorkingInstr :
          /\ i \in Instr
          /\ i.op \notin {"cancelScans", "cancelDownloads", "postCancel",
                          "resetRow", "snapshot", "finishEach", "deleteEach"}
    /\ \A f \in BOOLEAN : Gate(f) \in WorkingInstr
    /\ Query \in WorkingInstr /\ PostComplete \in WorkingInstr
    /\ ResetHalf \in WorkingInstr /\ ResetZero \in WorkingInstr
    /\ [op |-> "register"] \in WorkingInstr
    /\ \A t \in Tasks, n \in Nat : /\ Admit(t, n) \in WorkingInstr
                                   /\ Mark(t, n) \in WorkingInstr
                                   /\ Enqueue(t, n) \in WorkingInstr
    /\ \A S \in SUBSET Tasks : /\ DeleteRows(S) \in WorkingInstr
                               /\ RemoveFolders(S) \in WorkingInstr
    /\ \A t \in Tasks : TryToAdd(t) \in WorkingInstr
<1>1. \A i \in Instr :
         i.op \notin {"cancelScans", "cancelDownloads", "postCancel", "resetRow",
                      "snapshot", "finishEach", "deleteEach"}
            => i \in WorkingInstr
  BY DEF WorkingInstr
<1>2. \A f \in BOOLEAN : Gate(f) \in WorkingInstr
  BY <1>1, InstrTypes DEF Gate
<1>3. /\ Query \in WorkingInstr /\ PostComplete \in WorkingInstr
      /\ ResetHalf \in WorkingInstr /\ ResetZero \in WorkingInstr
      /\ [op |-> "register"] \in WorkingInstr
  BY <1>1, InstrTypes DEF Query, PostComplete, ResetHalf, ResetZero
<1>4. \A t \in Tasks, n \in Nat : /\ Admit(t, n) \in WorkingInstr
                                  /\ Mark(t, n) \in WorkingInstr
                                  /\ Enqueue(t, n) \in WorkingInstr
  BY <1>1, InstrTypes DEF Admit, Mark, Enqueue
<1>5. \A S \in SUBSET Tasks : /\ DeleteRows(S) \in WorkingInstr
                              /\ RemoveFolders(S) \in WorkingInstr
  BY <1>1, InstrTypes DEF DeleteRows, RemoveFolders
<1>6. \A t \in Tasks : TryToAdd(t) \in WorkingInstr
  BY <1>1, InstrTypes DEF TryToAdd
<1> QED
  BY <1>2, <1>3, <1>4, <1>5, <1>6 DEF WorkingInstr

(* The steps such a thread takes, and what it leaves behind.               *)
LEMMA WorkingThread ==
    ASSUME TypeInv, todo \in [Threads -> Seq(WorkingInstr)],
           NEW th \in Threads, ThreadStep(th)
    PROVE  /\ todo' \in [Threads -> Seq(WorkingInstr)]
           /\ \A u \in Threads : u # th => todo'[u] = todo[u]
           /\ \/ MarkStep(th) \/ EnqueueStep(th) \/ ResetHalfStep(th)
              \/ /\ UNCHANGED <<scan, callback>>
                 /\ ~NextIs(th, "enqueue") /\ ~NextIs(th, "resetHalf")
                 /\ \A t \in Tasks : \/ table'[t] = table[t]
                                     \/ table'[t].status # StartScane
<1> DEFINE i == Head(todo[th])
           Scripts == todo' \in [Threads -> Seq(WorkingInstr)]
<1> USE DEF NextIs
<1>0. table \in Table /\ table \in [Tasks -> Row]
  BY DEF TypeInv, TypeOK, Table
<1>a. todo[th] # << >>
  BY DEF ThreadStep, GateStep, QueryStep, AdmitStep, MarkStep, EnqueueStep,
     ResetHalfStep, RegisterStep, CancelScansStep, CancelDownloadsStep,
     DeleteStep, ResetRowStep, ResetZeroStep, RemoveFoldersStep,
     PostCompleteStep, PostCancelStep, SnapshotStep, FinishEachStep,
     DeleteEachStep, TryToAddStep
<1>b. /\ i \in WorkingInstr /\ i \in Instr
      /\ i.op \notin {"cancelScans", "cancelDownloads", "postCancel", "resetRow",
                      "snapshot", "finishEach", "deleteEach"}
  BY <1>a, WorkingTypes
<1>c. \A s \in Seq(WorkingInstr) : Then(th, s) => Scripts
  BY <1>a, ThenTypes
<1>d. /\ << >> \in Seq(WorkingInstr)
      /\ \A j \in WorkingInstr : <<j>> \in Seq(WorkingInstr)
  <2>1. << >> \in Seq(WorkingInstr)
    OBVIOUS
  <2> QED
    BY <2>1, ScriptTypes
<1>e. \/ GateStep(th)  \/ QueryStep(th)     \/ AdmitStep(th)
      \/ MarkStep(th)  \/ EnqueueStep(th)   \/ ResetHalfStep(th)
      \/ RegisterStep(th) \/ DeleteStep(th) \/ ResetZeroStep(th)
      \/ PostCompleteStep(th) \/ TryToAddStep(th) \/ RemoveFoldersStep(th)
  BY <1>b DEF ThreadStep, CancelScansStep, CancelDownloadsStep, ResetRowStep,
     PostCancelStep, SnapshotStep, FinishEachStep, DeleteEachStep, i
<1>f. \A u \in Threads : u # th => todo'[u] = todo[u]
  BY <1>e DEF GateStep, QueryStep, AdmitStep, MarkStep, EnqueueStep,
     ResetHalfStep, RegisterStep, DeleteStep, ResetZeroStep, RemoveFoldersStep,
     PostCompleteStep, TryToAddStep, Then
<1>g. Scripts
  <2> HIDE DEF i, Scripts
  <2>1. CASE GateStep(th)
    BY <2>1, <1>c, <1>d, WorkingTypes DEF GateStep
  <2>2. CASE QueryStep(th)
    <3>1. \A t \in NextTasks(table) : t \in Tasks /\ table[t].downloaded \in Nat
      BY <1>0 DEF NextTasks, WithStatus, Table, Row
    <3> QED
      BY <2>2, <1>c, <1>d, <3>1, WorkingTypes DEF QueryStep
  <2>3. CASE AdmitStep(th) \/ MarkStep(th)
    <3>1. i.task \in Tasks /\ i.downloaded \in Nat
      BY <2>3, <1>b, InstrFields DEF AdmitStep, MarkStep, i
    <3> QED
      BY <2>3, <1>c, <1>d, <3>1, WorkingTypes DEF AdmitStep, MarkStep, i
  <2>4. CASE EnqueueStep(th)
    BY <2>4, <1>c, <1>d, WorkingTypes DEF EnqueueStep
  <2>5. CASE \/ ResetHalfStep(th) \/ RegisterStep(th) \/ DeleteStep(th)
             \/ ResetZeroStep(th) \/ RemoveFoldersStep(th)
    BY <2>5, <1>c, <1>d DEF ResetHalfStep, RegisterStep, DeleteStep,
       ResetZeroStep, RemoveFoldersStep
  <2>6. CASE PostCompleteStep(th)
    BY <2>6, <1>c, <1>d, WorkingTypes DEF PostCompleteStep
  <2>7. CASE TryToAddStep(th)
    BY <2>7, <1>c, <1>d, WorkingTypes DEF TryToAddStep
  <2> QED
    BY <1>e, <2>1, <2>2, <2>3, <2>4, <2>5, <2>6, <2>7
<1>h. CASE /\ ~MarkStep(th) /\ ~EnqueueStep(th) /\ ~ResetHalfStep(th)
  <2>1. UNCHANGED <<scan, callback>>
    BY <1>e, <1>h DEF GateStep, QueryStep, AdmitStep, RegisterStep, DeleteStep,
       ResetZeroStep, RemoveFoldersStep, PostCompleteStep, TryToAddStep, runVars
  <2>2. ~NextIs(th, "enqueue") /\ ~NextIs(th, "resetHalf")
    BY <1>e, <1>h DEF GateStep, QueryStep, AdmitStep, RegisterStep, DeleteStep,
       ResetZeroStep, RemoveFoldersStep, PostCompleteStep, TryToAddStep
  <2>3. \A t \in Tasks : table'[t] = table[t] \/ table'[t].status # StartScane
    <3>1. CASE DeleteStep(th) \/ TryToAddStep(th)
      <4>1. \A t \in Tasks : table'[t] \in {table[t], NoRow, NewRow}
        BY <1>0, <3>1 DEF DeleteStep, Delete, TryToAddStep, Insert
      <4> QED
        BY <4>1 DEF NoRow, NewRow, Absent, Normal, StartScane
    <3>2. CASE ResetZeroStep(th)
      <4> DEFINE Waits(w) == [w EXCEPT !.status = Normal, !.downloaded = 0]
      <4>1. \A w \in Row : Waits(w).status # StartScane
        BY DEF Row, Normal, StartScane
      <4>2. \A t \in Tasks : table'[t] = table[t] \/ table'[t] = Waits(table[t])
        BY <3>2 DEF ResetZeroStep, ResetToZero
      <4> HIDE DEF Waits
      <4> QED
        BY <1>0, <4>1, <4>2
    <3>3. CASE ~DeleteStep(th) /\ ~TryToAddStep(th) /\ ~ResetZeroStep(th)
      BY <1>e, <1>h, <3>3 DEF GateStep, QueryStep, AdmitStep, RegisterStep,
         RemoveFoldersStep, PostCompleteStep
    <3> QED
      BY <3>1, <3>2, <3>3
  <2> QED
    BY <1>f, <1>g, <2>1, <2>2, <2>3
<1> QED
  BY <1>f, <1>g, <1>h

(* What is about to be added or reset stays so, when a thread that has     *)
(* nothing to do is given a script.                                        *)
LEMMA WillStays ==
    ASSUME NEW th \in Threads, todo[th] = << >>,
           todo \in [Threads -> Seq(Instr)],
           NEW s, todo' = [todo EXCEPT ![th] = s]
    PROVE  /\ WillReset => WillReset'
           /\ \A t \in Tasks : WillAdd(t) => WillAdd(t)'
<1>1. \A u \in Threads : todo[u] # << >> => todo'[u] = todo[u]
  OBVIOUS
<1> QED
  BY <1>1 DEF WillReset, WillAdd, NextIs

(* The threads: what a thread is about to add it adds, and the row it      *)
(* marks it is about to add.                                               *)
LEMMA WorkThread ==
    ASSUME TypeInv, WorkInv, NEW th \in Threads, ThreadStep(th)
    PROVE  WorkInv'
<1>0. /\ table \in Table /\ table \in [Tasks -> Row]
      /\ scan \in [Runs -> Scan] /\ todo \in [Threads -> Seq(Instr)]
  BY DEF TypeInv, TypeOK, Table
<1>1. /\ todo' \in [Threads -> Seq(WorkingInstr)]
      /\ \A u \in Threads : u # th => todo'[u] = todo[u]
      /\ \/ MarkStep(th) \/ EnqueueStep(th) \/ ResetHalfStep(th)
         \/ /\ UNCHANGED <<scan, callback>>
            /\ ~NextIs(th, "enqueue") /\ ~NextIs(th, "resetHalf")
            /\ \A t \in Tasks : \/ table'[t] = table[t]
                                \/ table'[t].status # StartScane
  BY WorkingThread DEF WorkInv
<1>2. \A u \in Threads :
         u # th =>
            /\ NextIs(u, "resetHalf") => WillReset'
            /\ \A t \in Tasks : NextIs(u, "enqueue") /\ Head(todo[u]).task = t
                                   => WillAdd(t)'
  BY <1>1 DEF NextIs, WillReset, WillAdd
<1>3. CASE MarkStep(th)
  <2> DEFINE i == Head(todo[th])
  <2>1. /\ UNCHANGED <<scan, callback>>
        /\ ~NextIs(th, "enqueue") /\ ~NextIs(th, "resetHalf")
    BY <1>3 DEF MarkStep, NextIs, runVars
  <2>2. \A t \in Tasks : t # i.task => table'[t] = table[t]
    BY <1>0, <1>3 DEF MarkStep, UpdateStatus
  <2>3. \A t \in Tasks : t = i.task => WillAdd(t)'
    <3>1. todo'[th] = <<Enqueue(i.task, i.downloaded)>> \o Tail(todo[th])
      BY <1>0, <1>3 DEF MarkStep, Then
    <3>2. Tail(todo[th]) \in Seq(Instr)
      BY <1>0, <1>3 DEF MarkStep, NextIs
    <3>3. /\ todo'[th] # << >>
          /\ Head(todo'[th]) = Enqueue(i.task, i.downloaded)
      BY <3>1, <3>2
    <3> QED
      BY <3>3 DEF WillAdd, NextIs, Enqueue
  <2>4. \A r \in Runs, t \in Tasks : WorksOn(r, t) => WorksOn(r, t)'
    BY <2>1 DEF WorksOn, InQueue, TaskOf
  <2>5. StartedHaveWork'
    <3> SUFFICES ASSUME NEW t \in Tasks, table'[t].status = StartScane
                 PROVE  \/ \E r \in Runs : WorksOn(r, t)'
                        \/ WillAdd(t)' \/ WillReset'
      BY DEF StartedHaveWork
    <3>1. CASE t = i.task
      BY <2>3, <3>1
    <3>2. CASE t # i.task
      <4>1. \/ \E r \in Runs : WorksOn(r, t)
            \/ WillAdd(t) \/ WillReset
        BY <2>2, <3>2 DEF WorkInv, StartedHaveWork
      <4> QED
        BY <1>2, <2>1, <2>4, <4>1 DEF WillAdd, WillReset
    <3> QED
      BY <3>1, <3>2
  <2> QED
    BY <1>1, <2>1, <2>5 DEF WorkInv, NoneWithdrawn
<1>4. CASE EnqueueStep(th)
  <2> DEFINE j == Head(todo[th]).task
  <2>1. PICK q \in Runs : IsFree(q) /\ scan' = [scan EXCEPT ![q] = NewScan(j)]
    BY <1>4 DEF EnqueueStep
  <2>2. UNCHANGED <<table, callback>> /\ ~NextIs(th, "resetHalf")
    BY <1>4 DEF EnqueueStep, NextIs
  <2>3. /\ scan'[q].phase = "queued" /\ scan'[q].task = j
        /\ \A r \in Runs : r # q => scan'[r] = scan[r]
    BY <1>0, <2>1 DEF NewScan
  <2>4. \A r \in Runs, t \in Tasks : WorksOn(r, t) => WorksOn(r, t)'
    <3>1. \A r \in Runs : InQueue(r) => r # q
      BY <2>1 DEF InQueue, IsFree
    <3> QED
      BY <2>2, <2>3, <3>1 DEF WorksOn, InQueue, TaskOf
  <2>5. \A t \in Tasks : t = j => WorksOn(q, t)'
    <3>1. callback.at = "finishScan" => callback.run # q
      BY <2>1 DEF TypeInv, Shape, CallbackIsOfScan, IsFree
    <3> QED
      BY <2>2, <2>3, <3>1 DEF WorksOn, InQueue, TaskOf
  <2>6. StartedHaveWork'
    <3> SUFFICES ASSUME NEW t \in Tasks, table'[t].status = StartScane
                 PROVE  \/ \E r \in Runs : WorksOn(r, t)'
                        \/ WillAdd(t)' \/ WillReset'
      BY DEF StartedHaveWork
    <3>1. \/ \E r \in Runs : WorksOn(r, t)
          \/ WillAdd(t) \/ WillReset
      BY <2>2 DEF WorkInv, StartedHaveWork
    <3>2. CASE \E r \in Runs : WorksOn(r, t)
      BY <2>4, <3>2
    <3>3. CASE WillAdd(t)
      <4>1. PICK u \in Threads : NextIs(u, "enqueue") /\ Head(todo[u]).task = t
        BY <3>3 DEF WillAdd
      <4>2. CASE u = th
        BY <2>5, <4>1, <4>2
      <4>3. CASE u # th
        BY <1>2, <4>1, <4>3
      <4> QED
        BY <4>2, <4>3
    <3>4. CASE WillReset
      BY <1>2, <2>2, <3>4 DEF WillReset
    <3> QED
      BY <3>1, <3>2, <3>3, <3>4
  <2>7. NoneWithdrawn'
    BY <2>3 DEF WorkInv, NoneWithdrawn
  <2> QED
    BY <1>1, <2>6, <2>7 DEF WorkInv
<1>5. CASE ResetHalfStep(th)
  <2>1. \A t \in Tasks : table'[t].status # StartScane
    <3> DEFINE Waits(w) == [w EXCEPT !.status = Normal, !.downloaded = 0]
               Ends(w) == [w EXCEPT !.status = FinishDownload]
    <3>1. \A w \in Row : /\ Waits(w).status # StartScane
                         /\ Ends(w).status # StartScane
      BY DEF Row, Normal, FinishDownload, StartScane
    <3>2. \A t \in Tasks : \/ table'[t] = Waits(table[t])
                           \/ table'[t] = Ends(table[t])
                           \/ /\ table'[t] = table[t]
                              /\ table[t].status # StartScane
      BY <1>5 DEF ResetHalfStep, ResetHalfWorking
    <3> HIDE DEF Waits, Ends
    <3> QED
      BY <1>0, <3>1, <3>2
  <2>2. UNCHANGED scan
    BY <1>5 DEF ResetHalfStep, runVars
  <2> QED
    BY <1>1, <2>1, <2>2 DEF WorkInv, NoneWithdrawn, StartedHaveWork
<1>6. CASE /\ UNCHANGED <<scan, callback>>
           /\ ~NextIs(th, "enqueue") /\ ~NextIs(th, "resetHalf")
           /\ \A t \in Tasks : \/ table'[t] = table[t]
                               \/ table'[t].status # StartScane
  <2>1. \A r \in Runs, t \in Tasks : WorksOn(r, t) => WorksOn(r, t)'
    BY <1>6 DEF WorksOn, InQueue, TaskOf
  <2>2. WillReset => WillReset'
    BY <1>2, <1>6 DEF WillReset
  <2>3. \A t \in Tasks : WillAdd(t) => WillAdd(t)'
    BY <1>2, <1>6 DEF WillAdd
  <2>4. StartedHaveWork'
    BY <1>6, <2>1, <2>2, <2>3 DEF WorkInv, StartedHaveWork
  <2> QED
    BY <1>1, <1>6, <2>4 DEF WorkInv, NoneWithdrawn
<1> QED
  BY <1>1, <1>3, <1>4, <1>5, <1>6

(* An operation writes its row as scanned before it leaves the queue, and  *)
(* no operation touches another one.                                       *)
LEMMA WorkRunRows ==
    ASSUME TypeInv, NEW r \in Runs, RunStep(r)
    PROVE  /\ \A t \in Tasks : \/ table'[t] = table[t]
                               \/ table'[t].status # StartScane
           /\ CompleteScan(r) => table'[TaskOf(r)].status # StartScane
<1>0. /\ table \in [Tasks -> Row] /\ model \in [Runs -> Model]
      /\ Runs \subseteq Int
  BY DEF TypeInv, TypeOK, Table, Runs
<1>1. ASSUME NEW t \in Tasks, NEW w, w.status \in {FinishScane, FinishDownload},
             table' = Update(table, t, w)
      PROVE  /\ \A u \in Tasks : \/ table'[u] = table[u]
                                 \/ table'[u].status # StartScane
             /\ table'[t].status # StartScane
  <2>1. \A u \in Tasks : \/ table'[u] = table[u]
                         \/ u = t /\ table'[u] = w
    BY <1>0, <1>1 DEF Update
  <2>2. table'[t] = w \/ table'[t].status = Absent
    BY <1>0, <1>1 DEF Update, Has
  <2> QED
    BY <1>1, <2>1, <2>2 DEF StartScane, FinishScane, FinishDownload, Absent
<1>2. CASE CompleteScan(r)
  <2>1. PICK n : table' = Update(table, TaskOf(r), AfterScan(r, n))
    BY <1>2 DEF CompleteScan
  <2>2. AfterScan(r, n).status \in {FinishScane, FinishDownload}
    <3> DEFINE m == [model[r] EXCEPT !.total = n, !.status = FinishScane]
    <3>1. /\ m.status = FinishScane
          /\ [m EXCEPT !.status = FinishDownload].status = FinishDownload
      BY <1>0 DEF Model
    <3> QED
      BY <3>1 DEF AfterScan
  <2>3. TaskOf(r) \in Tasks
    BY <1>2 DEF CompleteScan, Delivering, TypeInv, Shape, CallbackIsOfScan,
       ScansAreOfTasks
  <2> QED
    BY <1>1, <2>1, <2>2, <2>3
<1>3. CASE CountPicture(r)
  <2> DEFINE m == [model[r] EXCEPT !.downloaded = @ + 1]
             w == [m EXCEPT !.status = FinishDownload]
  <2>1. w.status = FinishDownload
    BY <1>0 DEF Model
  <2>2. UNCHANGED table \/ table' = Update(table, TaskOf(r), w)
    BY <1>3 DEF CountPicture
  <2>3. TaskOf(r) \in Tasks
    BY <1>3 DEF CountPicture, Delivering, TypeInv, Shape, CallbackIsOfScan,
       ScansAreOfTasks
  <2>4. ~CompleteScan(r)
    BY <1>3 DEF CountPicture, CompleteScan, Delivering
  <2> HIDE DEF w
  <2> QED
    BY <1>1, <2>1, <2>2, <2>3, <2>4
<1>4. CASE ~CompleteScan(r) /\ ~CountPicture(r)
  BY <1>4 DEF RunStep, PageAnswer, DealWithPage, OfferPicture, NextPage,
     FinishScan, HandlerVanishes, StartScan, StartDownload, PictureArrives,
     PictureFails, Release
<1> QED
  BY <1>2, <1>3, <1>4

LEMMA WorkRun ==
    ASSUME TypeInv, WorkInv, NEW r \in Runs, RunStep(r)
    PROVE  WorkInv'
<1>0. /\ scan \in [Runs -> Scan] /\ todo \in [Threads -> Seq(Instr)]
      /\ Runs \subseteq Nat \ {0}
  BY DEF TypeInv, TypeOK, Runs
<1>a. \/ UNCHANGED scan
      \/ NextPage(r) \/ FinishScan(r) \/ StartScan(r) \/ Release(r)
  BY DEF RunStep, PageAnswer, DealWithPage, OfferPicture, CompleteScan,
     HandlerVanishes, StartDownload, PictureArrives, CountPicture, PictureFails,
     runVars
<1>1. \/ UNCHANGED todo
      \/ /\ todo["deleg"] = << >>
         /\ \/ todo' = [todo EXCEPT !["deleg"] = <<Gate(FALSE)>>]
            \/ todo' = [todo EXCEPT !["deleg"] = <<PostComplete>>]
  BY DEF RunStep, PageAnswer, DealWithPage, OfferPicture, NextPage,
     CompleteScan, NextIsPrepared, FinishScan, HandlerVanishes, StartScan,
     StartDownload, PictureArrives, CountPicture, PictureFails, Release,
     Delivering
<1>2. todo' \in [Threads -> Seq(WorkingInstr)]
  <2>1. <<Gate(FALSE)>> \in Seq(WorkingInstr)
        /\ <<PostComplete>> \in Seq(WorkingInstr)
    BY ScriptTypes, WorkingTypes
  <2> QED
    BY <1>1, <2>1 DEF WorkInv
<1>3. /\ WillReset => WillReset'
      /\ \A t \in Tasks : WillAdd(t) => WillAdd(t)'
  <2>1. "deleg" \in Threads
    BY DEF Threads
  <2>2. CASE UNCHANGED todo
    BY <2>2 DEF WillReset, WillAdd, NextIs
  <2> QED
    BY <1>0, <1>1, <2>1, <2>2, WillStays
<1>4. \A t \in Tasks : table'[t] = table[t] \/ table'[t].status # StartScane
  BY WorkRunRows
<1>5. /\ \A q \in Runs : q # r => scan'[q] = scan[q]
      /\ callback' = callback \/ callback'.run \in {r, 0}
  <2>1. \A q \in Runs : q # r => scan'[q] = scan[q]
    BY <1>0, <1>a DEF NextPage, FinishScan, StartScan, Release
  <2>2. callback' = callback \/ callback'.run \in {r, 0}
    BY DEF RunStep, PageAnswer, DealWithPage, OfferPicture, AfterOffer, NextPage,
       CompleteScan, FinishScan, HandlerVanishes, StartScan, StartDownload,
       PictureArrives, CountPicture, PictureFails, Release, At, Idle
  <2> QED
    BY <2>1, <2>2
<1>6. \A q \in Runs, t \in Tasks :
         q # r /\ WorksOn(q, t) => WorksOn(q, t)'
  BY <1>0, <1>5 DEF WorksOn, InQueue, TaskOf
<1>7. ASSUME NEW t \in Tasks, WorksOn(r, t), table'[t].status = StartScane
      PROVE  WorksOn(r, t)'
  <2>1. ~CompleteScan(r)
    BY <1>7, WorkRunRows DEF WorksOn
  <2>2. ~FinishScan(r) /\ ~HandlerVanishes(r) /\ ~Release(r)
    BY <1>7 DEF WorksOn, InQueue, FinishScan, Delivering, HandlerVanishes, Release
  <2>3. scan'[r].task = scan[r].task /\ InQueue(r)'
    <3>1. CASE NextPage(r)
      BY <1>0, <1>7, <3>1 DEF NextPage, WorksOn, InQueue, Scan
    <3>2. CASE StartScan(r)
      BY <1>0, <3>2 DEF StartScan, InQueue, Scan, WorkInv, NoneWithdrawn
    <3>3. CASE ~NextPage(r) /\ ~StartScan(r)
      <4>1. UNCHANGED scan
        BY <2>1, <2>2, <3>3 DEF RunStep, PageAnswer, DealWithPage, OfferPicture,
           StartDownload, PictureArrives, CountPicture, PictureFails, runVars
      <4> QED
        BY <1>7, <4>1 DEF WorksOn, InQueue
    <3> QED
      BY <3>1, <3>2, <3>3
  <2>4. callback' = callback \/ callback'.at # "finishScan"
    BY <2>1, <2>2 DEF RunStep, PageAnswer, DealWithPage, OfferPicture,
       AfterOffer, NextPage, StartScan, StartDownload, PictureArrives,
       CountPicture, PictureFails, At, Idle
  <2> QED
    BY <1>7, <2>3, <2>4 DEF WorksOn, TaskOf
<1>8. StartedHaveWork'
  BY <1>3, <1>4, <1>6, <1>7 DEF WorkInv, StartedHaveWork
<1>9. NoneWithdrawn'
  <2>1. scan'[r].phase \notin {"withdrawn", "cancelled"}
    <3>1. scan[r].phase \notin {"withdrawn", "cancelled"}
      BY DEF WorkInv, NoneWithdrawn
    <3>2. CASE NextPage(r)
      BY <1>0, <3>1, <3>2 DEF NextPage, Scan
    <3>3. CASE FinishScan(r)
      BY <1>0, <3>1, <3>3 DEF FinishScan, Scan
    <3>4. CASE StartScan(r)
      BY <1>0, <3>1, <3>4 DEF StartScan, Scan
    <3>5. CASE Release(r)
      BY <1>0, <3>5 DEF Release, FreeScan
    <3> QED
      BY <1>a, <3>1, <3>2, <3>3, <3>4, <3>5
  <2> QED
    BY <1>5, <2>1 DEF WorkInv, NoneWithdrawn
<1> QED
  BY <1>2, <1>8, <1>9 DEF WorkInv

(* The user: he adds sets and clears the table.                            *)
LEMMA WorkUser ==
    ASSUME TypeInv, NothingIsCancelled, WorkInv, UserStep
    PROVE  WorkInv'
<1>0. todo \in [Threads -> Seq(Instr)] /\ "main" \in Threads
  BY DEF TypeInv, TypeOK, Threads
<1>1. \/ \E t \in Tasks : AddTask(t) \/ AddAgain(t) \/ RemoveSelected(t)
      \/ RestartAll \/ ClearAllData
  BY DEF UserStep, NothingIsCancelled, May, CancelAll, StopAndDelete, FinishAll,
     Redownload, RedownloadForce, DeleteTask, ClearRoot, ClearFolder,
     ClearCategory
<1>2. PICK s \in Seq(WorkingInstr) : MainDoes(s)
  <2>1. \A i, j, k \in WorkingInstr : /\ <<i>> \in Seq(WorkingInstr)
                                      /\ <<i, j>> \in Seq(WorkingInstr)
                                      /\ <<i, j, k>> \in Seq(WorkingInstr)
    BY ScriptTypes
  <2>2. CASE \E t \in Tasks : AddTask(t)
    BY <2>1, <2>2, WorkingTypes DEF AddTask
  <2>3. CASE \E t \in Tasks : AddAgain(t)
    <3>1. \A t \in Tasks : Namesakes(t) \in SUBSET Tasks /\ {t} \in SUBSET Tasks
      BY DEF Namesakes
    <3> QED
      BY <2>1, <2>3, <3>1, WorkingTypes DEF AddAgain
  <2>4. CASE RestartAll
    BY <2>1, <2>4, WorkingTypes DEF RestartAll
  <2>5. CASE ClearAllData
    BY <2>1, <2>5, WorkingTypes DEF ClearAllData
  <2>6. CASE \E t \in Tasks : RemoveSelected(t)
    <3>1. \A t \in Tasks : {t} \in SUBSET Tasks
      OBVIOUS
    <3>2. << >> \in Seq(WorkingInstr)
      OBVIOUS
    <3> QED
      BY <2>1, <2>6, <3>1, <3>2, WorkingTypes DEF RemoveSelected
  <2> QED
    BY <1>1, <2>2, <2>3, <2>4, <2>5, <2>6
<1>3. /\ UNCHANGED <<scan, callback>> /\ todo["main"] = << >>
      /\ \A t \in Tasks : table'[t] = table[t] \/ table'[t] = NewRow
  <2>1. ASSUME NEW t \in Tasks, AddTask(t)
        PROVE  /\ UNCHANGED <<scan, callback>> /\ todo["main"] = << >>
               /\ \A u \in Tasks : table'[u] = table[u] \/ table'[u] = NewRow
    BY <2>1 DEF AddTask, May, Insert, TypeInv, TypeOK, Table, runVars
  <2> QED
    BY <1>1, <2>1 DEF AddAgain, RemoveSelected, RestartAll, ClearAllData, May,
       runVars
<1>4. todo' \in [Threads -> Seq(WorkingInstr)]
  BY <1>2 DEF MainDoes, WorkInv
<1>5. /\ WillReset => WillReset'
      /\ \A t \in Tasks : WillAdd(t) => WillAdd(t)'
  BY <1>0, <1>2, <1>3, WillStays DEF MainDoes
<1>6. \A r \in Runs, t \in Tasks : WorksOn(r, t) => WorksOn(r, t)'
  BY <1>3 DEF WorksOn, InQueue, TaskOf
<1>7. StartedHaveWork'
  BY <1>3, <1>5, <1>6 DEF WorkInv, StartedHaveWork, NewRow, Normal, StartScane
<1> QED
  BY <1>3, <1>4, <1>7 DEF WorkInv, NoneWithdrawn

(* As long as the user cancels nothing, a row that says it is being        *)
(* scanned is: between the thread that marks it and the one that writes    *)
(* the result there is always an operation, or a thread about to add one,  *)
(* and after a crash the launch is about to reset it.                      *)
THEOREM StartedSetsAreWorkedOn ==
    NothingIsCancelled => (Spec => []StartedIsWorkedOn)
<1> SUFFICES ASSUME NothingIsCancelled PROVE Spec => []StartedIsWorkedOn
  OBVIOUS
<1>0. LaunchScript \in Seq(WorkingInstr) /\ << >> \in Seq(WorkingInstr)
  <2>1. /\ ResetHalf \in WorkingInstr /\ Gate(FALSE) \in WorkingInstr
        /\ [op |-> "register"] \in WorkingInstr
    BY WorkingTypes
  <2> QED
    BY <2>1, ScriptTypes DEF LaunchScript
<1>1. Init => WorkInv
  BY <1>0 DEF Init, InitWith, WorkInv, NoneWithdrawn, FreeScan, StartedHaveWork,
     EmptyTable, NoRow, Absent, StartScane
<1>2. TypeInv /\ WorkInv /\ [Next]_vars => WorkInv'
  <2> SUFFICES ASSUME TypeInv, WorkInv, [Next]_vars PROVE WorkInv'
    OBVIOUS
  <2>1. CASE UNCHANGED vars
    BY <2>1 DEF vars, runVars, WorkInv, NoneWithdrawn, StartedHaveWork, WorksOn,
       InQueue, TaskOf, WillAdd, WillReset, NextIs
  <2>2. CASE \E th \in Threads : ThreadStep(th)
    BY <2>2, WorkThread
  <2>3. CASE \E r \in Runs : RunStep(r)
    BY <2>3, WorkRun
  <2>4. CASE UserStep
    BY <2>4, WorkUser
  <2>5. CASE Crash
    <3>1. WillReset'
      <4>1. "launch" \in Threads /\ todo'["launch"] = LaunchScript
        BY <2>5 DEF Crash, Threads
      <4>2. LaunchScript # << >> /\ Head(LaunchScript).op = "resetHalf"
        BY DEF LaunchScript, ResetHalf
      <4> QED
        BY <4>1, <4>2 DEF WillReset, NextIs
    <3> QED
      BY <1>0, <2>5, <3>1 DEF Crash, WorkInv, NoneWithdrawn, FreeScan,
         StartedHaveWork
  <2> QED
    BY <2>1, <2>2, <2>3, <2>4, <2>5 DEF Next
<1>3. WorkInv => StartedIsWorkedOn
  BY DEF WorkInv, StartedHaveWork, WorksOn, WillAdd, WillReset, NextIs,
     StartedIsWorkedOn, QueuedScans
<1> QED
  BY <1>1, <1>2, <1>3, TypeInit, TypeStep, PTL DEF Spec
=============================================================================
