-------------------------- MODULE DownloadPipeline --------------------------
(***************************************************************************)
(* The download pipeline: the scheduler that takes waiting picture sets    *)
(* from the task table (ContentParserManager), the operations that scan    *)
(* the pages of a set (ParseOperation), the operations that download its   *)
(* pictures (PDDownloadManager, PPDownloadTaskOperation), and the user     *)
(* operations that cancel, restart, delete or finish tasks meanwhile.      *)
(*                                                                         *)
(* Three threads run this code with no lock between them: the main thread  *)
(* (user operations), the serial delegate queue of the shared URL session  *)
(* (every network answer), and the queue prepareForAppLaunch is sent to.   *)
(* todo[th] is what thread th has still to execute of the handler it is    *)
(* in, one instruction for each access to shared state; callback is where  *)
(* the delegate queue is in the answer it is delivering.                   *)
(***************************************************************************)
EXTENDS TaskTable, Sequences

CONSTANTS
    MaxRuns,        \* bound: scans whose objects are alive at the same time
    MaxPics,        \* bound: pictures of a set
    PicsUpTo,       \* PicsUpTo[t][p]: pictures of set t on its pages 1..p
    Folder,         \* Folder[t]: where the pictures of set t are stored
    ScanLimit,      \* maxConcurrentTasksLimit (4)
    BusyLimit,      \* the literal 4 of prepareToDoNextTask
    DownloadLimit,  \* maxDownloadOperationCount (6..12, or 20 on a Mac)
    UserOps,        \* the user operations that may happen
    Faults,         \* the failures that may happen
    MaxCrashes      \* bound: how often the app is killed

Runs      == 1..MaxRuns
PicNos    == 1..MaxPics
Threads   == {"main", "deleg", "launch"}
AllFaults == {"folder", "source", "urlList", "page", "picture"}
AllUserOps == {"add", "cancelAll", "redownload", "redownloadForce",
               "delete", "deleteFiles", "stopAndDelete", "finishAll",
               "restartAll", "clearFolder", "clearCategory", "clearRoot",
               "clearData", "clearDataFiles", "removeSelected", "addAgain",
               "addAgainForce"}

ASSUME PipelineAssumption ==
    /\ MaxRuns \in Nat \ {0}
    /\ MaxPics \in Nat
    /\ PicsUpTo \in [Tasks -> Seq(0..MaxPics)]
    /\ \A t \in Tasks : /\ PicsUpTo[t] # << >>
                        /\ \A p, q \in DOMAIN PicsUpTo[t] :
                               p <= q => PicsUpTo[t][p] <= PicsUpTo[t][q]
    /\ Tasks \subseteq DOMAIN Folder
    /\ ScanLimit \in Nat \ {0, 1}
    /\ BusyLimit \in Nat
    /\ DownloadLimit \in Nat \ {0}
    /\ UserOps \subseteq AllUserOps
    /\ Faults \subseteq AllFaults
    /\ MaxCrashes \in Nat

Folders == {Folder[t] : t \in Tasks}
NoFile  == 0

VARIABLES
    table,       \* the rows of the task table
    folders,     \* the folders that exist
    disk,        \* disk[f][i]: the set whose picture is file i.jpg of folder f
    scan,        \* scan[r]: a ParseOperation
    model,       \* model[r]: the PicContentTaskModel its blocks share
    pic,         \* pic[r][i]: the download of picture i for scan r
    todo,        \* todo[th]: what thread th has still to execute
    callback,    \* the network answer the delegate queue is delivering
    registered,  \* prepareForAppLaunch has added its observers
    crashes      \* how often the app was killed so far

diskVars == <<folders, disk>>
runVars  == <<scan, model, pic>>
vars     == <<table, diskVars, runVars, todo, callback, registered, crashes>>

-----------------------------------------------------------------------------
(* The values of the variables.                                            *)

(* "queued" and "withdrawn" (cancelled before it began) are still in the   *)
(* queue, "scanning" has a request in flight or its answer being handled.  *)
Phases == {"free", "queued", "withdrawn", "scanning", "cancelled", "finished"}

FreeScan == [phase |-> "free", task |-> 0, page |-> 0, found |-> 0]

Scan == [phase : Phases, task : Tasks \cup {0}, page : Nat,
         found : 0..MaxPics]                 \* pageCount and picCount

NewScan(t) == [phase |-> "queued", task |-> t, page |-> 1, found |-> 0]

Model == [status : 1..3, total : Nat, downloaded : Nat]

(* "late" was cancelled while its request was in flight, so its answer may *)
(* already wait on the delegate queue; "saved" is on disk but not counted. *)
PicStates == {"none", "waiting", "running", "late", "saved", "counted",
              "failed"}

Pending == {"waiting", "running", "late", "saved"}

NoPics == [i \in PicNos |-> "none"]

(* A row as it was when it was read.                                       *)
Seen == [task : Tasks, row : Row]

Instr ==
         [op : {"gate"}, force : BOOLEAN]
    \cup [op : {"query", "resetHalf", "register", "resetZero", "postComplete"}]
    \cup [op : {"admit", "mark", "enqueue"}, task : Tasks, downloaded : Nat]
    \cup [op : {"cancelScans", "cancelDownloads", "delete", "postCancel",
                "removeFolders"}, tasks : SUBSET Tasks]
    \cup [op : {"resetRow", "tryToAdd"}, task : Tasks]
    \cup [op : {"snapshot"}, each : {"finishEach", "deleteEach"},
          status : Normal..FinishScane, seen : SUBSET Seen]
    \cup [op : {"finishEach", "deleteEach"}, seen : SUBSET Seen]

Gate(force)         == [op |-> "gate", force |-> force]
Query               == [op |-> "query"]
Admit(t, n)         == [op |-> "admit", task |-> t, downloaded |-> n]
Mark(t, n)          == [op |-> "mark", task |-> t, downloaded |-> n]
Enqueue(t, n)       == [op |-> "enqueue", task |-> t, downloaded |-> n]
CancelScans(S)      == [op |-> "cancelScans", tasks |-> S]
CancelDownloads(S)  == [op |-> "cancelDownloads", tasks |-> S]
ResetHalf           == [op |-> "resetHalf"]
DeleteRows(S)       == [op |-> "delete", tasks |-> S]
ResetRow(t)         == [op |-> "resetRow", task |-> t]
ResetZero           == [op |-> "resetZero"]
PostComplete        == [op |-> "postComplete"]
PostCancel(S)       == [op |-> "postCancel", tasks |-> S]
Snapshot(each, s, W) == [op |-> "snapshot", each |-> each, status |-> s,
                         seen |-> W]
Each(each, W)       == [op |-> each, seen |-> W]
RemoveFolders(S)    == [op |-> "removeFolders", tasks |-> S]
TryToAdd(t)         == [op |-> "tryToAdd", task |-> t]

(* cancelDownloadsByIdentifiers, which ends by looking for the next task.  *)
CancelTasks(S) == <<CancelScans(S), CancelDownloads(S), Gate(FALSE)>>

CancelAllTasks == <<CancelScans(Tasks), CancelDownloads(Tasks), ResetHalf>>

LaunchWithoutReset == <<Gate(FALSE), [op |-> "register"]>>

LaunchScript == <<ResetHalf, Gate(FALSE), [op |-> "register"]>>

Steps == {"idle", "page", "offer", "endOfPage", "count", "finishScan"}

Callback == [at : Steps, run : Runs \cup {0}, pic : PicNos \cup {0},
             ok : BOOLEAN]

Idle == [at |-> "idle", run |-> 0, pic |-> 0, ok |-> TRUE]

At(step, r, i, ok) == [at |-> step, run |-> r, pic |-> i, ok |-> ok]

TypeOK ==
    /\ table \in Table
    /\ folders \subseteq Folders
    /\ disk \in [Folders -> [PicNos -> Tasks \cup {NoFile}]]
    /\ scan \in [Runs -> Scan]
    /\ model \in [Runs -> Model]
    /\ pic \in [Runs -> [PicNos -> PicStates]]
    /\ todo \in [Threads -> Seq(Instr)]
    /\ callback \in Callback
    /\ registered \in BOOLEAN
    /\ crashes \in 0..MaxCrashes

(* A first launch: no task yet, and the launch work still to be done.      *)
InitWith(launch, ready) ==
    /\ table = EmptyTable
    /\ folders = {}
    /\ disk = [f \in Folders |-> [i \in PicNos |-> NoFile]]
    /\ scan = [r \in Runs |-> FreeScan]
    /\ model = [r \in Runs |-> [status |-> 1, total |-> 0, downloaded |-> 0]]
    /\ pic = [r \in Runs |-> NoPics]
    /\ todo = [th \in Threads |-> IF th = "launch" THEN launch ELSE << >>]
    /\ callback = Idle
    /\ registered = ready
    /\ crashes = 0

Init == InitWith(LaunchScript, FALSE)

-----------------------------------------------------------------------------
(* Threads.                                                                *)

NextIs(th, op) == todo[th] # << >> /\ Head(todo[th]).op = op

(* Replace the instruction at the head of todo[th] by the script s.        *)
Then(th, s) == todo' = [todo EXCEPT ![th] = s \o Tail(@)]

InQueue(r)  == scan[r].phase \in {"queued", "withdrawn", "scanning"}
QueuedScans == {r \in Runs : InQueue(r)}
TaskOf(r)   == scan[r].task
FolderOf(r) == Folder[TaskOf(r)]

(* prepareToDoNextTask: the checks before the query.                       *)
GateStep(th) ==
    /\ NextIs(th, "gate")
    /\ \/ "folder" \in Faults /\ Then(th, << >>)
       \/ /\ ~Head(todo[th]).force
          /\ InProgress(table) > BusyLimit
          /\ Then(th, << >>)
       \/ /\ Head(todo[th]).force \/ InProgress(table) <= BusyLimit
          /\ Then(th, <<Query>>)
    /\ UNCHANGED <<table, diskVars, runVars, callback, registered, crashes>>

(* ... the query of the next waiting row and of its source.                *)
QueryStep(th) ==
    /\ NextIs(th, "query")
    /\ \/ NextTasks(table) = {} /\ Then(th, << >>)
       \/ "source" \in Faults /\ NextTasks(table) # {} /\ Then(th, << >>)
       \/ \E t \in NextTasks(table) :
              Then(th, <<Admit(t, table[t].downloaded)>>)
    /\ UNCHANGED <<table, diskVars, runVars, callback, registered, crashes>>

HasRoomForOneMore == Cardinality(QueuedScans) <= ScanLimit
HasRoom == Cardinality(QueuedScans) < ScanLimit

(* parserWithSourceModel: create the folder, see whether the scan queue    *)
(* has room, recreate urlList.txt.                                         *)
AdmitStep(th) ==
    /\ NextIs(th, "admit")
    /\ LET i == Head(todo[th])
       IN  /\ folders' = folders \cup {Folder[i.task]}
           /\ \/ ~HasRoom /\ Then(th, << >>)
              \/ "urlList" \in Faults /\ Then(th, << >>)
              \/ HasRoom /\ Then(th, <<Mark(i.task, i.downloaded)>>)
    /\ UNCHANGED <<table, disk, runVars, callback, registered, crashes>>

(* ... status = 1 in the row ...                                           *)
MarkStep(th) ==
    /\ NextIs(th, "mark")
    /\ LET i == Head(todo[th])
       IN  /\ table' = UpdateStatus(table, i.task, StartScane)
           /\ Then(th, <<Enqueue(i.task, i.downloaded)>>)
    /\ UNCHANGED <<diskVars, runVars, callback, registered, crashes>>

(* ... addOperation, and on to the next task.  The model object is the one *)
(* the query returned, with the counts it had then.                        *)
IsFree(r) == scan[r].phase = "free"

EnqueueStep(th) ==
    /\ NextIs(th, "enqueue")
    /\ \E r \in Runs :
          /\ IsFree(r)
          /\ \A q \in Runs : IsFree(q) => r <= q
          /\ scan' = [scan EXCEPT ![r] = NewScan(Head(todo[th]).task)]
          /\ model' = [model EXCEPT ![r] =
                          [status |-> StartScane, total |-> 0,
                           downloaded |-> Head(todo[th]).downloaded]]
    /\ Then(th, <<Gate(FALSE)>>)
    /\ UNCHANGED <<table, diskVars, pic, callback, registered, crashes>>

(* resetHalfWorkingTasks.                                                  *)
ResetHalfStep(th) ==
    /\ NextIs(th, "resetHalf")
    /\ table' = ResetHalfWorking(table)
    /\ Then(th, << >>)
    /\ UNCHANGED <<diskVars, runVars, callback, registered, crashes>>

(* prepareForAppLaunch adds the observers last.                            *)
RegisterStep(th) ==
    /\ NextIs(th, "register")
    /\ registered' = TRUE
    /\ Then(th, << >>)
    /\ UNCHANGED <<table, diskVars, runVars, callback, crashes>>

(* Cancelling the scans of some tasks: one that runs is finished by cancel *)
(* itself, one that has not begun is finished when the queue starts it.    *)
CancelScansStep(th) ==
    /\ NextIs(th, "cancelScans")
    /\ scan' = [r \in Runs |->
                  IF TaskOf(r) \notin Head(todo[th]).tasks THEN scan[r]
                  ELSE [scan[r] EXCEPT !.phase =
                          CASE @ = "queued"   -> "withdrawn"
                            [] @ = "scanning" -> "cancelled"
                            [] OTHER          -> @]]
    /\ Then(th, << >>)
    /\ UNCHANGED <<table, diskVars, model, pic, callback, registered, crashes>>

CancelDownloadsStep(th) ==
    /\ NextIs(th, "cancelDownloads")
    /\ pic' = [r \in Runs |->
                 IF TaskOf(r) \notin Head(todo[th]).tasks THEN pic[r]
                 ELSE [i \in PicNos |->
                         CASE pic[r][i] = "waiting" -> "failed"
                           [] pic[r][i] = "running" -> "late"
                           [] OTHER                 -> pic[r][i]]]
    /\ Then(th, << >>)
    /\ UNCHANGED <<table, diskVars, scan, model, callback, registered, crashes>>

(* Rows deleted, reset to the beginning, or all the finished ones reset.   *)
DeleteStep(th) ==
    /\ NextIs(th, "delete")
    /\ table' = Delete(table, Head(todo[th]).tasks)
    /\ Then(th, << >>)
    /\ UNCHANGED <<diskVars, runVars, callback, registered, crashes>>

ResetRowStep(th) ==
    /\ NextIs(th, "resetRow")
    /\ table' = Update(table, Head(todo[th]).task, NewRow)
    /\ Then(th, << >>)
    /\ UNCHANGED <<diskVars, runVars, callback, registered, crashes>>

ResetZeroStep(th) ==
    /\ NextIs(th, "resetZero")
    /\ table' = ResetToZero(table)
    /\ Then(th, << >>)
    /\ UNCHANGED <<diskVars, runVars, callback, registered, crashes>>

FoldersOf(S) == {Folder[t] : t \in S}

RemoveFoldersStep(th) ==
    /\ NextIs(th, "removeFolders")
    /\ LET gone == FoldersOf(Head(todo[th]).tasks)
       IN  /\ folders' = folders \ gone
           /\ disk' = [f \in Folders |-> IF f \in gone
                                         THEN [i \in PicNos |-> NoFile]
                                         ELSE disk[f]]
    /\ Then(th, << >>)
    /\ UNCHANGED <<table, runVars, callback, registered, crashes>>

(* tryToAddTaskWithSourceModel: nothing happens if the set has a row.      *)
TryToAddStep(th) ==
    /\ NextIs(th, "tryToAdd")
    /\ LET t == Head(todo[th]).task
       IN  \/ /\ Has(table, t)
              /\ Then(th, << >>)
              /\ UNCHANGED <<table, folders>>
           \/ /\ ~Has(table, t)
              /\ table' = Insert(table, t)
              /\ folders' = folders \cup {Folder[t]}
              /\ Then(th, <<Gate(FALSE)>>)
    /\ UNCHANGED <<disk, runVars, callback, registered, crashes>>

(* Notifications: handled by the scheduler on the thread that posts them,  *)
(* once prepareForAppLaunch has added its observers.                       *)
PostCompleteUnheard(th) ==
    /\ NextIs(th, "postComplete")
    /\ Then(th, << >>)
    /\ UNCHANGED <<table, diskVars, runVars, callback, registered, crashes>>

PostCompleteStep(th) ==
    /\ NextIs(th, "postComplete")
    /\ Then(th, IF registered THEN <<Gate(TRUE)>> ELSE << >>)
    /\ UNCHANGED <<table, diskVars, runVars, callback, registered, crashes>>

PostCancelStep(th) ==
    /\ NextIs(th, "postCancel")
    /\ Then(th, IF registered THEN CancelTasks(Head(todo[th]).tasks) ELSE << >>)
    /\ UNCHANGED <<table, diskVars, runVars, callback, registered, crashes>>

(* Finish or delete every unfinished task: the rows of each status are     *)
(* read, one query after the other, then handled from these copies.        *)
SnapshotStep(th) ==
    /\ NextIs(th, "snapshot")
    /\ LET i == Head(todo[th])
           W == i.seen \cup {[task |-> t, row |-> table[t]] :
                                t \in WithStatus(table, {i.status})}
       IN  \/ /\ i.status # FinishScane
              /\ Then(th, <<Snapshot(i.each, i.status + 1, W)>>)
           \/ /\ i.status = FinishScane
              /\ Then(th, <<Each(i.each, W)>>)
    /\ UNCHANGED <<table, diskVars, runVars, callback, registered, crashes>>

FinishEachStep(th) ==
    /\ NextIs(th, "finishEach")
    /\ LET W == Head(todo[th]).seen
       IN  \/ /\ W = {}
              /\ Then(th, << >>)
              /\ UNCHANGED table
           \/ \E w \in W :
                 /\ table' = Update(table, w.task, [w.row EXCEPT
                                                      !.status = FinishDownload])
                 /\ Then(th, <<PostComplete, Each("finishEach", W \ {w})>>)
    /\ UNCHANGED <<diskVars, runVars, callback, registered, crashes>>

(* A row whose source is gone is passed over.                              *)
DeleteEachStep(th) ==
    /\ NextIs(th, "deleteEach")
    /\ LET W == Head(todo[th]).seen
       IN  \/ W = {} /\ Then(th, << >>)
           \/ \E w \in W :
                 Then(th, <<DeleteRows({w.task}), RemoveFolders({w.task}),
                            PostCancel({w.task}), Each("deleteEach", W \ {w})>>)
           \/ /\ "source" \in Faults
              /\ \E w \in W : Then(th, <<Each("deleteEach", W \ {w})>>)
    /\ UNCHANGED <<table, diskVars, runVars, callback, registered, crashes>>

ThreadStep(th) ==
    \/ GateStep(th)         \/ QueryStep(th)       \/ AdmitStep(th)
    \/ MarkStep(th)         \/ EnqueueStep(th)     \/ ResetHalfStep(th)
    \/ RegisterStep(th)     \/ CancelScansStep(th) \/ CancelDownloadsStep(th)
    \/ DeleteStep(th)       \/ ResetRowStep(th)    \/ ResetZeroStep(th)
    \/ PostCompleteStep(th) \/ PostCancelStep(th) \/ SnapshotStep(th)
    \/ FinishEachStep(th)   \/ DeleteEachStep(th) \/ TryToAddStep(th)
    \/ RemoveFoldersStep(th)

-----------------------------------------------------------------------------
(* The delegate queue: the answers to page requests.                       *)

DelegateIsConcurrent == todo["deleg"] = << >>
DelegateIsFree == callback = Idle /\ todo["deleg"] = << >>
Delivering(step) == callback.at = step /\ todo["deleg"] = << >>

LastPageButOne(r) == scan[r].page + 1 >= Len(PicsUpTo[TaskOf(r)])

LastPage(r)  == scan[r].page = Len(PicsUpTo[TaskOf(r)])
PageEnd(r)   == PicsUpTo[TaskOf(r)][scan[r].page]

(* An answer arrives; the handler sees that the scan is not cancelled.     *)
PageAnswer(r) ==
    /\ DelegateIsFree
    /\ scan[r].phase = "scanning"
    /\ \/ callback' = At("page", r, 0, TRUE)
       \/ "page" \in Faults /\ callback' = At("endOfPage", r, 0, FALSE)
    /\ UNCHANGED <<table, diskVars, runVars, todo, registered, crashes>>

(* dealWithHtmlData: on to the pictures of the page, if it has any and     *)
(* downWithSource finds its folder.                                        *)
DealWithPage(r) ==
    /\ Delivering("page") /\ callback.run = r
    /\ \/ /\ scan[r].found < PageEnd(r)
          /\ callback' = At("offer", r, scan[r].found + 1, TRUE)
       \/ /\ scan[r].found = PageEnd(r) \/ "folder" \in Faults
          /\ callback' = At("endOfPage", r, 0, TRUE)
    /\ UNCHANGED <<table, diskVars, runVars, todo, registered, crashes>>

(* The loop of downWithSource goes on to the next picture of the page.     *)
OfferBeyondEnd(r, i) == IF i <= PageEnd(r) THEN At("offer", r, i + 1, TRUE)
                                           ELSE At("endOfPage", r, 0, TRUE)

AfterOffer(r, i) == IF i < PageEnd(r) THEN At("offer", r, i + 1, TRUE)
                                      ELSE At("endOfPage", r, 0, TRUE)

(* ... one picture: a file that exists counts at once, another one is      *)
(* queued for download.                                                    *)
OfferPicture(r) ==
    LET i == callback.pic
        f == FolderOf(r)
    IN  /\ Delivering("offer") /\ callback.run = r
        /\ folders' = folders \cup {f}
        /\ \/ /\ disk[f][i] # NoFile
              /\ pic' = [pic EXCEPT ![r][i] = "counted"]
              /\ model' = [model EXCEPT ![r].downloaded = @ + 1]
           \/ /\ disk[f][i] = NoFile
              /\ pic' = [pic EXCEPT ![r][i] = "waiting"]
              /\ UNCHANGED model
        /\ callback' = AfterOffer(r, i)
        /\ UNCHANGED <<table, disk, scan, todo, registered, crashes>>

(* The next page, unless there is none or this one failed.                 *)
NextPage(r) ==
    /\ Delivering("endOfPage") /\ callback.run = r
    /\ callback.ok /\ ~LastPage(r)
    /\ scan' = [scan EXCEPT ![r].page = @ + 1, ![r].found = PageEnd(r)]
    /\ callback' = Idle
    /\ UNCHANGED <<table, diskVars, model, pic, todo, registered, crashes>>

(* taskCompleteHandler, then finishOperation.                              *)
CompletedButOne(m) == m.total > 0 /\ m.downloaded + 1 >= m.total
Completed(m) == m.total > 0 /\ m.downloaded = m.total

AfterScanUnchecked(r, n) ==
    [model[r] EXCEPT !.total = n, !.status = FinishScane]

AfterScanStillScanning(r, n) == [model[r] EXCEPT !.total = n]

AfterScan(r, n) ==
    LET m == [model[r] EXCEPT !.total = n, !.status = FinishScane]
    IN  IF Completed(m) THEN [m EXCEPT !.status = FinishDownload] ELSE m

NothingNext == << >>
NextIsPrepared == <<Gate(FALSE)>>

CompleteScan(r) ==
    LET n == IF callback.ok THEN PageEnd(r) ELSE scan[r].found
    IN  /\ Delivering("endOfPage") /\ callback.run = r
        /\ callback.ok => LastPage(r)
        /\ model' = [model EXCEPT ![r] = AfterScan(r, n)]
        /\ table' = Update(table, TaskOf(r), AfterScan(r, n))
        /\ todo' = [todo EXCEPT !["deleg"] = NextIsPrepared]
        /\ callback' = At("finishScan", r, 0, TRUE)
        /\ UNCHANGED <<diskVars, scan, pic, registered, crashes>>

FinishScan(r) ==
    /\ Delivering("finishScan") /\ callback.run = r
    /\ scan' = [scan EXCEPT ![r].phase =
                   IF @ = "scanning" THEN "finished" ELSE @]
    /\ callback' = Idle
    /\ UNCHANGED <<table, diskVars, model, pic, todo, registered, crashes>>

(* A cancelled operation may be deallocated while its answer is handled:   *)
(* weakSelf is nil from then on and the rest of the handler does nothing.  *)
HandlerVanishes(r) ==
    /\ Delivering("page") \/ Delivering("endOfPage")
    /\ callback.run = r /\ scan[r].phase = "cancelled"
    /\ callback' = Idle
    /\ UNCHANGED <<table, diskVars, runVars, todo, registered, crashes>>

-----------------------------------------------------------------------------
(* The operation queues, and the answers to picture requests.              *)

Scanning == {r \in Runs : scan[r].phase = "scanning"}
Running  == {d \in Runs \X PicNos : pic[d[1]][d[2]] = "running"}

StartScan(r) ==
    /\ \/ /\ scan[r].phase = "queued"
          /\ Cardinality(Scanning) < ScanLimit
          /\ scan' = [scan EXCEPT ![r].phase = "scanning"]
       \/ /\ scan[r].phase = "withdrawn"
          /\ scan' = [scan EXCEPT ![r].phase = "cancelled"]
    /\ UNCHANGED <<table, diskVars, model, pic, todo, callback, registered,
                   crashes>>

StartDownload(r, i) ==
    /\ pic[r][i] = "waiting"
    /\ Cardinality(Running) < DownloadLimit
    /\ pic' = [pic EXCEPT ![r][i] = "running"]
    /\ UNCHANGED <<table, diskVars, scan, model, todo, callback, registered,
                   crashes>>

(* downloadFinishedBlock: the file is there already, or is moved there.    *)
PictureArrives(r, i) ==
    LET f == FolderOf(r)
    IN  /\ DelegateIsFree
        /\ pic[r][i] \in {"running", "late"}
        /\ f \in folders
        /\ disk' = [disk EXCEPT ![f][i] = IF @ = NoFile THEN TaskOf(r) ELSE @]
        /\ pic' = [pic EXCEPT ![r][i] = "saved"]
        /\ callback' = At("count", r, i, TRUE)
        /\ UNCHANGED <<table, folders, scan, model, todo, registered, crashes>>

(* downloadSuccessBlock: count it; the last one finishes the task.         *)
CountPicture(r) ==
    LET i == callback.pic
        m == [model[r] EXCEPT !.downloaded = @ + 1]
    IN  /\ Delivering("count") /\ callback.run = r
        /\ pic' = [pic EXCEPT ![r][i] = "counted"]
        /\ callback' = Idle
        /\ \/ /\ m.status = FinishScane /\ Completed(m)
              /\ model' = [model EXCEPT ![r] =
                              [m EXCEPT !.status = FinishDownload]]
              /\ table' = Update(table, TaskOf(r),
                                 [m EXCEPT !.status = FinishDownload])
              /\ todo' = [todo EXCEPT !["deleg"] = <<PostComplete>>]
           \/ /\ ~(m.status = FinishScane /\ Completed(m))
              /\ model' = [model EXCEPT ![r] = m]
              /\ UNCHANGED <<table, todo>>
        /\ UNCHANGED <<diskVars, scan, registered, crashes>>

(* The request or the move fails, or the answer was cancelled.             *)
PictureFails(r, i) ==
    /\ DelegateIsFree
    /\ \/ pic[r][i] = "running" /\ ("picture" \in Faults
                                    \/ FolderOf(r) \notin folders)
       \/ pic[r][i] = "late"
    /\ pic' = [pic EXCEPT ![r][i] = "failed"]
    /\ UNCHANGED <<table, diskVars, scan, model, todo, callback, registered,
                   crashes>>

(* The operation and the model object are freed with their last block.     *)
Release(r) ==
    /\ scan[r].phase \in {"cancelled", "finished"}
    /\ callback.run # r
    /\ \A i \in PicNos : pic[r][i] \notin Pending
    /\ scan' = [scan EXCEPT ![r] = FreeScan]
    /\ model' = [model EXCEPT ![r] =
                    [status |-> 1, total |-> 0, downloaded |-> 0]]
    /\ pic' = [pic EXCEPT ![r] = NoPics]
    /\ UNCHANGED <<table, diskVars, todo, callback, registered, crashes>>

RunStep(r) ==
    \/ PageAnswer(r)   \/ DealWithPage(r) \/ OfferPicture(r)  \/ NextPage(r)
    \/ CompleteScan(r) \/ FinishScan(r)   \/ HandlerVanishes(r)
    \/ StartScan(r)    \/ CountPicture(r) \/ Release(r)
    \/ \E i \in PicNos : \/ StartDownload(r, i)
                         \/ PictureArrives(r, i)
                         \/ PictureFails(r, i)

-----------------------------------------------------------------------------
(* The user, on the main thread.                                           *)

May(op) == op \in UserOps /\ todo["main"] = << >>

MainDoes(s) == todo' = [todo EXCEPT !["main"] = s]

(* tryToAddTaskWithSourceModel, for a set that has no row; for one that    *)
(* has, it changes nothing.                                                *)
AddTask(t) ==
    /\ May("add") /\ ~Has(table, t)
    /\ table' = Insert(table, t)
    /\ folders' = folders \cup {Folder[t]}
    /\ MainDoes(<<Gate(FALSE)>>)
    /\ UNCHANGED <<disk, runVars, callback, registered, crashes>>

(* Settings: stop all; stop and delete; finish all; restart all finished.  *)
CancelAll ==
    /\ May("cancelAll") /\ MainDoes(CancelAllTasks)
    /\ UNCHANGED <<table, diskVars, runVars, callback, registered, crashes>>

StopAndDelete ==
    /\ May("stopAndDelete")
    /\ MainDoes(CancelAllTasks \o <<Snapshot("deleteEach", Normal, {})>>)
    /\ UNCHANGED <<table, diskVars, runVars, callback, registered, crashes>>

FinishAll ==
    /\ May("finishAll")
    /\ MainDoes(CancelAllTasks \o <<Snapshot("finishEach", Normal, {})>>)
    /\ UNCHANGED <<table, diskVars, runVars, callback, registered, crashes>>

RestartAll ==
    /\ May("restartAll") /\ MainDoes(<<ResetZero>>)
    /\ UNCHANGED <<table, diskVars, runVars, callback, registered, crashes>>

(* The menu of a row of the task list.                                     *)
Redownload(t) ==
    /\ May("redownload") /\ Has(table, t)
    /\ MainDoes(CancelTasks({t}) \o <<ResetRow(t), Gate(FALSE)>>)
    /\ UNCHANGED <<table, diskVars, runVars, callback, registered, crashes>>

RedownloadForce(t) ==
    /\ May("redownloadForce") /\ Has(table, t)
    /\ \/ MainDoes(CancelTasks({t}) \o <<RemoveFolders({t}), ResetRow(t),
                                         Gate(FALSE)>>)
       \/ "source" \in Faults /\ MainDoes(CancelTasks({t}))
    /\ UNCHANGED <<table, diskVars, runVars, callback, registered, crashes>>

DeleteTask(t) ==
    /\ Has(table, t)
    /\ \/ May("delete") /\ MainDoes(CancelTasks({t}) \o <<DeleteRows({t})>>)
       \/ May("deleteFiles") /\ MainDoes(CancelTasks({t}) \o
                                  <<DeleteRows({t}), RemoveFolders({t})>>)
    /\ UNCHANGED <<table, diskVars, runVars, callback, registered, crashes>>

(* Settings: clear all data, with the files or without.                    *)
ClearAllData ==
    /\ \/ May("clearData") /\ MainDoes(<<DeleteRows(Tasks)>>)
       \/ /\ May("clearDataFiles")
          /\ MainDoes(<<DeleteRows(Tasks), RemoveFolders(Tasks)>>)
    /\ UNCHANGED <<table, diskVars, runVars, callback, registered, crashes>>

(* clearAllFiles, in the list of the files of a set, of the sets of a      *)
(* category, or of everything.  A category deletes its rows before it      *)
(* looks up what to cancel, so that it never finds anything.               *)
Shown(S) == \E t \in S : Folder[t] \in folders

ClearFolder(t) ==
    /\ May("clearFolder") /\ Shown({t})
    /\ MainDoes(<<DeleteRows({t}), PostCancel({t}), RemoveFolders({t})>>)
    /\ UNCHANGED <<table, diskVars, runVars, callback, registered, crashes>>

ClearCategory(S) ==
    /\ May("clearCategory") /\ Shown(S)
    /\ MainDoes(<<DeleteRows(S), PostCancel({}), RemoveFolders(S)>>)
    /\ UNCHANGED <<table, diskVars, runVars, callback, registered, crashes>>

ClearRoot ==
    /\ May("clearRoot")
    /\ MainDoes(CancelAllTasks \o <<DeleteRows(Tasks), RemoveFolders(Tasks)>>)
    /\ UNCHANGED <<table, diskVars, runVars, callback, registered, crashes>>

(* ... in edit mode, for a selected folder or for a selected picture of the *)
(* list: the files go, the row stays and nothing is cancelled.             *)
RemoveSelected(t) ==
    /\ May("removeSelected") /\ Shown({t})
    /\ \/ MainDoes(<<RemoveFolders({t})>>) /\ UNCHANGED disk
       \/ \E i \in PicNos :
             /\ disk[Folder[t]][i] # NoFile
             /\ disk' = [disk EXCEPT ![Folder[t]][i] = NoFile]
             /\ MainDoes(<< >>)
    /\ UNCHANGED <<table, folders, runVars, callback, registered, crashes>>

(* reDownloadContents: the rows with the title of the folder are deleted   *)
(* and the set is added again; nothing is cancelled.                       *)
Namesakes(t) == {u \in Tasks : Folder[u] = Folder[t]}

AddAgain(t) ==
    /\ Shown({t})
    /\ \/ /\ May("addAgain")
          /\ MainDoes(<<DeleteRows(Namesakes(t)), TryToAdd(t)>>)
       \/ /\ May("addAgainForce")
          /\ MainDoes(<<DeleteRows(Namesakes(t)), RemoveFolders({t}),
                        TryToAdd(t)>>)
    /\ UNCHANGED <<table, diskVars, runVars, callback, registered, crashes>>

UserStep ==
    \/ CancelAll \/ StopAndDelete \/ FinishAll \/ RestartAll
    \/ ClearAllData \/ ClearRoot
    \/ \E t \in Tasks : \/ AddTask(t)         \/ Redownload(t)
                        \/ RedownloadForce(t) \/ DeleteTask(t)
                        \/ ClearFolder(t)     \/ AddAgain(t)
                        \/ RemoveSelected(t)
    \/ \E S \in SUBSET Tasks : ClearCategory(S)

(* The app is killed and launched again: the table and the files stay.     *)
Crash ==
    /\ crashes < MaxCrashes
    /\ crashes' = crashes + 1
    /\ scan' = [r \in Runs |-> FreeScan]
    /\ model' = [r \in Runs |-> [status |-> 1, total |-> 0, downloaded |-> 0]]
    /\ pic' = [r \in Runs |-> NoPics]
    /\ todo' = [th \in Threads |->
                   IF th = "launch" THEN LaunchScript ELSE << >>]
    /\ callback' = Idle
    /\ registered' = FALSE
    /\ UNCHANGED <<table, diskVars>>

Next ==
    \/ \E th \in Threads : ThreadStep(th)
    \/ \E r \in Runs : RunStep(r)
    \/ UserStep
    \/ Crash

Spec == Init /\ [][Next]_vars

(* Every thread runs on, every operation queue starts what it may start,   *)
(* and every request is answered in the end (with an error at the latest   *)
(* when it times out).  The user and the crashes are under no obligation.  *)
Fairness ==
    /\ \A th \in Threads : WF_vars(ThreadStep(th))
    /\ \A r \in Runs : WF_vars(RunStep(r))

FairSpec == Spec /\ Fairness

-----------------------------------------------------------------------------
(* Correctness.                                                            *)

(* A set shown as finished has every picture it counts in its folder, and  *)
(* they are its own: whatever was scanned twice, cancelled, answered late, *)
(* counted because a file was there, or lost in a crash                    *)
(* (taskCompleteHandler, downloadSuccessBlock, resetHalfWorkingTasks).     *)
FinishedIsOnDisk ==
    \A t \in Tasks : table[t].status = FinishDownload =>
        \A i \in 1..table[t].total : disk[Folder[t]][i] = t

(* The test for the last picture is an equality, and it is made at two     *)
(* places: no scan may ever have all its pictures, or more, without the    *)
(* one or the other having seen it.                                        *)
LastPictureIsSeen ==
    \A r \in Runs : model[r].status = FinishScane /\ model[r].total > 0 =>
                        model[r].downloaded < model[r].total

(* A row that is missing stays missing, or is a new one.  Scans, downloads *)
(* and the loop that finishes all tasks write copies of rows they read     *)
(* long before; the rows may have been deleted since, with their files or  *)
(* without, and nothing of it need have been cancelled.                    *)
NoneComesBack(tbl, new) ==
    \A t \in Tasks : ~Has(tbl, t) => ~Has(new, t) \/ new[t] = NewRow

DeletedStaysDeleted == [][NoneComesBack(table, table')]_vars

(* parserWithSourceModel looks at operationCount and adds its operation    *)
(* later; each thread can be between the two once, so the queue may pass   *)
(* its limit by one less than the threads, and no more.                    *)
ScanBacklogIsBounded ==
    Cardinality(QueuedScans) < ScanLimit + Cardinality(Threads)

(* While nothing is cancelled, a row that says it is being scanned is:     *)
(* some operation works on it, or is about to be added, or the launch is   *)
(* about to reset the row.                                                 *)
StartedIsWorkedOn ==
    \A t \in Tasks : table[t].status = StartScane =>
        \/ \E r \in QueuedScans : TaskOf(r) = t
        \/ \E th \in Threads : todo[th] # << >>
              /\ \/ Head(todo[th]).op = "enqueue" /\ Head(todo[th]).task = t
                 \/ Head(todo[th]).op = "resetHalf"

(* A set without pictures is never finished, since no picture of it is     *)
(* ever counted: it stays in progress until the next launch.  More than    *)
(* BusyLimit of them close the search for the next task for good.          *)
IsEmpty(t) == PicsUpTo[t][Len(PicsUpTo[t])] = 0

EmptySetsBlock ==
    Cardinality({t \in Tasks : table[t].status = FinishScane /\ IsEmpty(t)})
        > BusyLimit

(* Every set that is added is scanned, or sets without pictures block the  *)
(* search: the task that finishes its scan looks for the next one while it *)
(* still counts as one of the ScanLimit operations, and nobody else will   *)
(* look again (prepareToDoNextTask, taskCompleteHandler).                  *)
EveryTaskIsScanned ==
    \A t \in Tasks : Has(table, t) ~>
        table[t].status \in {FinishScane, FinishDownload} \/ EmptySetsBlock

(* With no failure and no cancellation every set with pictures that is     *)
(* added is finished in the end, those too that found BusyLimit sets       *)
(* before them and have to be started by the notification of the last      *)
(* picture, unless sets without pictures block the search.                 *)
EveryTaskFinishes ==
    \A t \in Tasks : Has(table, t) /\ ~IsEmpty(t) ~>
        table[t].status = FinishDownload \/ EmptySetsBlock

-----------------------------------------------------------------------------
(* What the repository says of the pipeline and the code does not always   *)
(* keep.                                                                   *)

(* "As long as a set is not complete it is downloaded again": a finished   *)
(* set has all its pictures, whatever was cancelled or scanned twice.      *)
(* With the fault "page" it need not: a page that cannot be read ends the  *)
(* scan as the last page does.                                             *)
FinishedIsComplete ==
    \A t \in Tasks : table[t].status = FinishDownload =>
        table[t].total = PicsUpTo[t][Len(PicsUpTo[t])]

(* Deleting a task cancels it: the next task cancelDownloadsByIdentifiers  *)
(* looks for may be the very one whose row is deleted afterwards.          *)
DeletedIsNotScanned ==
    todo["main"] = << >> =>
        \A r \in Runs : scan[r].phase \in {"queued", "scanning"} =>
                           Has(table, TaskOf(r))

(* "0: not started yet": such a set has nothing running once the user      *)
(* operation is over.  A page answer that passed the isCancelled check     *)
(* queues its pictures after all downloads were cancelled.                 *)
NotStartedIsIdle ==
    todo["main"] = << >> /\ DelegateIsFree =>
        \A r \in Runs : \A i \in PicNos :
            pic[r][i] \in {"waiting", "running"} /\ Has(table, TaskOf(r)) =>
                table[TaskOf(r)].status # Normal

(* "Let it go on with the next task": a scan that completes starts the     *)
(* next one.  Not if more than BusyLimit sets without pictures are in      *)
(* progress: the search ends before it begins.                             *)
EveryTaskGetsItsTurn ==
    \A t \in Tasks : Has(table, t) ~>
                        table[t].status \in {FinishScane, FinishDownload}
=============================================================================
