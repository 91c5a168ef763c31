------------------------- MODULE PipelineInvariant --------------------------
(* The inductive invariant of DownloadPipeline, from which its type        *)
(* correctness and FinishedIsOnDisk are proved in DownloadPipelineProofs.  *)
EXTENDS DownloadPipeline

(* What an operation, a download and a callback refer to exists.           *)
ScansAreOfTasks ==
    \A r \in Runs : scan[r].phase # "free" =>
        /\ TaskOf(r) \in Tasks
        /\ scan[r].page \in DOMAIN PicsUpTo[TaskOf(r)]

PicsAreOfScans ==
    \A r \in Runs : scan[r].phase = "free" => pic[r] = NoPics

CallbackIsOfScan ==
    /\ callback.at # "idle" => /\ callback.run \in Runs
                               /\ scan[callback.run].phase # "free"
    /\ callback.at \in {"offer", "count"} => callback.pic \in PicNos
    /\ callback.at = "offer" => callback.pic <= PageEnd(callback.run)

Shape == ScansAreOfTasks /\ PicsAreOfScans /\ CallbackIsOfScan

TypeInv == TypeOK /\ Shape

-----------------------------------------------------------------------------
(* What FinishedIsOnDisk needs of the constants: no two sets share a       *)
(* folder, and the user does not remove files or declare sets finished.    *)
KeepsFiles ==
    /\ \A t, u \in Tasks : Folder[t] = Folder[u] => t = u
    /\ UserOps \cap {"redownloadForce", "deleteFiles", "stopAndDelete",
                     "finishAll", "clearFolder", "clearCategory", "clearRoot",
                     "clearDataFiles", "removeSelected",
                     "addAgainForce"} = {}

Counted(r) == {i \in PicNos : pic[r][i] = "counted"}
Offered(r) == {i \in PicNos : pic[r][i] # "none"}

(* The scripts that occur then; a task is always taken with a count of 0.  *)
KeepingInstr ==
    {i \in Instr : /\ i.op \notin {"removeFolders", "snapshot", "finishEach",
                                   "deleteEach"}
                   /\ i.op \in {"admit", "mark", "enqueue"} => i.downloaded = 0}

ScriptsKeepFiles == todo \in [Threads -> Seq(KeepingInstr)]

WaitingCountsZero ==
    \A t \in Tasks : table[t].status = Normal => table[t].downloaded = 0

(* A folder holds the pictures of its own set only.                        *)
FoldersAreOwn ==
    \A t \in Tasks, i \in PicNos : disk[Folder[t]][i] \in {t, NoFile}

(* The model counts the pictures its own scan counted, and they are there. *)
CountIsExact ==
    \A r \in Runs : model[r].downloaded = Cardinality(Counted(r))

CountedIsOnDisk ==
    \A r \in Runs : \A i \in PicNos :
        pic[r][i] \in {"saved", "counted"} => disk[FolderOf(r)][i] = TaskOf(r)

CallbackCounts ==
    callback.at = "count" => pic[callback.run][callback.pic] = "saved"

(* The pictures offered so far are numbered up to what the scan has found, *)
(* on the page it is reading, or in all once it is complete.  An answer is *)
(* delivered to a scan that began.                                         *)
Reading == {"page", "offer", "endOfPage"}

BeingRead(r) == callback.run = r /\ callback.at \in Reading \cup {"finishScan"}

ReadIsBegun ==
    \A r \in Runs : BeingRead(r) => scan[r].phase \in {"scanning", "cancelled"}

FoundIsOnPage ==
    \A r \in Runs : scan[r].phase # "free" => scan[r].found <= PageEnd(r)

OfferedBetweenPages ==
    \A r \in Runs : InQueue(r) /\ ~BeingRead(r) =>
        /\ model[r].status = StartScane
        /\ \A i \in Offered(r) : i <= scan[r].found

OfferedOnPage ==
    \A r \in Runs : callback.run = r /\ callback.at \in Reading =>
        /\ model[r].status = StartScane
        /\ \A i \in Offered(r) :
              /\ callback.at = "offer" => i < callback.pic
              /\ callback.at = "endOfPage" /\ callback.ok => i <= PageEnd(r)
              /\ callback.at = "page" \/ ~callback.ok => i <= scan[r].found

OfferedInAll ==
    \A r \in Runs : model[r].status # StartScane =>
        \A i \in Offered(r) : i <= model[r].total

OfferedIsFound ==
    /\ ReadIsBegun /\ FoundIsOnPage
    /\ OfferedBetweenPages /\ OfferedOnPage /\ OfferedInAll

(* A row that is finished, or that resetHalfWorkingTasks would finish, has *)
(* all its pictures.                                                       *)
AllOnDisk(t) == \A i \in 1..table[t].total : disk[Folder[t]][i] = t

RowsAreTrue ==
    \A t \in Tasks : table[t].status = FinishDownload \/ CountsMatch(table[t])
                        => AllOnDisk(t)

DataInv ==
    /\ ScriptsKeepFiles /\ WaitingCountsZero
    /\ FoldersAreOwn /\ CountIsExact /\ CountedIsOnDisk /\ CallbackCounts
    /\ OfferedIsFound /\ RowsAreTrue

(* The pictures of a set are in its folder and in the model's count exactly *)
(* when the code believes so, at every step of every thread.               *)
PipelineInv == TypeInv /\ DataInv

-----------------------------------------------------------------------------
(* What ScanBacklogIsBounded needs: a thread that saw room in the queue    *)
(* and has not added its operation yet counts as one, and it has only the  *)
(* one operation to add.                                                   *)
Admitting == {"mark", "enqueue"}

Admitted == {th \in Threads : todo[th] # << >> /\ Head(todo[th]).op \in Admitting}

LaterInstr == {i \in Instr : i.op \notin Admitting}

AdmittedIsFirst ==
    \A th \in Threads : todo[th] # << >> => Tail(todo[th]) \in Seq(LaterInstr)

RoomIsLeft ==
    Cardinality(QueuedScans) + Cardinality(Admitted)
        < ScanLimit + Cardinality(Threads)

BacklogInv == AdmittedIsFirst /\ RoomIsLeft

-----------------------------------------------------------------------------
(* What FinishedIsComplete needs: every page can be read, and the user     *)
(* does not declare sets finished.                                         *)
ScansAreWhole == "page" \notin Faults /\ "finishAll" \notin UserOps

DeclaresFinished(i) == \/ i.op = "finishEach"
                       \/ i.op = "snapshot" /\ i.each = "finishEach"

ScanningInstr == {i \in Instr : ~DeclaresFinished(i)}

WholeSet(t) == PicsUpTo[t][Len(PicsUpTo[t])]

PagesAreRead == callback.at # "idle" => callback.ok

ModelsAreWhole ==
    \A r \in Runs : model[r].status # StartScane =>
                       model[r].total = WholeSet(TaskOf(r))

RowsAreWhole ==
    \A t \in Tasks : table[t].status = FinishDownload \/ CountsMatch(table[t])
                        => table[t].total = WholeSet(t)

WholeInv == /\ todo \in [Threads -> Seq(ScanningInstr)]
            /\ PagesAreRead /\ ModelsAreWhole /\ RowsAreWhole

-----------------------------------------------------------------------------
(* What StartedIsWorkedOn needs: the user cancels nothing.  A scan that    *)
(* works on a row has not written it as scanned yet.                       *)
NothingIsCancelled ==
    UserOps \subseteq {"add", "restartAll", "clearData", "clearDataFiles",
                       "removeSelected", "addAgain", "addAgainForce"}

WorkingInstr ==
    {i \in Instr : i.op \notin {"cancelScans", "cancelDownloads", "postCancel",
                                "resetRow", "snapshot", "finishEach",
                                "deleteEach"}}

NoneWithdrawn ==
    \A r \in Runs : scan[r].phase \notin {"withdrawn", "cancelled"}

WorksOn(r, t) == /\ InQueue(r) /\ TaskOf(r) = t
                 /\ ~(callback.run = r /\ callback.at = "finishScan")

WillAdd(t) == \E th \in Threads : NextIs(th, "enqueue") /\ Head(todo[th]).task = t

WillReset == \E th \in Threads : NextIs(th, "resetHalf")

StartedHaveWork ==
    \A t \in Tasks : table[t].status = StartScane =>
        \/ \E r \in Runs : WorksOn(r, t)
        \/ WillAdd(t)
        \/ WillReset

WorkInv == /\ todo \in [Threads -> Seq(WorkingInstr)]
           /\ NoneWithdrawn /\ StartedHaveWork

-----------------------------------------------------------------------------
(* The library the pipeline implements: what a row says, and the pictures  *)
(* in the folder of its set.                                               *)
Says(status) == CASE status = Absent         -> "absent"
                  [] status = Normal         -> "waiting"
                  [] status = FinishDownload -> "finished"
                  [] OTHER                   -> "working"

Library == INSTANCE TaskLibrary WITH
    Pics  <- PicNos,
    None  <- NoFile,
    list  <- [t \in Tasks |-> Says(table[t].status)],
    goal  <- [t \in Tasks |-> IF table[t].status = FinishDownload
                              THEN table[t].total ELSE 0],
    shelf <- [t \in Tasks |-> disk[Folder[t]]]

(* Every step keeps what the library promises: no late answer brings back  *)
(* a row that was deleted, none marks a set as finished before its files   *)
(* are there, and none touches a file that is.                             *)
KeepsLibrary == Library!Spec
=============================================================================
