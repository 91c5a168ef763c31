# A TLA+ model of PicData's download pipeline and device link

PicData (an Objective-C app for iOS and Mac Catalyst, `src/PicData`) collects
picture sets from web pages: a set is a sequence of pages, each with some
pictures, and the app downloads all of them into a folder of the set. Two
devices that run it can be linked: one serves its folders, the other asks for
lists and files. This directory holds models of both parts, the checks of them
on small instances (TLC) and proofs about them for every instance (TLAPS).

Paths below are relative to `src/PicData/PicData` unless they begin with `Pods`
(`src/PicData/Pods`) or `src`. The pod of the device link is `Pods/PPSocket`.

## 1. Inventory

### Components

| component | code | state | operations |
|---|---|---|---|
| task table | `Modules/Models/PicContentModel.mm` | one row per set: status 0 waiting, 1 being scanned, 2 scanned, 3 finished; total and downloaded counts | insert, update (all columns), update the status, delete (one, some, by title, by category, all), reset unfinished rows, reset finished rows, next waiting row, number in progress |
| scheduler | `Manager/Parser/ContentParserManager.m` | the scan queue (at most 4 at a time), its observers | add a task, look for the next task, admit and start it, complete a scan, cancel some, cancel all, launch |
| page scans | `Manager/Parser/ParseOperation/ParseOperation.m` | page and picture counters, the request in flight, the task model its blocks share | request a page, handle its answer, go on or complete, cancel, finish |
| download manager | `Manager/Download/PDDownloadManager.m` | the download queue (6..12, 20 on a Mac), folders and files | queue the pictures of a page, store and count a picture, cancel some or all, clear everything, download path |
| downloads | `Manager/Download/DownloadOperation/PPDownloadTaskOperation.m` | one request | request, answer, cancel, finish |
| operation base | `Pods/PPCustomAsyncOperation` | hasStart, executing, finished | start, main, cancel, finishOperation |
| launch | `AppDelegate.m` | | runs the launch of the scheduler on a global queue |
| task list, settings | `Modules/Tasks/TasksViewController.m`, `Modules/Setting/SettingViewController.m` | lists of model objects | download again (with or without the files), delete, stop all, stop and delete, finish all, restart all, clear all data |
| file list | `Modules/Viewer/LocalFileListVC.m` | listed files | clear a set, a category or everything, download a set again, archive, favourites |
| requests | `Manager/PDRequest.m` | | every page request goes through the shared session, as the downloads do |
| parsers | `Manager/Parser/*Parser.m` | none | HTML to picture URLs and the next page |
| link: sending | `PPSocketBaseManager.swift`, `PPSocketSendMessageTask.swift` | `sendMessageQueue`, one operation at a time; `currentSendMessageTask`, without a lock | send data, send a file, send the next packet when one was written, cancel one message or all |
| link: framing | `PPClientSocketManager.swift`, `PPServerSocketManager.swift` | a receive buffer per connection | add what was read, take whole packets, connect, disconnect |
| link: requests | the same, and `PPSocketReceiveMessageTask.swift` | receive tasks by message key, with completion blocks and timers | ask for a file or a list, answer, receive a part, complete, cancel, answer a cancel, send a client away, time out, lose the connection |
| other views, gesture lock, HTML library, tools, Flutter app | see `PROJECT.json` | view state | |

### How they interact

The user adds a set; a row with status 0 is inserted and the scheduler looks for
the next task. It takes the waiting row with the least href unless more than
four are in progress, and unless the scan queue is full; it writes status 1,
adds a `ParseOperation` and looks again. The scan requests page after page. The
answer to a request is delivered on the *delegate queue* of the shared session,
which is serial: the whole handler, the queueing of downloads included, runs
there. The completion of the last page writes total and status 2 and looks for
the next task. The answers of downloads come on the same queue: they move the
file and count it in the model object; the last one writes status 3 and posts a
notification, on which the scheduler looks for the next task *by force*, that
is without the test of how many are in progress.

Meanwhile the main thread runs user operations, and a third thread the launch.
Nothing locks them against the delegate queue: they share the rows, the queues
and the files, and a handler is a sequence of separate reads and writes of
these. The rows and the files survive when the app is killed; the operations,
the model objects and the observers do not.

The device link is a part of its own. A message is an operation of
`sendMessageQueue`. Its block makes a send task, puts it where every callback
finds it and sends the first packet; each time the socket reports a packet
written the main thread sends the next one of *the current task*, and the last
one finishes the operation. The receiver collects the stream in a buffer, cuts
packets off its front and adds each to the receive task of its key; the last
packet calls the completion block. A client that cancels drops its receive task
and tells the server, which drops the send task if it is the current one and
answers.

### What is hard here

All of it is listed in `PROJECT.json` under `hazards`, at the line where it
bites. In short, for the pipeline: the same row taken twice, because the query
of the next task and the write of its status are separate; two scans of one set
alive at once, after a cancel, a restart or a deletion that cancels nothing,
with model objects of their own; answers that come after the cancel; the queue
length read before the operation is added; user operations that look for the
next task before they write their row; the last picture recognised by an
equality of two counters, in two different handlers; the next task looked for by
nobody; a kill between any two writes; the unlocked `start` of an operation. For
the link: the current task shared without a lock; a write reported for a message
that is over; messages that wait behind one that never finishes; TCP cutting the
stream anywhere; packets of a cancelled answer that still arrive; each side
learning of a lost connection at a time of its own.

What makes each component correct:

- task table: a row that says finished is true of the files;
- scheduler: a row that says it is being scanned is; a set that is added is
  scanned; the queue does not grow past its bound;
- scans and downloads: a scan never passes its last picture without finishing
  the set; what it counted is there; nothing brings a deleted row back;
- operation base: a place in the queue is held until the answer came, and given
  back after it;
- sending: the packets of one message after the other, none left out, twice or
  of another; no message waits for ever;
- framing: whole packets, in order, each once, however the stream is cut;
- requests: a completion block gets the whole file or is not called; never after
  a cancel; nobody waits for an answer that is not to come.

## 2. Modules

| module | models | extends |
|---|---|---|
| `TaskTable` | the statements sent to the task table, as functions from table to table | |
| `DownloadPipeline` | scheduler, scans, downloads, user operations, launch and kill | `TaskTable` |
| `TaskLibrary` | abstract: what the pipeline promises of the list of sets and of their files | |
| `PipelineInvariant` | the inductive invariants of the proofs; the refinement mapping to `TaskLibrary` | `DownloadPipeline` |
| `AsyncOperation` | the life of one kind of operation, statement by statement | |
| `SendQueue` | the sending half of the link, statement by statement | |
| `MessageStream` | abstract: what the sending half promises of each connection | |
| `PacketReader` | the framing: buffers and read loops of client and server | |
| `PacketChannel` | abstract: whole packets, in order | |
| `DeviceLink` | client and server: requests, answers, cancelling, time-outs, loss of the connection | |
| `FileTransfer` | abstract: what the link promises the app that asks for files | |
| `DeviceLinkInvariant` | the inductive invariant of its proofs; the refinement mapping to `FileTransfer` | `DeviceLink` |
| `MCPipeline`, `MCAsync`, `MCSendQueue`, `MCPacketReader`, `MCDeviceLink` | constants for TLC, and initial states of a running and of a resumed app | |
| `DownloadPipelineProofs` | type correctness; the bound of the scan queue | `PipelineInvariant` |
| `PipelineFilesProofs` | finished sets are on disk; the last picture is seen | `DownloadPipelineProofs` |
| `PipelineLibraryProofs` | the pipeline implements `TaskLibrary` | `PipelineFilesProofs` |
| `PipelineScanProofs` | finished sets are complete; sets being scanned are worked on | `DownloadPipelineProofs` |
| `AsyncOperationProofs` | types; an operation keeps its place | `AsyncOperation` |
| `SendQueueProofs` | the queue is never stuck; the sending half implements `MessageStream` | `SendQueue` |
| `PacketReaderProofs` | packets stay whole; the reader implements `PacketChannel` | `PacketReader` |
| `DeviceLinkProofs` | the safety of the link; who waits, waits for something; the link implements `FileTransfer` | `DeviceLinkInvariant` |

The four abstract specifications are instantiated with refinement mappings:
`TaskLibrary` in `PipelineInvariant` (`KeepsLibrary`), `MessageStream` in
`SendQueue` (`StreamInOrder`), `PacketChannel` in `PacketReader`
(`ReadsWholePackets`), `FileTransfer` in `DeviceLinkInvariant`
(`DeliversFiles`).

How the three models of the link relate: `DeviceLink` takes from `PacketReader`
that packets arrive whole and in order, as they do to a client. It does *not*
take from `SendQueue` that a block is atomic, because it is not: a block runs on
a thread of its own, without a lock, and `didWrite` may come between any two of
its statements (`SendRace`). `SendQueue` has that race statement by statement,
`DeviceLink` as two actions of its own; what either promises, it promises until
the race has happened.

### DownloadPipeline

| variable | in the code |
|---|---|
| `table` | the rows of `PicContentTaskModel` |
| `folders`, `disk` | the folders of the sets; `disk[f][i]` is the set whose picture is `i.jpg` of `f` |
| `scan[r]` | the r-th `ParseOperation` alive: its phase, set, `pageCount`, `picCount` |
| `model[r]` | the `PicContentTaskModel` its blocks share |
| `pic[r][i]` | the download of picture i for scan r |
| `todo[th]` | what thread th has still to execute of the handler it is in |
| `callback` | where the delegate queue is in the answer it delivers |
| `registered` | the observers have been added |
| `crashes` | kills so far |

A handler that runs on a thread is a *script*: the sequence of its accesses to
shared state, in the order of the code (`CancelTasks`, `LaunchScript`, the
actions of the user). One step executes the instruction at the head and may put
others in its place, as a call does; between two instructions every other
thread may run. So `prepareToDoNextTask` is `gate` (the test of the number in
progress), `query`, `admit` (the folder and the test of the queue), `mark`
(status 1) and `enqueue`, which ends by looking again. A user operation begins
when the main thread has nothing to do. The operations differ in the order of
the same instructions, and that is what they are modelled for: the task list
cancels before it deletes, the file list deletes before it cancels, clearing all
data and downloading a folder again cancel nothing.

Answers are delivered one at a time. A page answer goes through `page`, `offer`
(once per picture), `endOfPage` and `finishScan`; a picture's through
`PictureArrives` and `CountPicture`; the script a handler calls runs on thread
`deleg` before it goes on. A cancelled operation may be freed while its answer
is handled, because the block holds it weakly; then the rest of the handler does
nothing (`HandlerVanishes`). A download cancelled in flight becomes `late`: its
answer may have been queued already, with a file or with an error.

Abstractions, all of them towards more behaviour or without effect on the
shared state:

- a page is the number of pictures up to its end (`PicsUpTo`): what the parsers
  return. A page that fails or cannot be found is the fault `page`; the other
  faults are a download folder that cannot be found, a source that is missing,
  `urlList.txt` that cannot be removed, and a picture that fails;
- rows are ordered by href as numbers; titles, times and thumbnails are left
  out;
- the statements of `resetHalfWorkingTasks` are one step: nobody can leave a
  row with matching counts and a status other than 3 between the two;
- a model object starts with the counts its row had when it was queried; the
  total is overwritten before it is read, so it starts at 0;
- the order of the rows in *finish all* and *stop and delete* is left open;
- a category is any set of sets.

### AsyncOperation

`DownloadPipeline` treats `start`, `main` and `cancel` of an operation as
atomic. `AsyncOperation` does not: the assignments of `start`, the test in
`main`, the request, its answer and the tests of `cancel` (two in
`ParseOperation`, one in the base class) interleave. It shows what of the
atomicity holds without cancellation (an operation that started ends, and not
before its answer), and where it does not hold (a cancel inside `start`).

### SendQueue

| variable | in the code |
|---|---|
| `op[m]`, `queue`, `isCancelled` | the operation of message m in `sendMessageQueue` |
| `pc[m]` | where its block is: making the task, its kind, its data, its key, the first packet |
| `current`, `task[m]` | `currentSendMessageTask`, and the task made for m, field by field |
| `act[a]` | where actor a (a block or the main thread) is in `sendBodyMessage` |
| `pend[s]`, `link[s]` | packets of socket s written and not yet reported; the connection |
| `wire[s]`, `begun`, `withdrawn` | history: what was written, begun, cancelled |
| `disturbed` | history: the messages whose block the main thread disturbed |

A block goes on one statement at a time, and the main thread may take an event
between any two of them: `detachNewThread` gives the block a thread of its own
(`PPCustomAsyncOperation.m:32`) and nothing orders it after the callbacks. A
message is *disturbed* when a write is reported while its task is in
`currentSendMessageTask` half made, when its block goes on while the main thread
is inside `sendBodyMessage`, or when its block is due and messages are cancelled
or the connection is noticed as lost. The report of the last packet of a message
disturbs the next one whenever it comes late by a few statements, as
`finishedAllTask` ends a message before that report. Timers that measure the
speed are left out.

### PacketReader

A byte is the pair of its packet and its place. The prefix is two bytes, the
second of which carries the length; a byte that is no length is read as any
value of `Misread`. Client and server differ as the code does: the client keeps
its buffer when `didRead` returns and when the connection is lost; the server
works on a copy that is gone at the end of `didRead`, and guards against a
length of zero.

### DeviceLink

| variable | in the code |
|---|---|
| `asked`, `clientQueue` | the requests made; the client's `sendMessageQueue` |
| `waiting[r]`, `cancelWait[r]` | the receive tasks for the answer to r, and to its cancelling |
| `completed`, `cancelled`, `answered` | what the completion block was given; what was cancelled, and answered |
| `toServer`, `toClient`, `conn`, `live`, `clientSide`, `unnoticed` | what is on the way; the connection as it is and as each side knows it |
| `serverQueue`, `running`, `current`, `written` | the server's operations, the executing one, `currentSendMessageTask`, writes to be reported |
| `disturbed` | history: a report came into a block |

A block is one action (`Transmit`, `StartOperation`), and there is a second
action for the same block with reports of the message before inside it
(`TransmitDisturbed`, `StartDisturbed`). The task may then be ended before it
has its data, so that its operation executes for ever; its first packets may go
out under a random key, which the other side does not know, and the rest under
the right one; or all of them are sent so. A client frees itself of an operation
that executes for ever by cancelling its request (`CancelStuck`) or by losing
the connection, a server by either of these. Left out of these two actions, and
present in `SendQueue`: two threads inside `sendBodyMessage` at once, and a
cancelling or a loss inside a block. A packet under a random key makes a receive
task of its own that no completion block belongs to; it is left out.

Abstractions: what a client sends fits one packet; a client has one connection
at a time, and there is one client; the message that tells the server the name
of the device gets no answer, and its receive task is left out; a list of files
is an answer of one packet, a file one of `Packets[r]`; the progress and the
speed of a transfer are left out, and so is what a completion block does with a
file. A file that is missing has no packets; the instances ask for files that
exist.

### Operators that nothing uses

Beside some definitions stands one that differs from it in one point and is used
nowhere (`HasRoomForOneMore` beside `HasRoom`, `KeptAfterCancel` beside
`AfterCancel`): a mistake the code might have made. Put in place of the
definition it must violate the property `PROJECT.json` names under `mutants`.
This is how we know that a property says something about the code.

## 3. What the runs check

All runs set `CHECK_DEADLOCK FALSE`: an app with nothing to do stops.

| run | question | instance | states |
|---|---|---|---|
| `Core` | `FinishedIsOnDisk`, `FinishedIsComplete`, `LastPictureIsSeen`, `StartedIsWorkedOn`, types, with a kill anywhere, the launch racing the user, and every failure but that of a page | 1 set of 2 pages of 1 picture; 2 scans alive at once, 1 kill | 1,827,597 |
| `Cancel` | `PipelineInv` and the refinement `KeepsLibrary` under cancel all, download again (from either list), delete, restart all, clear all data | 1 set of 2 pages of 1 picture; 2 scans alive at once | 2,408,562 |
| `Backlog` | `ScanBacklogIsBounded` with three threads looking for tasks | 1 set left from an earlier session and added again, 5 scans | 802,746 |
| `Files` | `DeletedStaysDeleted`: no late write brings a deleted row back, whichever operation removes files, deletes rows or declares sets finished | 1 set of 1 picture, pages may fail, sources may be missing | 2,428,735 |
| `Live` | `EveryTaskFinishes`: the notification of a finished set restarts the search; `EveryTaskIsScanned`: a scan that completes makes room for the next; both unless sets without pictures have closed the gate | 4 sets, two of them without pictures, room for 2 scans, more than one is too many in progress | 48,237 |
| `Async` | `PlaceIsHeldUntilAnswer`, `StartedEndsOrIsCancelled`, types | 2 operations that may be cancelled | 4,624 |
| `Send` | `QueueFollows`, `EveryOperationEnds`, the refinement `StreamInOrder`, types, until a block is disturbed | 4 messages of 1 to 3 packets, one of them a file, one the answer to a cancel; one loss of the connection | 79,012 |
| `Stream` | `NothingIsMixedUp`, `BufferIsOnePartialPacket`, the refinement `ReadsWholePackets`, `ReadReturns`, `EveryPacketArrives`, types | 4 packets, cut anywhere for the client; 2 losses between packets | 1,250 |
| `Link` | `CompletedIsWhole`, `AnsweredCancelLeavesNothing`, `WaitsForSomething`, `CancelIsFinal`, the refinement `DeliversFiles`, `EveryReceiveTaskEnds`, types; all but `CancelIsFinal` and the types until a block is disturbed | 2 files of 3 and 2 packets, 2 connections, cancels, time-outs, a client sent away | 319,791 |

Three runs state what a comment of the repository promises and the code does not
do; TLC finds the counterexample (`findings` in `PROJECT.json`):

- `DeletedScan`: deleting a waiting task may start it (`PicContentModel.mm:187`:
  "cancel an added task");
- `StreamServer`: a packet the server receives in two reads is lost, and what
  follows is misread (`PPServerSocketManager.swift:44`: "what is read need not
  be complete, its integrity must be seen to here");
- `SendRace`: two messages follow one another, the report of the last packet of
  the first comes into the block of the second and ends its task before it has
  its data; its operation executes for ever and every later message waits behind
  it (`PPSocketBaseManager.swift:155`: "tasks follow automatically").

Further configurations show where a property ends; each has a counterexample,
and none is part of the project's runs:

- `PartialScan` (`FinishedIsComplete` with the fault `page`): a page that fails
  ends the scan, and the set is finished without the pages from there on;
- `CancelAllLate` (`NotStartedIsIdle`): after everything was cancelled and the
  rows were reset to "not started yet" a handler still queues downloads;
- `AsyncCancel` (`CancelledNeverBegins`): an operation cancelled inside `start`
  is marked as executing, and keeps its place in the queue for good;
- `LinkRace` (`CompletedIsAlwaysWhole`): a report that comes into the block of
  the next answer sends its first packet under a random key; the client completes
  the file without its first part;
- `LiveBlocked` (`EveryTaskGetsItsTurn`): with one more set without pictures in
  progress than `BusyLimit` the next set added is never started, without any
  failure or cancel;
- `SendTwoClients` (`RightSocket`): with two clients the server sends packets of
  the one to the other;
- `StreamReconnect` (`NothingIsMixedUp`): the client keeps half a packet over a
  lost connection and puts it before the first packet of the next;
- `LinkTimeout` (`LateTaskIsCancelled`): the receive task whose time ran out is
  not cancelled, as the comment at `PPSocketReceiveMessageTask.swift:71` says;
- `LinkLateLoss` (`WaitsForSomething`): a client back before the server learned
  of the loss has its new requests cancelled, and waits for ever.

Bounds. Two pages are enough for a cancel, a kill or a download's answer to come
between pages, and for a picture to be the last of its page and not of the set.
One set is enough for two scans of it to overlap, which is what the counts, the
rows and the files of `Core`, `Cancel` and `Files` depend on; sets that compete
for the scheduler are in `Live`, with four of them: one waits because the scan
queue is full, and two without pictures, with `BusyLimit` 1, are just enough to
close the gate. `MaxRuns` bounds the scans whose objects are alive at once, not
how many there are in a behaviour; it lets two scans of one set overlap, and in
`Backlog` the queue pass its limit. In `Live` a scan is freed with its last
block, before anything else happens (`FreedAtOnce`): the one that a late block
keeps alive takes no part in anything; four are then enough for no scan to wait
for a free number (a fifth changes no state). `ScanLimit`, `BusyLimit` and
`DownloadLimit` stand for 4, 4 and 6..20; the small values let their limits be
reached. The failure of a page is left out of `Core`, as `FinishedIsComplete`
demands, and struck in `Files`. The instances of the pipeline are kept so small
that each run ends in about a minute; nothing rests on that, since section 4
proves their safety properties for every size. In `Core` nothing is cancelled,
as `StartedIsWorkedOn` demands: a cancelled scan leaves its row as it is.
`Cancel` and `Files` divide the user operations by `KeepsFiles` (below).

`Send` explores no successor of a state with a disturbed block
(`UntilDisturbed`), as its properties promise nothing there; what comes of such a
block is the subject of `SendRace`. `Link` follows a disturbed block to the end of
the first connection and until the client is back on another
(`FirstWhenDisturbed`), so that `CancelIsFinal` is checked on what the race leads
to. A message of three packets has a first, a middle and a last
one; a second message behind it and a third that answers its cancelling are what
a late write can hit. Chunks of one to five bytes cut packets of three to five
inside the prefix, inside the body and over the end of a packet; two losses let
a connection begin with what a loss left. One more connection than the first
(`MaxBreaks`) lets a request be made on one and its answer be lost with it; a
request is made once, because a key is used once.

Fairness of the pipeline. `WF` of every thread: GCD queues and the main thread
run what they are given. `WF` of every operation: `NSOperationQueue` starts what
it has room for, `NSURLSession` answers every request, at the latest with a
time-out, and delivers the answers. No fairness of the user, of a kill, or of a
failure. Weak fairness is enough: the delegate queue delivers one answer after
the other and an answer stays until it is delivered.

Fairness of the link. `WF` of the queues, of the threads their blocks run on, of
the arrival of what the connection holds, and of the callbacks: a socket that is
up reports what it wrote, one that is closed that it is closed. No fairness of
the app, of `cancelRequest`, of a timer, of a loss or of a new connection.

## 4. What is proved

`tlapm` checks every step of the eight proof modules. All the constants are
arbitrary: any finite set of tasks, pages and pictures, any limits, any number
of scans and kills, any requests and packets, under the assumptions
`TasksAssumption`, `PipelineAssumption` (page ends grow, folders are known,
limits are positive, the scan queue takes at least two), `OperationAssumption`,
`SendAssumption`, `ReaderAssumption` (a prefix is shorter than a packet) and
`LinkAssumption`. Every safety property, action property and refinement that a
passing run checks is stated by one of the theorems below.

The pipeline, with all user operations and all failures:

- `TypeCorrect`: `Spec => [](TypeOK /\ Shape)`. `Shape` says that a callback
  refers to an operation that is alive, that a free operation has no downloads,
  and that a scan is on a page its set has; without it the type of
  `PicsUpTo[..][page]`, hence of the counts, is not inductive.
- `DeletedSetsStayDeleted`: `Spec => DeletedStaysDeleted`. A row that is gone comes
  back only as a new one the user adds: every late write is an `UPDATE`, which
  finds nothing.
- `BacklogStaysBounded`: `Spec => []ScanBacklogIsBounded`. The invariant counts
  the scans in the queue together with the threads between the test and the
  addition (`RoomIsLeft`): a thread that passes the test saw fewer than
  `ScanLimit` scans, and the others that passed are other threads.

The pipeline, where the user operations keep the files:

- `PipelineIsSound`: `KeepsFiles => (Spec => []PipelineInv)`;
- `FinishedSetsAreOnDisk`: `KeepsFiles => (Spec => []FinishedIsOnDisk)`;
- `LastPictureIsNeverMissed`: `KeepsFiles => (Spec => []LastPictureIsSeen)`;
- `PipelineImplementsLibrary`: `KeepsFiles => (Spec => KeepsLibrary)`.

`KeepsFiles` is what these need: no two sets share a folder, and the user does
not remove files or declare sets finished (with either, a row may say finished
while its files are gone, as the user asked). Kills, failures, cancellation,
downloading again, deletion, restarting and clearing the rows are all allowed.

The argument. `FinishedIsOnDisk` is not inductive: a row becomes finished where
two counters are equal, so one must know what they count. `PipelineInv` says:

1. a model object counts exactly the pictures its *own* scan counted
   (`CountIsExact`), and each of these is in the folder (`CountedIsOnDisk`), which
   holds nothing else (`FoldersAreOwn`), whatever other scans of the set do;
2. what a scan has offered so far is numbered up to what it has found
   (`OfferedIsFound`: between pages, on a page, and in all once it is complete);
   so when `downloaded = total`, the counted pictures are a subset of `1..total`
   of that cardinality, hence all of them (this is where the theorems on finite
   sets come in);
3. a row that is finished, *or that the next launch would finish* because its
   counts match, has all its pictures (`RowsAreTrue`); and a waiting row counts
   nothing, so that the model object made from it counts nothing either
   (`WaitingCountsZero`, `ScriptsKeepFiles`).

`LastPictureIsSeen` follows from 1 and 2: a model object in status 2 has
`downloaded < total` when its scan completes, and each picture that is counted
later brings it at most to equality, which that same step sees. `Cancel` checks
the same invariant with TLC; the proof has one lemma per action.

The refinement maps the status of a row to the entry of the list (0 waiting, 1
and 2 working, 3 finished), the total of a finished row to `goal`, and the files
in a set's own folder to `shelf`. Every step of the pipeline edits entries as
`TaskLibrary` allows, or puts one picture on the shelf, or changes neither; that
an `UPDATE` of a row which is gone stays without effect is what keeps deleted
sets off the list.

The pipeline, as to what a scan reads (`PipelineScanProofs`):

- `FinishedSetsAreComplete`: `ScansAreWhole => (Spec => []FinishedIsComplete)`,
  where `ScansAreWhole` says that every page can be read and the user does not
  declare sets finished. `WholeInv`: every model object past its scan, and every
  row that is finished or that the next launch would finish, has the total of
  the whole set; a count that matches is one of those, as a row is only ever
  given a total together with a status, and a reset forgets the count.
- `StartedSetsAreWorkedOn`: `NothingIsCancelled => (Spec => []StartedIsWorkedOn)`,
  where `NothingIsCancelled` names the user operations that cancel nothing: a
  cancelled scan leaves its row as it is. `WorkInv`: no operation is withdrawn or
  cancelled, and a row in status 1 has an operation that has not written it as
  scanned yet (`WorksOn`), a thread about to add one, or a launch about to reset
  it. Kills and all failures are allowed.

The operation base: `OperationTypeCorrect`, `Spec => []TypeOK`, and
`PlaceIsKept`, `Spec => [](TypeOK /\ PlaceIsHeldUntilAnswer)`, for any number of
operations and any queue limit.

Sending (`SendQueueProofs`), for any messages, of any number of packets, and any
losses of the connection:

- `SendTypeCorrect`: `Spec => []TypeOK`, whatever is interrupted: in particular a
  packet is only ever cut from a task whose data is there (`DataIsThere`);
- `QueueIsNeverStuck`: `SendsInOrder => (Spec => []QueueFollows)`;
- `SendingImplementsStream`: `SendsInOrder => (Spec => StreamInOrder)`.

`SendsInOrder` has four parts, each of which the code needs. There is one
socket: `SendTwoClients` shows packets of one client sent to another. The app
sends only while it believes to be connected. A file that is asked for exists: a
missing one holds its operation until the connection is lost. A request that is
cancelled is answered with a message of its own, as the server makes one per
request. Nothing is assumed of the schedule: a report may come at any moment of a
block. What the two properties say, they say up to the moment when a block is
disturbed. The code does not exclude that moment, and `SendRace` shows what
follows; the theorems say that nothing else gets the queue stuck or the stream
out of order.

The argument. `SendInv` holds as long as no block was disturbed
(`UndisturbedInv`; what was disturbed stays so, `DisturbedGrows`). Nothing but the
first operation of the queue is executing (`QueueInv`), and a block runs only
while its operation is executing (`BlockInv`). One actor at a time is in
`sendBodyMessage`, the main thread only while no task is half made (`ActInv`). The
current task is the one of the executing operation, or of one that was withdrawn
(`CurrentInv`); so what a callback finds in `currentSendMessageTask` is no older
message. What a task has cut off follows what is on the wire (`TaskInv`,
`WireInv`): its next packet is the successor of the last one written, and a
message that is begun and neither complete nor withdrawn is the executing one.
The refinement maps the history variables to `MessageStream`; a step that writes
a packet writes it there, and every other step of a block or a callback
stutters. `QueueFollows` is the part of this that says who moves next: while an
operation executes, its block is running, a written packet is still to be
reported, or the connection is about to be noticed as lost (`DownInv`,
`FollowInv`).

Framing (`PacketReaderProofs`), for packets of any size and any prefix:

- `ReaderTypeCorrect`: `Spec => []TypeOK`;
- `NothingIsEverMixedUp`: `PacketsStayWhole => (Spec => []NothingIsMixedUp)`;
- `BufferStaysPartial`: `PacketsStayWhole => (Spec => []BufferIsOnePartialPacket)`;
- `ReaderImplementsChannel`: `PacketsStayWhole => (Spec => ReadsWholePackets)`.

`PacketsStayWhole`: the server is given whole packets only, and no connection is
lost inside a packet. `StreamServer` and `StreamReconnect` show that each half
is needed. The client may be given any chunks, and lose the connection any
number of times between packets. The argument: the bytes of the buffer followed
by those under way are the packets sent and not yet handed over, one after the
other (`ReaderInv`: there is a function from packets to the places where they
start, `LaidOut`). So the buffer always begins with the start of a packet, its
length is what the prefix says, and what is left when the loop ends is less than
one packet (`LessThanOne`).

The device link, with every fault, cancel, time-out and late notice of a loss,
and with reports that come into a block. `LinkTypeCorrect` and
`CancelledStaysCancelled` hold in any case, the others until the first such
report (`disturbed`), which the code does not exclude:

- `LinkTypeCorrect`: `Spec => []TypeOK`;
- `CancelledStaysCancelled`: `Spec => CancelIsFinal`;
- `CancelLeavesNothing`: `Spec => []AnsweredCancelLeavesNothing`;
- `OnlyWholeFilesComplete`: `Spec => []CompletedIsWhole`;
- `LinkImplementsTransfer`: `Spec => DeliversFiles`;
- `ClientWaitsForSomething`: `"lateLoss" \notin Allowed` implies
  `Spec => []WaitsForSomething`; the condition says that the client comes back
  only after the server noticed the loss, and `LinkLateLoss` shows that it is
  needed.

The argument. Until a block is disturbed the steps are the other ones
(`QuietNext`, `QuietSteps`). A request, and then its answer, is in one place at a time: the
client's queue, the way to the server, the server's queue or its current task,
the way back (`Placed`). An answer to a cancelling is sent when nothing is left
to send of the request, and is behind all that was sent (`CancelledIsLast`). A
cancelled request never gets a completion block again
(`CancelledExpectsNothing`). And while somebody waits, there is a number n such
that the first n packets were sent, those received are the parts in order, and
those between are on the way in order (`PartsFollow`); so the packet that says
it is the last one completes the whole file. `LinkInv` is their conjunction. The
refinement maps the receive tasks that have a completion block to `expecting`
and the number of their parts to `got`. `FileTransfer` sends a request once and
lets it be expected only then, so it says beside `CompletedIsWhole` that a
completion block is called at most once, and never with what came in on a later
connection; that a task made anew for late packets has no completion block, and
that the block of a cancelling releases no task somebody waits for
(`CancelWaitIsOfCancelled`), are what its proof rests on. For
`WaitsForSomething` it is not enough that packets are on the way: the *last* one
must be, or its operation still with the server (`AnswerIsToCome`), and what the
server throws away must be of a connection that is gone (`LossIsKnown`) or of a
request somebody cancelled (`CancelIsOfCancelled`).

Only model-checked: the liveness properties, `EveryTaskFinishes`,
`EveryTaskIsScanned`, `StartedEndsOrIsCancelled`, `EveryOperationEnds`,
`ReadReturns`, `EveryPacketArrives` and `EveryReceiveTaskEnds`; temporal proofs
with fairness are out of the prover's reach. TLC has checked each inductive
invariant on small instances before its proof; `PipelineInv` stays in the run
`Cancel`.

## 5. What could follow

1. What is left of the order of packets when messages are sent over several
   sockets, and the composition of `SendQueue` and `DeviceLink`: which disturbed
   blocks of the one are `TransmitDisturbed` or `StartDisturbed` of the other.
2. The favourites, with the late write of a row (`LocalFileListVC.m:947`).
3. The task list's own copy of the rows and the notifications that update it
   (`TasksViewController.m`); the paging of `DetailViewController`.
4. The change of the download limit while downloads run; several clients of one
   server in `DeviceLink`.

## 6. What is not modelled, and why

The parsers are pure functions of HTML; the model has their result. The database
wrapper, the request encodings, caches, share sheets, archives and the monitors
are input and output without shared state of their own. Views other than those
whose operations appear above only show what they read. OCGumbo and the pods
other than the operation base and the socket are third-party code. The Flutter
app lists sources from an asset and downloads nothing.

The favourites move the files of a set to a folder of their own and write the
row from a model object the page has cached; their folder depends on a column
(`isFavor`) the model leaves out. The task list shows a copy of the rows which it
reloads at most once a second, on a timer; what it does to a row goes through
the href alone. Neither has an invariant that a comment, a test or another part
of the code relies on.

Sets without pictures. Nobody finishes such a set before the next launch: it
stays at status 2 and counts as in progress. Five of them close the gate of
`prepareToDoNextTask` (`ContentParserManager.m:112`) for good, as no picture of
theirs completes and forces the search: a set added afterwards is not started,
although nothing failed and nothing was cancelled. The two liveness properties
of the pipeline except this case by name (`EmptySetsBlock`, more than `BusyLimit`
of them); the instance of `Live` has just enough empty sets for it to occur, and
`LiveBlocked.cfg` shows that without the exception the claim is false.

Deletion in edit mode (`LocalFileListVC.m:826`) is the action `RemoveSelected`: it
removes the files of the selected folders or pictures and cancels nothing; the
rows stay. It is among the operations that do not keep files (`KeepsFiles`).

Three behaviours are in the model and under no property, because no code or
comment promises more: a picture that fails leaves its set at status 2 until the
app is launched again; *restart all* resets rows without looking for the next task; a file that
is missing holds back every message of the link that is sent after it, until the
connection is lost.
