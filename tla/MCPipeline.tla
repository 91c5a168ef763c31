----------------------------- MODULE MCPipeline -----------------------------
(* Values for the constants of DownloadPipeline.                           *)
EXTENDS PipelineInvariant

OneTask    == {1}
TwoTasks   == {1, 2}
FourTasks  == {1, 2, 3, 4}

(* Set 1 has two pages of one picture, the others one page of one.         *)
SmallSets == [t \in Tasks |-> IF t = 1 THEN <<1, 2>> ELSE <<1>>]
TinySets  == [t \in Tasks |-> <<1>>]
EmptySets == [t \in Tasks |-> <<0>>]
LastEmpty == [t \in Tasks |-> IF t > 2 THEN <<0>> ELSE <<1>>]

OwnFolder == [t \in Tasks |-> t]

(* The app runs, its launch long done.                                     *)
InitLaunched == InitWith(<< >>, TRUE)
RunningSpec  == InitLaunched /\ [][Next]_vars

(* A launch that finds set 1 waiting from an earlier session.              *)
InitResumed ==
    /\ table = [t \in Tasks |-> IF t = 1 THEN NewRow ELSE NoRow]
    /\ folders = {Folder[1]}
    /\ disk = [f \in Folders |-> [i \in PicNos |-> NoFile]]
    /\ scan = [r \in Runs |-> FreeScan]
    /\ model = [r \in Runs |-> [status |-> 1, total |-> 0, downloaded |-> 0]]
    /\ pic = [r \in Runs |-> NoPics]
    /\ todo = [th \in Threads |-> IF th = "launch" THEN LaunchScript ELSE << >>]
    /\ callback = Idle
    /\ registered = FALSE
    /\ crashes = 0
ResumedSpec == InitResumed /\ [][Next]_vars

(* Sets left waiting by an earlier session; main looks for the next task.  *)
InitWaiting ==
    /\ table = [t \in Tasks |-> IF t = 1 THEN NoRow ELSE NewRow]
    /\ folders = Folders
    /\ disk = [f \in Folders |-> [i \in PicNos |-> NoFile]]
    /\ scan = [r \in Runs |-> FreeScan]
    /\ model = [r \in Runs |-> [status |-> 1, total |-> 0, downloaded |-> 0]]
    /\ pic = [r \in Runs |-> NoPics]
    /\ todo = [th \in Threads |-> IF th = "main" THEN <<Gate(FALSE)>> ELSE << >>]
    /\ callback = Idle
    /\ registered = TRUE
    /\ crashes = 0

(* A scan is freed with its last block, before anything else happens: what *)
(* is freed late takes no part in anything, and four scans are enough then *)
(* (a fifth changes no state).                                             *)
FreedAtOnce ==
    (\E r \in Runs : ENABLED Release(r)) => \E r \in Runs : Release(r)

FairWaitingSpec == InitWaiting /\ [][Next /\ FreedAtOnce]_vars /\ Fairness
=============================================================================
