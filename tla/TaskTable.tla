----------------------------- MODULE TaskTable -----------------------------
(***************************************************************************)
(* The table of download tasks (PicContentTaskModel): one row per picture  *)
(* set, keyed by its href.  Every operator is one statement the code sends *)
(* to the database, as a function from the table before to the table after *)
(* it.  The columns the scheduler never reads (titles, times, thumbnails)  *)
(* are left out.                                                           *)
(***************************************************************************)
EXTENDS Integers, FiniteSets

CONSTANT Tasks      \* the picture sets; the order of Nat is the order of href

ASSUME TasksAssumption == /\ Tasks \subseteq Nat \ {0}
                          /\ IsFiniteSet(Tasks)

(* ContentTaskStatus, and the absence of a row.                            *)
Absent         == -1
Normal         == 0
StartScane     == 1
FinishScane    == 2
FinishDownload == 3

Row == [status : Absent..FinishDownload, total : Nat, downloaded : Nat]

NoRow  == [status |-> Absent, total |-> 0, downloaded |-> 0]
NewRow == [status |-> Normal, total |-> 0, downloaded |-> 0]

Table == [Tasks -> Row]

EmptyTable == [t \in Tasks |-> NoRow]

Has(tbl, t) == tbl[t].status # Absent

(* insertTable: the caller has seen that the href has no row.              *)
Insert(tbl, t) == [tbl EXCEPT ![t] = NewRow]

(* updateTable writes every column of the row with that href, if there is  *)
(* one; updateTableWithStatus only the status (and a time).                *)
UpdateOrInsert(tbl, t, r) == [tbl EXCEPT ![t] = r]
Update(tbl, t, r) == IF Has(tbl, t) THEN [tbl EXCEPT ![t] = r] ELSE tbl

UpdateStatus(tbl, t, s) ==
    IF Has(tbl, t) THEN [tbl EXCEPT ![t].status = s] ELSE tbl

Delete(tbl, S) == [t \in Tasks |-> IF t \in S THEN NoRow ELSE tbl[t]]

WithStatus(tbl, S) == {t \in Tasks : tbl[t].status \in S}

(* queryNextTask: the waiting row with the least href, if there is one.    *)
NextTasks(tbl) ==
    {t \in WithStatus(tbl, {Normal}) :
        \A u \in WithStatus(tbl, {Normal}) : t <= u}

(* queryCountForTaskInStatus12.                                            *)
InProgress(tbl) == Cardinality(WithStatus(tbl, {StartScane, FinishScane}))

(* resetHalfWorkingTasks: rows whose counts match become finished, then    *)
(* every other row goes back to the beginning; total keeps its old value.  *)
(* ResetHalfKeepingCounts forgets the count.  Here and in the other modules *)
(* an operator that nothing else uses is a mistake the code might have     *)
(* made; PROJECT.json names the property that notices it.                  *)
CountsMatch(r) == r.downloaded > 0 /\ r.downloaded = r.total

ResetHalfKeepingCounts(tbl) ==
    [t \in Tasks |->
        IF Has(tbl, t) /\ CountsMatch(tbl[t])
        THEN [tbl[t] EXCEPT !.status = FinishDownload]
        ELSE IF tbl[t].status \in {Normal, StartScane, FinishScane}
        THEN [tbl[t] EXCEPT !.status = Normal]
        ELSE tbl[t]]

ResetHalfWorking(tbl) ==
    [t \in Tasks |->
        IF Has(tbl, t) /\ CountsMatch(tbl[t])
        THEN [tbl[t] EXCEPT !.status = FinishDownload]
        ELSE IF tbl[t].status \in {Normal, StartScane, FinishScane}
        THEN [tbl[t] EXCEPT !.status = Normal, !.downloaded = 0]
        ELSE tbl[t]]

(* resetToZeroAllTasks.                                                    *)
ResetToZero(tbl) ==
    [t \in Tasks |->
        IF tbl[t].status = FinishDownload
        THEN [tbl[t] EXCEPT !.status = Normal, !.downloaded = 0]
        ELSE tbl[t]]
=============================================================================
