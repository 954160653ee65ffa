------------------------- MODULE RunLifecycleProofs -------------------------
(***************************************************************************)
(* The safety of RunLifecycle for every set of runs, keys and sessions,    *)
(* and that it keeps RunContract.                                          *)
(***************************************************************************)
EXTENDS RunLifecycle, FiniteSetTheorems, TLAPS

LEMMA InitIInv == Init => IInv
<1> SUFFICES ASSUME Init PROVE IInv
  OBVIOUS
<1> USE RunsAssumption, NoRowAssumption
<1>1. TypeOK
  BY DEF Init, TypeOK, Nothing, Request, Execution, ExecutionStatus, Summary, At, Terminal
<1>2. RowsExist
  BY DEF Init, RowsExist, Nothing, Working
<1>3. KeysUnique
  BY DEF Init, KeysUnique, Nothing, Rows
<1>4. SummariesAgree
  BY DEF Init, SummariesAgree, Nothing, Rows
<1>5. CommittedFirst
  BY DEF Init, CommittedFirst
<1>6. PublishedIsDurable
  BY DEF Init, PublishedIsDurable
<1>7. QED
  BY <1>1, <1>2, <1>3, <1>4, <1>5, <1>6 DEF IInv

LEMMA InsertKeeps ==
  ASSUME IInv, NEW r \in Runs, Insert(r)
  PROVE  IInv'
<1> USE RunsAssumption, NoRowAssumption
<1>0. TypeOK /\ RowsExist /\ KeysUnique /\ SummariesAgree /\ CommittedFirst
      /\ PublishedIsDurable
  BY DEF IInv
<1>1. row[r] = NoRow
  BY <1>0 DEF Insert, ReadyToInsert, RowsExist
<1>2. Cardinality(Rows) \in Nat
  BY FS_CardinalityType, FS_Subset DEF Rows
<1> DEFINE new == [status |-> "pending", named |-> FALSE, summary |-> "none",
                   finalized |-> FALSE, created |-> Cardinality(Rows)]
<1>a. new \in Row
  BY <1>2 DEF Row, RunStatus, Summary
<1>b. row' = [row EXCEPT ![r] = new]
  BY DEF Insert
<1> HIDE DEF new
<1>3. row'[r] \in Row /\ row' \in [Runs -> Row \cup {NoRow}] /\ Rows' = Rows \cup {r}
  BY <1>0, <1>1, <1>a, <1>b DEF TypeOK, Rows
<1>4. TypeOK'
  BY <1>0, <1>3 DEF TypeOK, Insert, Request, cloudVars, sessionVars, outVars
<1>5. RowsExist'
  BY <1>0, <1>3 DEF TypeOK, RowsExist, Insert, cloudVars, sessionVars, outVars, Working
<1>6. KeysUnique'
  BY <1>0, <1>3 DEF TypeOK, KeysUnique, Insert, Holders, Rows
<1>7. SummariesAgree'
  BY <1>0, <1>3 DEF TypeOK, SummariesAgree, Insert, Rows, cloudVars, sessionVars
<1>8. CommittedFirst'
  BY <1>0, <1>1, <1>3 DEF TypeOK, RowsExist, Working, CommittedFirst, Insert, sessionVars
<1>9. PublishedIsDurable'
  BY <1>0, <1>1, <1>3 DEF TypeOK, PublishedIsDurable, Insert, outVars
<1>10. QED
  BY <1>4, <1>5, <1>6, <1>7, <1>8, <1>9 DEF IInv

LEMMA CheckParentKeeps ==
  ASSUME IInv, NEW r \in Runs, CheckParent(r)
  PROVE  IInv'
<1> USE RunsAssumption, NoRowAssumption
<1>0. TypeOK /\ RowsExist /\ KeysUnique /\ SummariesAgree /\ CommittedFirst
      /\ PublishedIsDurable
  BY DEF IInv
<1>1. TypeOK'
  BY <1>0 DEF TypeOK, Request, Execution, ExecutionDone, ExecutionStatus, At, Summary, CheckParent, tableVars, cloudVars, sessionVars, outVars
<1>2. RowsExist'
  BY <1>0 DEF TypeOK, RowsExist, Working, CheckParent, tableVars, cloudVars, sessionVars, outVars
<1>3. KeysUnique'
  BY <1>0 DEF TypeOK, KeysUnique, Rows, CheckParent, tableVars, cloudVars, sessionVars, outVars
<1>4. SummariesAgree'
  BY <1>0 DEF TypeOK, RowsExist, SummariesAgree, Working, Rows, CheckParent, tableVars, cloudVars, sessionVars, outVars
<1>5. CommittedFirst'
  BY <1>0 DEF TypeOK, RowsExist, CommittedFirst, Working, CheckParent, tableVars, cloudVars, sessionVars, outVars
<1>6. PublishedIsDurable'
  BY <1>0 DEF TypeOK, RowsExist, PublishedIsDurable, CheckParent, tableVars, cloudVars, sessionVars, outVars
<1>7. QED
  BY <1>1, <1>2, <1>3, <1>4, <1>5, <1>6 DEF IInv

LEMMA DeduplicateKeeps ==
  ASSUME IInv, NEW r \in Runs, Deduplicate(r)
  PROVE  IInv'
<1> USE RunsAssumption, NoRowAssumption
<1>0. TypeOK /\ RowsExist /\ KeysUnique /\ SummariesAgree /\ CommittedFirst
      /\ PublishedIsDurable
  BY DEF IInv
<1>1. TypeOK'
  BY <1>0 DEF TypeOK, Request, Execution, ExecutionDone, ExecutionStatus, At, Summary, Deduplicate, ReadyToInsert, Holders, Rows, tableVars, cloudVars, sessionVars, outVars
<1>2. RowsExist'
  BY <1>0 DEF TypeOK, RowsExist, Working, Deduplicate, ReadyToInsert, Holders, Rows, tableVars, cloudVars, sessionVars, outVars
<1>3. KeysUnique'
  BY <1>0 DEF TypeOK, KeysUnique, Rows, Deduplicate, ReadyToInsert, Holders, Rows, tableVars, cloudVars, sessionVars, outVars
<1>4. SummariesAgree'
  BY <1>0 DEF TypeOK, RowsExist, SummariesAgree, Working, Rows, Deduplicate, ReadyToInsert, Holders, Rows, tableVars, cloudVars, sessionVars, outVars
<1>5. CommittedFirst'
  BY <1>0 DEF TypeOK, RowsExist, CommittedFirst, Working, Deduplicate, ReadyToInsert, Holders, Rows, tableVars, cloudVars, sessionVars, outVars
<1>6. PublishedIsDurable'
  BY <1>0 DEF TypeOK, RowsExist, PublishedIsDurable, Deduplicate, ReadyToInsert, Holders, Rows, tableVars, cloudVars, sessionVars, outVars
<1>7. QED
  BY <1>1, <1>2, <1>3, <1>4, <1>5, <1>6 DEF IInv

LEMMA TriggerKeeps ==
  ASSUME IInv, NEW r \in Runs, Trigger(r)
  PROVE  IInv'
<1> USE RunsAssumption, NoRowAssumption
<1>0. TypeOK /\ RowsExist /\ KeysUnique /\ SummariesAgree /\ CommittedFirst
      /\ PublishedIsDurable
  BY DEF IInv
<1>1. TypeOK'
  <2>1. request' \in [Runs -> Request] /\ execution' \in [Runs -> Execution]
    <3>1. request \in [Runs -> Request] /\ execution \in [Runs -> Execution]
      BY <1>0 DEF TypeOK
    <3>2. \A a \in {"triggered", "refused"} :
            [request EXCEPT ![r] = a] \in [Runs -> Request]
      BY <3>1 DEF Request
    <3>3. [execution EXCEPT ![r] = "pending"] \in [Runs -> Execution]
      BY <3>1 DEF Execution
    <3>4. QED
      BY <3>1, <3>2, <3>3 DEF Trigger
  <2>2. UNCHANGED <<row, answer, forgotten, results, event, aged, at, kind, cur, view,
                    seen, got, todo, tx, completed, emails, overlapped>>
    BY DEF Trigger, sessionVars, outVars
  <2>3. QED
    BY <1>0, <2>1, <2>2 DEF TypeOK
<1>2. RowsExist'
  BY <1>0 DEF TypeOK, RowsExist, Working, Trigger, tableVars, cloudVars, sessionVars, outVars
<1>3. KeysUnique'
  BY <1>0 DEF TypeOK, KeysUnique, Rows, Trigger, tableVars, cloudVars, sessionVars, outVars
<1>4. SummariesAgree'
  BY <1>0 DEF TypeOK, RowsExist, SummariesAgree, Working, Rows, Trigger, tableVars, cloudVars, sessionVars, outVars
<1>5. CommittedFirst'
  BY <1>0 DEF TypeOK, RowsExist, CommittedFirst, Working, Trigger, tableVars, cloudVars, sessionVars, outVars
<1>6. PublishedIsDurable'
  BY <1>0 DEF TypeOK, RowsExist, PublishedIsDurable, Trigger, tableVars, cloudVars, sessionVars, outVars
<1>7. QED
  BY <1>1, <1>2, <1>3, <1>4, <1>5, <1>6 DEF IInv

LEMMA CreateCrashKeeps ==
  ASSUME IInv, NEW r \in Runs, CreateCrash(r)
  PROVE  IInv'
<1> USE RunsAssumption, NoRowAssumption
<1>0. TypeOK /\ RowsExist /\ KeysUnique /\ SummariesAgree /\ CommittedFirst
      /\ PublishedIsDurable
  BY DEF IInv
<1>1. TypeOK'
  BY <1>0 DEF TypeOK, Request, Execution, ExecutionDone, ExecutionStatus, At, Summary, CreateCrash, tableVars, cloudVars, sessionVars, outVars
<1>2. RowsExist'
  BY <1>0 DEF TypeOK, RowsExist, Working, CreateCrash, tableVars, cloudVars, sessionVars, outVars
<1>3. KeysUnique'
  BY <1>0 DEF TypeOK, KeysUnique, Rows, CreateCrash, tableVars, cloudVars, sessionVars, outVars
<1>4. SummariesAgree'
  BY <1>0 DEF TypeOK, RowsExist, SummariesAgree, Working, Rows, CreateCrash, tableVars, cloudVars, sessionVars, outVars
<1>5. CommittedFirst'
  BY <1>0 DEF TypeOK, RowsExist, CommittedFirst, Working, CreateCrash, tableVars, cloudVars, sessionVars, outVars
<1>6. PublishedIsDurable'
  BY <1>0 DEF TypeOK, RowsExist, PublishedIsDurable, CreateCrash, tableVars, cloudVars, sessionVars, outVars
<1>7. QED
  BY <1>1, <1>2, <1>3, <1>4, <1>5, <1>6 DEF IInv

LEMMA RecordFailureKeeps ==
  ASSUME IInv, NEW r \in Runs, RecordFailure(r)
  PROVE  IInv'
<1> USE RunsAssumption, NoRowAssumption
<1>0. TypeOK /\ RowsExist /\ KeysUnique /\ SummariesAgree /\ CommittedFirst
      /\ PublishedIsDurable
  BY DEF IInv
<1> DEFINE new == [row[r] EXCEPT !.status = "failed"]
<1>a. row[r] \in Row
  BY <1>0 DEF RecordFailure, RowsExist
<1>b. row' = [row EXCEPT ![r] = new] /\ new \in Row /\ new.summary = row[r].summary
      /\ new.finalized = row[r].finalized
  BY <1>0, <1>a DEF RecordFailure, TypeOK, Row, RunStatus, Terminal
<1>c. /\ request[r] = "refused" /\ request' = [request EXCEPT ![r] = "rejected"] /\ answer' = answer
      /\ UNCHANGED <<execution, forgotten, results, event, aged, at, kind, cur, view,
                     seen, got, todo, tx, completed, emails, overlapped>>
  BY DEF RecordFailure, tableVars, cloudVars, sessionVars, outVars
<1> HIDE DEF new
<1>d. Rows' = Rows /\ \A q \in Runs : row'[q] = IF q = r THEN new ELSE row[q]
  BY <1>0, <1>a, <1>b DEF TypeOK, Rows
<1>e. row' \in [Runs -> Row \cup {NoRow}]
  BY <1>0, <1>b DEF TypeOK
<1>1. TypeOK'
  BY <1>0, <1>c, <1>e DEF TypeOK, Request
<1>2. RowsExist'
  BY <1>0, <1>a, <1>b, <1>c, <1>d DEF TypeOK, RowsExist, Working
<1>3. KeysUnique'
  BY <1>0, <1>a, <1>b, <1>c, <1>d DEF TypeOK, KeysUnique, Rows
<1>4. SummariesAgree'
  BY <1>0, <1>a, <1>b, <1>c, <1>d DEF TypeOK, RowsExist, SummariesAgree, Working, Rows
<1>5. CommittedFirst'
  BY <1>0, <1>a, <1>b, <1>c, <1>d DEF TypeOK, RowsExist, CommittedFirst, Working
<1>6. PublishedIsDurable'
  BY <1>0, <1>a, <1>b, <1>c, <1>d DEF TypeOK, RowsExist, PublishedIsDurable
<1>7. QED
  BY <1>1, <1>2, <1>3, <1>4, <1>5, <1>6 DEF IInv

LEMMA RecordExecutionKeeps ==
  ASSUME IInv, NEW r \in Runs, RecordExecution(r)
  PROVE  IInv'
<1> USE RunsAssumption, NoRowAssumption
<1>0. TypeOK /\ RowsExist /\ KeysUnique /\ SummariesAgree /\ CommittedFirst
      /\ PublishedIsDurable
  BY DEF IInv
<1> DEFINE new == [row[r] EXCEPT !.named = TRUE]
<1>a. row[r] \in Row
  BY <1>0 DEF RecordExecution, RowsExist
<1>b. row' = [row EXCEPT ![r] = new] /\ new \in Row /\ new.summary = row[r].summary
      /\ new.finalized = row[r].finalized
  BY <1>0, <1>a DEF RecordExecution, TypeOK, Row, RunStatus, Terminal
<1>c. /\ request[r] = "triggered" /\ request' = [request EXCEPT ![r] = "answered"]
      /\ answer' = [answer EXCEPT ![r] = r]
      /\ UNCHANGED <<execution, forgotten, results, event, aged, at, kind, cur, view,
                     seen, got, todo, tx, completed, emails, overlapped>>
  BY DEF RecordExecution, tableVars, cloudVars, sessionVars, outVars
<1> HIDE DEF new
<1>d. Rows' = Rows /\ \A q \in Runs : row'[q] = IF q = r THEN new ELSE row[q]
  BY <1>0, <1>a, <1>b DEF TypeOK, Rows
<1>e. row' \in [Runs -> Row \cup {NoRow}]
  BY <1>0, <1>b DEF TypeOK
<1>1. TypeOK'
  BY <1>0, <1>c, <1>e DEF TypeOK, Request
<1>2. RowsExist'
  BY <1>0, <1>a, <1>b, <1>c, <1>d DEF TypeOK, RowsExist, Working
<1>3. KeysUnique'
  BY <1>0, <1>a, <1>b, <1>c, <1>d DEF TypeOK, KeysUnique, Rows
<1>4. SummariesAgree'
  BY <1>0, <1>a, <1>b, <1>c, <1>d DEF TypeOK, RowsExist, SummariesAgree, Working, Rows
<1>5. CommittedFirst'
  BY <1>0, <1>a, <1>b, <1>c, <1>d DEF TypeOK, RowsExist, CommittedFirst, Working
<1>6. PublishedIsDurable'
  BY <1>0, <1>a, <1>b, <1>c, <1>d DEF TypeOK, RowsExist, PublishedIsDurable
<1>7. QED
  BY <1>1, <1>2, <1>3, <1>4, <1>5, <1>6 DEF IInv

LEMMA StartExecutionKeeps ==
  ASSUME IInv, NEW r \in Runs, StartExecution(r)
  PROVE  IInv'
<1> USE RunsAssumption, NoRowAssumption
<1>0. TypeOK /\ RowsExist /\ KeysUnique /\ SummariesAgree /\ CommittedFirst
      /\ PublishedIsDurable
  BY DEF IInv
<1>1. TypeOK'
  BY <1>0 DEF TypeOK, Request, Execution, ExecutionDone, ExecutionStatus, At, Summary, StartExecution, ExecutionDone, tableVars, cloudVars, sessionVars, outVars
<1>2. RowsExist'
  BY <1>0 DEF TypeOK, RowsExist, Working, StartExecution, ExecutionDone, tableVars, cloudVars, sessionVars, outVars
<1>3. KeysUnique'
  BY <1>0 DEF TypeOK, KeysUnique, Rows, StartExecution, ExecutionDone, tableVars, cloudVars, sessionVars, outVars
<1>4. SummariesAgree'
  BY <1>0 DEF TypeOK, RowsExist, SummariesAgree, Working, Rows, StartExecution, ExecutionDone, tableVars, cloudVars, sessionVars, outVars
<1>5. CommittedFirst'
  BY <1>0 DEF TypeOK, RowsExist, CommittedFirst, Working, StartExecution, ExecutionDone, tableVars, cloudVars, sessionVars, outVars
<1>6. PublishedIsDurable'
  BY <1>0 DEF TypeOK, RowsExist, PublishedIsDurable, StartExecution, ExecutionDone, tableVars, cloudVars, sessionVars, outVars
<1>7. QED
  BY <1>1, <1>2, <1>3, <1>4, <1>5, <1>6 DEF IInv

LEMMA WriteSummaryKeeps ==
  ASSUME IInv, NEW r \in Runs, WriteSummary(r)
  PROVE  IInv'
<1> USE RunsAssumption, NoRowAssumption
<1>0. TypeOK /\ RowsExist /\ KeysUnique /\ SummariesAgree /\ CommittedFirst
      /\ PublishedIsDurable
  BY DEF IInv
<1>1. TypeOK'
  BY <1>0 DEF TypeOK, Request, Execution, ExecutionDone, ExecutionStatus, At, Summary, WriteSummary, ExecutionDone, tableVars, cloudVars, sessionVars, outVars
<1>2. RowsExist'
  BY <1>0 DEF TypeOK, RowsExist, Working, WriteSummary, ExecutionDone, tableVars, cloudVars, sessionVars, outVars
<1>3. KeysUnique'
  BY <1>0 DEF TypeOK, KeysUnique, Rows, WriteSummary, ExecutionDone, tableVars, cloudVars, sessionVars, outVars
<1>4. SummariesAgree'
  BY <1>0 DEF TypeOK, RowsExist, SummariesAgree, Working, Rows, WriteSummary, ExecutionDone, tableVars, cloudVars, sessionVars, outVars
<1>5. CommittedFirst'
  BY <1>0 DEF TypeOK, RowsExist, CommittedFirst, Working, WriteSummary, ExecutionDone, tableVars, cloudVars, sessionVars, outVars
<1>6. PublishedIsDurable'
  BY <1>0 DEF TypeOK, RowsExist, PublishedIsDurable, WriteSummary, ExecutionDone, tableVars, cloudVars, sessionVars, outVars
<1>7. QED
  BY <1>1, <1>2, <1>3, <1>4, <1>5, <1>6 DEF IInv

LEMMA CompleteExecutionKeeps ==
  ASSUME IInv, NEW r \in Runs, CompleteExecution(r)
  PROVE  IInv'
<1> USE RunsAssumption, NoRowAssumption
<1>0. TypeOK /\ RowsExist /\ KeysUnique /\ SummariesAgree /\ CommittedFirst
      /\ PublishedIsDurable
  BY DEF IInv
<1>1. TypeOK'
  <2>1. PICK x \in ExecutionDone : execution' = [execution EXCEPT ![r] = x]
    BY DEF CompleteExecution, ExecutionDone
  <2>2. execution' \in [Runs -> Execution]
    BY <1>0, <2>1 DEF TypeOK, Execution
  <2>3. event' \in [Runs -> {"none", "queued", "acked"}]
    BY <1>0 DEF TypeOK, CompleteExecution
  <2>4. UNCHANGED <<forgotten, results, aged, tableVars, sessionVars, outVars>>
    BY DEF CompleteExecution
  <2>5. QED
    BY <1>0, <2>2, <2>3, <2>4 DEF TypeOK, tableVars, sessionVars, outVars
<1>2. RowsExist'
  BY <1>0 DEF TypeOK, RowsExist, Working, CompleteExecution, ExecutionDone, tableVars, cloudVars, sessionVars, outVars
<1>3. KeysUnique'
  BY <1>0 DEF TypeOK, KeysUnique, Rows, CompleteExecution, ExecutionDone, tableVars, cloudVars, sessionVars, outVars
<1>4. SummariesAgree'
  BY <1>0 DEF TypeOK, RowsExist, SummariesAgree, Working, Rows, CompleteExecution, ExecutionDone, tableVars, cloudVars, sessionVars, outVars
<1>5. CommittedFirst'
  BY <1>0 DEF TypeOK, RowsExist, CommittedFirst, Working, CompleteExecution, ExecutionDone, tableVars, cloudVars, sessionVars, outVars
<1>6. PublishedIsDurable'
  BY <1>0 DEF TypeOK, RowsExist, PublishedIsDurable, CompleteExecution, ExecutionDone, tableVars, cloudVars, sessionVars, outVars
<1>7. QED
  BY <1>1, <1>2, <1>3, <1>4, <1>5, <1>6 DEF IInv

LEMMA ForgetExecutionKeeps ==
  ASSUME IInv, NEW r \in Runs, ForgetExecution(r)
  PROVE  IInv'
<1> USE RunsAssumption, NoRowAssumption
<1>0. TypeOK /\ RowsExist /\ KeysUnique /\ SummariesAgree /\ CommittedFirst
      /\ PublishedIsDurable
  BY DEF IInv
<1>1. TypeOK'
  BY <1>0 DEF TypeOK, Request, Execution, ExecutionDone, ExecutionStatus, At, Summary, ForgetExecution, tableVars, cloudVars, sessionVars, outVars
<1>2. RowsExist'
  BY <1>0 DEF TypeOK, RowsExist, Working, ForgetExecution, tableVars, cloudVars, sessionVars, outVars
<1>3. KeysUnique'
  BY <1>0 DEF TypeOK, KeysUnique, Rows, ForgetExecution, tableVars, cloudVars, sessionVars, outVars
<1>4. SummariesAgree'
  BY <1>0 DEF TypeOK, RowsExist, SummariesAgree, Working, Rows, ForgetExecution, tableVars, cloudVars, sessionVars, outVars
<1>5. CommittedFirst'
  BY <1>0 DEF TypeOK, RowsExist, CommittedFirst, Working, ForgetExecution, tableVars, cloudVars, sessionVars, outVars
<1>6. PublishedIsDurable'
  BY <1>0 DEF TypeOK, RowsExist, PublishedIsDurable, ForgetExecution, tableVars, cloudVars, sessionVars, outVars
<1>7. QED
  BY <1>1, <1>2, <1>3, <1>4, <1>5, <1>6 DEF IInv

LEMMA AgeKeeps ==
  ASSUME IInv, NEW r \in Runs, Age(r)
  PROVE  IInv'
<1> USE RunsAssumption, NoRowAssumption
<1>0. TypeOK /\ RowsExist /\ KeysUnique /\ SummariesAgree /\ CommittedFirst
      /\ PublishedIsDurable
  BY DEF IInv
<1>1. TypeOK'
  BY <1>0 DEF TypeOK, Request, Execution, ExecutionDone, ExecutionStatus, At, Summary, Age, ExecutionDone, Rows, tableVars, cloudVars, sessionVars, outVars
<1>2. RowsExist'
  BY <1>0 DEF TypeOK, RowsExist, Working, Age, ExecutionDone, Rows, tableVars, cloudVars, sessionVars, outVars
<1>3. KeysUnique'
  BY <1>0 DEF TypeOK, KeysUnique, Rows, Age, ExecutionDone, Rows, tableVars, cloudVars, sessionVars, outVars
<1>4. SummariesAgree'
  BY <1>0 DEF TypeOK, RowsExist, SummariesAgree, Working, Rows, Age, ExecutionDone, Rows, tableVars, cloudVars, sessionVars, outVars
<1>5. CommittedFirst'
  BY <1>0 DEF TypeOK, RowsExist, CommittedFirst, Working, Age, ExecutionDone, Rows, tableVars, cloudVars, sessionVars, outVars
<1>6. PublishedIsDurable'
  BY <1>0 DEF TypeOK, RowsExist, PublishedIsDurable, Age, ExecutionDone, Rows, tableVars, cloudVars, sessionVars, outVars
<1>7. QED
  BY <1>1, <1>2, <1>3, <1>4, <1>5, <1>6 DEF IInv

LEMMA PushMissesKeeps ==
  ASSUME IInv, NEW r \in Runs, PushMisses(r)
  PROVE  IInv'
<1> USE RunsAssumption, NoRowAssumption
<1>0. TypeOK /\ RowsExist /\ KeysUnique /\ SummariesAgree /\ CommittedFirst
      /\ PublishedIsDurable
  BY DEF IInv
<1>1. TypeOK'
  BY <1>0 DEF TypeOK, Request, Execution, ExecutionDone, ExecutionStatus, At, Summary, PushMisses, tableVars, cloudVars, sessionVars, outVars
<1>2. RowsExist'
  BY <1>0 DEF TypeOK, RowsExist, Working, PushMisses, tableVars, cloudVars, sessionVars, outVars
<1>3. KeysUnique'
  BY <1>0 DEF TypeOK, KeysUnique, Rows, PushMisses, tableVars, cloudVars, sessionVars, outVars
<1>4. SummariesAgree'
  BY <1>0 DEF TypeOK, RowsExist, SummariesAgree, Working, Rows, PushMisses, tableVars, cloudVars, sessionVars, outVars
<1>5. CommittedFirst'
  BY <1>0 DEF TypeOK, RowsExist, CommittedFirst, Working, PushMisses, tableVars, cloudVars, sessionVars, outVars
<1>6. PublishedIsDurable'
  BY <1>0 DEF TypeOK, RowsExist, PublishedIsDurable, PushMisses, tableVars, cloudVars, sessionVars, outVars
<1>7. QED
  BY <1>1, <1>2, <1>3, <1>4, <1>5, <1>6 DEF IInv

LEMMA PushFindsKeeps ==
  ASSUME IInv, NEW s \in Sessions, NEW r \in Runs, PushFinds(s, r)
  PROVE  IInv'
<1> USE RunsAssumption, NoRowAssumption
<1>0. TypeOK /\ RowsExist /\ KeysUnique /\ SummariesAgree /\ CommittedFirst
      /\ PublishedIsDurable
  BY DEF IInv
<1>1. TypeOK'
  <2>1. row[r] \in Row
    BY <1>0 DEF TypeOK, PushFinds
  <2>2. UNCHANGED <<row, request, answer, execution, forgotten, results, aged,
                    completed, emails>>
    BY DEF PushFinds, tableVars
  <2>3. CASE row[r].finalized
    <3>1. event' = [event EXCEPT ![r] = "acked"]
      BY <2>3 DEF PushFinds
    <3>2. UNCHANGED <<at, kind, cur, view, seen, got, todo, tx, overlapped>>
      BY <2>3 DEF PushFinds, sessionVars
    <3>3. QED
      BY <1>0, <2>2, <3>1, <3>2 DEF TypeOK
  <2>4. CASE ~row[r].finalized
    <3>1. view' = [view EXCEPT ![s][r] = row[r]]
      BY <2>4 DEF PushFinds
    <3>2. view' \in [Sessions -> [Runs -> Row \cup {NoRow}]]
      BY <1>0, <2>1, <3>1 DEF TypeOK
    <3>3. /\ at' = [at EXCEPT ![s] = "poll"] /\ cur' = [cur EXCEPT ![s] = r]
          /\ UNCHANGED <<event, kind, seen, got, todo, tx>>
          /\ overlapped' = overlapped \cup HeldOf({r})
      BY <2>4 DEF PushFinds
    <3>4. at' \in [Sessions -> At] /\ cur' \in [Sessions -> Runs \cup {NoRun}]
      BY <1>0, <3>3 DEF TypeOK, At
    <3>5. QED
      BY <1>0, <2>2, <3>2, <3>3, <3>4 DEF TypeOK, HeldOf
  <2>5. QED
    BY <2>3, <2>4
<1>2. RowsExist'
  BY <1>0 DEF TypeOK, RowsExist, Working, PushFinds, tableVars, cloudVars, sessionVars, outVars
<1>3. KeysUnique'
  BY <1>0 DEF TypeOK, KeysUnique, Rows, PushFinds, tableVars, cloudVars, sessionVars, outVars
<1>4. SummariesAgree'
  BY <1>0 DEF TypeOK, RowsExist, SummariesAgree, Working, Rows, PushFinds, tableVars, cloudVars, sessionVars, outVars
<1>5. CommittedFirst'
  BY <1>0 DEF TypeOK, RowsExist, CommittedFirst, Working, PushFinds, tableVars, cloudVars, sessionVars, outVars
<1>6. PublishedIsDurable'
  BY <1>0 DEF TypeOK, RowsExist, PublishedIsDurable, PushFinds, tableVars, cloudVars, sessionVars, outVars
<1>7. QED
  BY <1>1, <1>2, <1>3, <1>4, <1>5, <1>6 DEF IInv

LEMMA SweepLoadKeeps ==
  ASSUME IInv, NEW s \in Sessions, SweepLoad(s)
  PROVE  IInv'
<1> USE RunsAssumption, NoRowAssumption
<1>0. TypeOK /\ RowsExist /\ KeysUnique /\ SummariesAgree /\ CommittedFirst
      /\ PublishedIsDurable
  BY DEF IInv
<1>1. TypeOK'
  BY <1>0 DEF TypeOK, Request, Execution, ExecutionDone, ExecutionStatus, At, Summary, SweepLoad, Stale, Rows, Older, HeldOf, tableVars, cloudVars, sessionVars, outVars
<1>2. RowsExist'
  BY <1>0 DEF TypeOK, RowsExist, Working, SweepLoad, Stale, Rows, Older, tableVars, cloudVars, sessionVars, outVars
<1>3. KeysUnique'
  BY <1>0 DEF TypeOK, KeysUnique, Rows, SweepLoad, Stale, Rows, Older, tableVars, cloudVars, sessionVars, outVars
<1>4. SummariesAgree'
  BY <1>0 DEF TypeOK, RowsExist, SummariesAgree, Working, Rows, SweepLoad, Stale, Rows, Older, tableVars, cloudVars, sessionVars, outVars
<1>5. CommittedFirst'
  BY <1>0 DEF TypeOK, RowsExist, CommittedFirst, Working, SweepLoad, Stale, Rows, Older, tableVars, cloudVars, sessionVars, outVars
<1>6. PublishedIsDurable'
  BY <1>0 DEF TypeOK, RowsExist, PublishedIsDurable, SweepLoad, Stale, Rows, Older, tableVars, cloudVars, sessionVars, outVars
<1>7. QED
  BY <1>1, <1>2, <1>3, <1>4, <1>5, <1>6 DEF IInv

LEMMA SweepVisitKeeps ==
  ASSUME IInv, NEW s \in Sessions, SweepVisit(s)
  PROVE  IInv'
<1> USE RunsAssumption, NoRowAssumption
<1>0. TypeOK /\ RowsExist /\ KeysUnique /\ SummariesAgree /\ CommittedFirst
      /\ PublishedIsDurable
  BY DEF IInv
<1>1. TypeOK'
  BY <1>0 DEF TypeOK, Request, Execution, ExecutionDone, ExecutionStatus, At, Summary, SweepVisit, tableVars, cloudVars, sessionVars, outVars
<1>2. RowsExist'
  BY <1>0 DEF TypeOK, RowsExist, Working, SweepVisit, tableVars, cloudVars, sessionVars, outVars
<1>3. KeysUnique'
  BY <1>0 DEF TypeOK, KeysUnique, Rows, SweepVisit, tableVars, cloudVars, sessionVars, outVars
<1>4. SummariesAgree'
  BY <1>0 DEF TypeOK, RowsExist, SummariesAgree, Working, Rows, SweepVisit, tableVars, cloudVars, sessionVars, outVars
<1>5. CommittedFirst'
  BY <1>0 DEF TypeOK, RowsExist, CommittedFirst, Working, SweepVisit, tableVars, cloudVars, sessionVars, outVars
<1>6. PublishedIsDurable'
  BY <1>0 DEF TypeOK, RowsExist, PublishedIsDurable, SweepVisit, tableVars, cloudVars, sessionVars, outVars
<1>7. QED
  BY <1>1, <1>2, <1>3, <1>4, <1>5, <1>6 DEF IInv

LEMMA PollKeeps ==
  ASSUME IInv, NEW s \in Sessions, Poll(s)
  PROVE  IInv'
<1> USE RunsAssumption, NoRowAssumption
<1>0. TypeOK /\ RowsExist /\ KeysUnique /\ SummariesAgree /\ CommittedFirst
      /\ PublishedIsDurable
  BY DEF IInv
<1>1. TypeOK'
  <2>1. cur[s] \in Runs
    BY <1>0 DEF Poll, RowsExist, Working
  <2>2. StatusOf(cur[s]) \in ExecutionStatus /\ "unknown" \in ExecutionStatus
    BY <1>0, <2>1 DEF TypeOK, StatusOf, ExecutionStatus
  <2>3. seen' \in [Sessions -> ExecutionStatus]
    BY <1>0, <2>2 DEF TypeOK, Poll
  <2>4. at' \in [Sessions -> At]
    BY <1>0 DEF TypeOK, Poll, At
  <2>5. UNCHANGED <<row, request, answer, execution, forgotten, results, event, aged,
                    kind, cur, view, got, todo, tx, completed, emails, overlapped>>
    BY DEF Poll, tableVars, cloudVars, outVars
  <2>6. QED
    BY <1>0, <2>3, <2>4, <2>5 DEF TypeOK
<1>2. RowsExist'
  BY <1>0 DEF TypeOK, RowsExist, Working, Poll, StatusOf, tableVars, cloudVars, sessionVars, outVars
<1>3. KeysUnique'
  BY <1>0 DEF TypeOK, KeysUnique, Rows, Poll, StatusOf, tableVars, cloudVars, sessionVars, outVars
<1>4. SummariesAgree'
  BY <1>0 DEF TypeOK, RowsExist, SummariesAgree, Working, Rows, Poll, StatusOf, tableVars, cloudVars, sessionVars, outVars
<1>5. CommittedFirst'
  BY <1>0 DEF TypeOK, RowsExist, CommittedFirst, Working, Poll, StatusOf, tableVars, cloudVars, sessionVars, outVars
<1>6. PublishedIsDurable'
  BY <1>0 DEF TypeOK, RowsExist, PublishedIsDurable, Poll, StatusOf, tableVars, cloudVars, sessionVars, outVars
<1>7. QED
  BY <1>1, <1>2, <1>3, <1>4, <1>5, <1>6 DEF IInv

LEMMA ReadResultsKeeps ==
  ASSUME IInv, NEW s \in Sessions, ReadResults(s)
  PROVE  IInv'
<1> USE RunsAssumption, NoRowAssumption
<1>0. TypeOK /\ RowsExist /\ KeysUnique /\ SummariesAgree /\ CommittedFirst
      /\ PublishedIsDurable
  BY DEF IInv
<1>1. TypeOK'
  <2>1. cur[s] \in Runs
    BY <1>0 DEF ReadResults, RowsExist, Working
  <2>2. got' \in [Sessions -> Summary]
    BY <1>0, <2>1 DEF TypeOK, ReadResults
  <2>3. at' \in [Sessions -> At]
    BY <1>0 DEF TypeOK, ReadResults, At
  <2>4. UNCHANGED <<row, request, answer, execution, forgotten, results, event, aged,
                    kind, cur, view, seen, todo, tx, completed, emails, overlapped>>
    BY DEF ReadResults, tableVars, cloudVars, outVars
  <2>5. QED
    BY <1>0, <2>2, <2>3, <2>4 DEF TypeOK
<1>2. RowsExist'
  BY <1>0 DEF TypeOK, RowsExist, Working, ReadResults, tableVars, cloudVars, sessionVars, outVars
<1>3. KeysUnique'
  BY <1>0 DEF TypeOK, KeysUnique, Rows, ReadResults, tableVars, cloudVars, sessionVars, outVars
<1>4. SummariesAgree'
  BY <1>0 DEF TypeOK, RowsExist, SummariesAgree, Working, Rows, ReadResults, tableVars, cloudVars, sessionVars, outVars
<1>5. CommittedFirst'
  BY <1>0 DEF TypeOK, RowsExist, CommittedFirst, Working, ReadResults, tableVars, cloudVars, sessionVars, outVars
<1>6. PublishedIsDurable'
  BY <1>0 DEF TypeOK, RowsExist, PublishedIsDurable, ReadResults, tableVars, cloudVars, sessionVars, outVars
<1>7. QED
  BY <1>1, <1>2, <1>3, <1>4, <1>5, <1>6 DEF IInv

\* A session that ends, or goes on with the sweep, leaves the invariant to the
\* table's changes, which touch neither finalized_at nor a summary.
LEMMA LeavingKeeps ==
  ASSUME IInv, NEW s \in Sessions, at[s] \in Working \cup {"next"},
         EndSession(s) \/ (at[s] \in Working /\ \E open \in BOOLEAN : Resume(s, open)),
         row' \in [Runs -> Row \cup {NoRow}], Rows' = Rows,
         \A r \in Rows : /\ row'[r].summary = row[r].summary
                         /\ row'[r].finalized = row[r].finalized,
         event' \in [Runs -> {"none", "queued", "acked"}],
         completed' \in [Runs -> [Terminal -> Nat]], emails' \in [Runs -> Nat],
         UNCHANGED <<request, answer, execution, forgotten, results, aged, overlapped>>,
         PublishedIsDurable'
  PROVE  IInv'
<1> USE RunsAssumption, NoRowAssumption
<1>0. TypeOK /\ RowsExist /\ KeysUnique /\ SummariesAgree /\ CommittedFirst
      /\ PublishedIsDurable
  BY DEF IInv
<1>a. /\ at' \in [Sessions -> At] /\ kind' \in [Sessions -> {"push", "sweep"}]
      /\ cur' \in [Sessions -> Runs \cup {NoRun}] /\ todo' \in [Sessions -> SUBSET Runs]
      /\ seen' \in [Sessions -> ExecutionStatus] /\ got' \in [Sessions -> Summary]
      /\ tx' \in [Sessions -> BOOLEAN]
  <2> USE DEF TypeOK, At, ExecutionStatus, Execution, Summary
  <2>1. CASE EndSession(s)
    BY <2>1, <1>0 DEF EndSession
  <2>2. CASE \E open \in BOOLEAN : Resume(s, open)
    BY <2>2, <1>0 DEF Resume
  <2>3. QED
    BY <2>1, <2>2
<1>b. view' \in [Sessions -> [Runs -> Row \cup {NoRow}]]
  <2>1. CASE EndSession(s)
    BY <2>1, <1>0 DEF TypeOK, EndSession, Nothing
  <2>2. CASE at[s] \in Working /\ \E open \in BOOLEAN : Resume(s, open)
    BY <2>2, <1>0 DEF TypeOK, Resume, RowsExist
  <2>3. QED
    BY <2>1, <2>2
<1>c. \A t \in Sessions \ {s} : at'[t] = at[t] /\ cur'[t] = cur[t] /\ view'[t] = view[t]
                                /\ got'[t] = got[t] /\ todo'[t] = todo[t]
  BY <1>0 DEF TypeOK, EndSession, Resume
<1>d. /\ at'[s] \in {"idle", "next"} /\ (at'[s] = "idle" => todo'[s] = {})
      /\ \A r \in todo'[s] : r \in todo[s] /\ view'[s][r] = view[s][r]
  <2>1. CASE EndSession(s)
    BY <2>1, <1>0 DEF TypeOK, EndSession
  <2>2. CASE at[s] \in Working /\ \E open \in BOOLEAN : Resume(s, open)
    BY <2>2, <1>0 DEF TypeOK, Resume, RowsExist
  <2>3. QED
    BY <2>1, <2>2
<1>e. \A r \in Runs : (row[r] \in Row <=> row'[r] \in Row) /\ (row[r] = NoRow <=> row'[r] = NoRow)
  BY <1>0 DEF TypeOK, Rows
<1>1. TypeOK'
  BY <1>0, <1>a, <1>b DEF TypeOK
<1>2. RowsExist'
  <2>1. \A t \in Sessions \ {s} :
          /\ at'[t] \in Working =>
               /\ cur'[t] \in Runs \ todo'[t]
               /\ row'[cur'[t]] \in Row /\ view'[t][cur'[t]] \in Row
          /\ at'[t] = "idle" => todo'[t] = {}
          /\ \A r \in todo'[t] : row'[r] \in Row /\ view'[t][r] \in Row
    BY <1>0, <1>c, <1>e DEF TypeOK, RowsExist
  <2>2. /\ at'[s] \notin Working
        /\ at'[s] = "idle" => todo'[s] = {}
        /\ \A r \in todo'[s] : row'[r] \in Row /\ view'[s][r] \in Row
    BY <1>0, <1>d, <1>e DEF TypeOK, RowsExist, Working
  <2>3. \A r \in Runs :
          /\ request'[r] \in {"dispatching", "triggered", "refused", "crashed"} => row'[r] \in Row
          /\ request'[r] \in {"idle", "checked"} => row'[r] = NoRow
          /\ execution'[r] # "none" => row'[r] \in Row
    BY <1>0, <1>e DEF RowsExist
  <2>4. QED
    BY <2>1, <2>2, <2>3 DEF RowsExist, Working
<1>3. KeysUnique'
  BY <1>0 DEF KeysUnique
<1>4. SummariesAgree'
  BY <1>0, <1>c, <1>d DEF SummariesAgree
<1>5. CommittedFirst'
  <2> SUFFICES ASSUME NEW t \in Sessions, at'[t] \in {"publish", "notify"}
               PROVE  /\ view'[t][cur'[t]].status \in Terminal
                      /\ row'[cur'[t]].finalized
                      /\ view'[t][cur'[t]].status = "succeeded" => row'[cur'[t]].summary = "ok"
    BY DEF CommittedFirst
  <2>1. t # s
    BY <1>d
  <2>2. cur[t] \in Rows
    BY <1>0, <1>c, <2>1 DEF TypeOK, RowsExist, Rows, Working
  <2>3. QED
    BY <1>0, <1>c, <2>1, <2>2 DEF CommittedFirst
<1>6. QED
  BY <1>1, <1>2, <1>3, <1>4, <1>5 DEF IInv

LEMMA SweepEndKeeps ==
  ASSUME IInv, NEW s \in Sessions, SweepEnd(s)
  PROVE  IInv'
<1>0. TypeOK /\ RowsExist /\ PublishedIsDurable
  BY DEF IInv
<1>1. at[s] \in Working \cup {"next"}
  BY <1>0 DEF TypeOK, SweepEnd, At, Working
<1>2. EndSession(s) \/ (at[s] \in Working /\ \E open \in BOOLEAN : Resume(s, open))
  BY <1>0 DEF TypeOK, SweepEnd, Finish, Working
<1>3. event' \in [Runs -> {"none", "queued", "acked"}]
  BY <1>0 DEF TypeOK, RowsExist, Working, SweepEnd, Finish, cloudVars
<1>4. /\ row' = row /\ completed' = completed /\ emails' \in [Runs -> Nat]
      /\ UNCHANGED <<request, answer, execution, forgotten, results, aged, overlapped>>
  BY <1>0 DEF TypeOK, RowsExist, Working, SweepEnd, tableVars, cloudVars, outVars
<1>5. PublishedIsDurable' /\ Rows' = Rows
  BY <1>0, <1>4 DEF PublishedIsDurable, Rows
<1>6. QED
  BY <1>0, <1>1, <1>2, <1>3, <1>4, <1>5, LeavingKeeps DEF TypeOK

LEMMA StillGoingKeeps ==
  ASSUME IInv, NEW s \in Sessions, StillGoing(s)
  PROVE  IInv'
<1>0. TypeOK /\ RowsExist /\ PublishedIsDurable
  BY DEF IInv
<1>1. at[s] \in Working \cup {"next"}
  BY <1>0 DEF TypeOK, StillGoing, At, Working
<1>2. EndSession(s) \/ (at[s] \in Working /\ \E open \in BOOLEAN : Resume(s, open))
  BY <1>0 DEF TypeOK, StillGoing, Finish, Working
<1>3. event' \in [Runs -> {"none", "queued", "acked"}]
  BY <1>0 DEF TypeOK, RowsExist, Working, StillGoing, Finish, cloudVars
<1>4. /\ row' = row /\ completed' = completed /\ emails' \in [Runs -> Nat]
      /\ UNCHANGED <<request, answer, execution, forgotten, results, aged, overlapped>>
  BY <1>0 DEF TypeOK, RowsExist, Working, StillGoing, tableVars, cloudVars, outVars
<1>5. PublishedIsDurable' /\ Rows' = Rows
  BY <1>0, <1>4 DEF PublishedIsDurable, Rows
<1>6. QED
  BY <1>0, <1>1, <1>2, <1>3, <1>4, <1>5, LeavingKeeps DEF TypeOK

LEMMA NotifyKeeps ==
  ASSUME IInv, NEW s \in Sessions, Notify(s)
  PROVE  IInv'
<1>0. TypeOK /\ RowsExist /\ PublishedIsDurable
  BY DEF IInv
<1>1. at[s] \in Working \cup {"next"}
  BY <1>0 DEF TypeOK, Notify, At, Working
<1>2. EndSession(s) \/ (at[s] \in Working /\ \E open \in BOOLEAN : Resume(s, open))
  BY <1>0 DEF TypeOK, Notify, Finish, Working
<1>3. event' \in [Runs -> {"none", "queued", "acked"}]
  BY <1>0 DEF TypeOK, RowsExist, Working, Notify, Finish, cloudVars
<1>4. /\ row' = row /\ completed' = completed /\ emails' \in [Runs -> Nat]
      /\ UNCHANGED <<request, answer, execution, forgotten, results, aged, overlapped>>
  <2>1. emails' = emails \/ emails' = [emails EXCEPT ![cur[s]] = @ + 1]
    BY DEF Notify
  <2>2. cur[s] \in Runs
    BY <1>0 DEF Notify, RowsExist, Working
  <2>3. emails \in [Runs -> Nat]
    BY <1>0 DEF TypeOK
  <2>4. emails' \in [Runs -> Nat]
    <3>1. CASE emails' = emails
      BY <2>3, <3>1
    <3>2. CASE emails' = [emails EXCEPT ![cur[s]] = @ + 1]
      BY <2>2, <2>3, <3>2
    <3>3. QED
      BY <2>1, <3>1, <3>2
  <2>5. QED
    BY <2>4 DEF Notify, tableVars
<1>5. PublishedIsDurable' /\ Rows' = Rows
  BY <1>0, <1>4 DEF PublishedIsDurable, Rows
<1>6. QED
  BY <1>0, <1>1, <1>2, <1>3, <1>4, <1>5, LeavingKeeps DEF TypeOK

LEMMA PushErrorKeeps ==
  ASSUME IInv, NEW s \in Sessions, PushError(s)
  PROVE  IInv'
<1>0. TypeOK /\ RowsExist /\ PublishedIsDurable
  BY DEF IInv
<1>1. at[s] \in Working \cup {"next"}
  BY <1>0 DEF TypeOK, PushError, At, Working
<1>2. EndSession(s) \/ (at[s] \in Working /\ \E open \in BOOLEAN : Resume(s, open))
  BY <1>0 DEF TypeOK, PushError, Finish, Working
<1>3. event' \in [Runs -> {"none", "queued", "acked"}]
  BY <1>0 DEF TypeOK, RowsExist, Working, PushError, Finish, cloudVars
<1>4. /\ row' = row /\ completed' = completed /\ emails' \in [Runs -> Nat]
      /\ UNCHANGED <<request, answer, execution, forgotten, results, aged, overlapped>>
  BY <1>0 DEF TypeOK, RowsExist, Working, PushError, tableVars, cloudVars, outVars
<1>5. PublishedIsDurable' /\ Rows' = Rows
  BY <1>0, <1>4 DEF PublishedIsDurable, Rows
<1>6. QED
  BY <1>0, <1>1, <1>2, <1>3, <1>4, <1>5, LeavingKeeps DEF TypeOK

LEMMA SweepErrorKeeps ==
  ASSUME IInv, NEW s \in Sessions, SweepError(s)
  PROVE  IInv'
<1>0. TypeOK /\ RowsExist /\ PublishedIsDurable
  BY DEF IInv
<1>1. at[s] \in Working \cup {"next"}
  BY <1>0 DEF TypeOK, SweepError, At, Working
<1>2. EndSession(s) \/ (at[s] \in Working /\ \E open \in BOOLEAN : Resume(s, open))
  BY <1>0 DEF TypeOK, SweepError, Finish, Working
<1>3. event' \in [Runs -> {"none", "queued", "acked"}]
  BY <1>0 DEF TypeOK, RowsExist, Working, SweepError, Finish, cloudVars
<1>4. /\ row' = row /\ completed' = completed /\ emails' \in [Runs -> Nat]
      /\ UNCHANGED <<request, answer, execution, forgotten, results, aged, overlapped>>
  BY <1>0 DEF TypeOK, RowsExist, Working, SweepError, tableVars, cloudVars, outVars
<1>5. PublishedIsDurable' /\ Rows' = Rows
  BY <1>0, <1>4 DEF PublishedIsDurable, Rows
<1>6. QED
  BY <1>0, <1>1, <1>2, <1>3, <1>4, <1>5, LeavingKeeps DEF TypeOK

LEMMA SessionCrashKeeps ==
  ASSUME IInv, NEW s \in Sessions, SessionCrash(s)
  PROVE  IInv'
<1>0. TypeOK /\ RowsExist /\ PublishedIsDurable
  BY DEF IInv
<1>1. at[s] \in Working \cup {"next"}
  BY <1>0 DEF TypeOK, SessionCrash, At, Working
<1>2. EndSession(s) \/ (at[s] \in Working /\ \E open \in BOOLEAN : Resume(s, open))
  BY <1>0 DEF TypeOK, SessionCrash, Finish, Working
<1>3. event' \in [Runs -> {"none", "queued", "acked"}]
  BY <1>0 DEF TypeOK, RowsExist, Working, SessionCrash, Finish, cloudVars
<1>4. /\ row' = row /\ completed' = completed /\ emails' \in [Runs -> Nat]
      /\ UNCHANGED <<request, answer, execution, forgotten, results, aged, overlapped>>
  BY <1>0 DEF TypeOK, RowsExist, Working, SessionCrash, tableVars, cloudVars, outVars
<1>5. PublishedIsDurable' /\ Rows' = Rows
  BY <1>0, <1>4 DEF PublishedIsDurable, Rows
<1>6. QED
  BY <1>0, <1>1, <1>2, <1>3, <1>4, <1>5, LeavingKeeps DEF TypeOK

LEMMA MarkRunningKeeps ==
  ASSUME IInv, NEW s \in Sessions, MarkRunning(s)
  PROVE  IInv'
<1> USE NoRowAssumption
<1> DEFINE r == cur[s]
<1> DEFINE new == [row[r] EXCEPT !.status = "running"]
<1>0. TypeOK /\ RowsExist /\ PublishedIsDurable
  BY DEF IInv
<1>1. at[s] \in Working /\ r \in Runs /\ row[r] \in Row
  BY <1>0 DEF MarkRunning, RowsExist, Working
<1>2. EndSession(s) \/ \E open \in BOOLEAN : Resume(s, open)
  BY DEF MarkRunning, Finish
<1>3. event' \in [Runs -> {"none", "queued", "acked"}]
  BY <1>0, <1>1 DEF TypeOK, MarkRunning, Finish
<1>4. row' = [row EXCEPT ![r] = new] /\ new \in Row /\ new.summary = row[r].summary
      /\ new.finalized = row[r].finalized
  BY <1>0, <1>1 DEF MarkRunning, TypeOK, Row, RunStatus
<1>5. UNCHANGED <<completed, emails, overlapped, request, answer, execution, forgotten, results,
                aged>>
  BY DEF MarkRunning, outVars
<1> HIDE DEF new
<1>6. /\ row' \in [Runs -> Row \cup {NoRow}] /\ Rows' = Rows
      /\ \A q \in Rows : /\ row'[q].summary = row[q].summary
                         /\ row'[q].finalized = row[q].finalized
  BY <1>0, <1>1, <1>4 DEF TypeOK, Rows
<1>7. PublishedIsDurable'
  BY <1>0, <1>5, <1>6 DEF PublishedIsDurable, Rows
<1>8. QED
  BY <1>0, <1>1, <1>2, <1>3, <1>5, <1>6, <1>7, LeavingKeeps DEF TypeOK

LEMMA PublishKeeps ==
  ASSUME IInv, NEW s \in Sessions, Publish(s)
  PROVE  IInv'
<1> DEFINE r == cur[s]
<1> DEFINE t == view[s][r].status
<1>0. TypeOK /\ RowsExist /\ KeysUnique /\ SummariesAgree /\ CommittedFirst
      /\ PublishedIsDurable
  BY DEF IInv
<1>1. at[s] \in Working /\ r \in Runs /\ row[r] \in Row /\ t \in Terminal
  BY <1>0 DEF Publish, RowsExist, CommittedFirst, Working
<1>2. row[r].finalized /\ (t = "succeeded" => row[r].summary = "ok")
  BY <1>0 DEF Publish, CommittedFirst
<1>3. completed' = completed \/ completed' = [completed EXCEPT ![r][t] = @ + 1]
  BY DEF Publish
<1> HIDE DEF t
<1>4. /\ completed' \in [Runs -> [Terminal -> Nat]]
      /\ \A q \in Runs, u \in Terminal :
           completed'[q][u] # completed[q][u] => q = r /\ u = t
  <2>1. completed \in [Runs -> [Terminal -> Nat]]
    BY <1>0 DEF TypeOK
  <2>2. CASE completed' = completed
    BY <2>1, <2>2
  <2>3. CASE completed' = [completed EXCEPT ![r][t] = @ + 1]
    <3> DEFINE counts == [completed[r] EXCEPT ![t] = completed[r][t] + 1]
    <3>1. completed' = [completed EXCEPT ![r] = counts]
      BY <2>3
    <3>2. counts \in [Terminal -> Nat] /\ \A u \in Terminal \ {t} : counts[u] = completed[r][u]
      BY <1>1, <2>1
    <3> HIDE DEF counts
    <3>3. QED
      BY <1>1, <2>1, <3>1, <3>2
  <2>4. QED
    BY <1>3, <2>2, <2>3
<1>5. UNCHANGED <<row, request, answer, emails, execution, forgotten, results, aged, overlapped>>
  BY DEF Publish, tableVars
<1>6. PublishedIsDurable'
  <2> SUFFICES ASSUME NEW q \in Runs, NEW u \in Terminal, completed'[q][u] > 0
               PROVE  /\ row[q] # NoRow /\ row[q].finalized
                      /\ u = "succeeded" => row[q].summary = "ok"
    BY <1>5 DEF PublishedIsDurable
  <2>1. CASE completed'[q][u] = completed[q][u]
    BY <1>0, <2>1 DEF PublishedIsDurable
  <2>2. CASE completed'[q][u] # completed[q][u]
    BY <1>1, <1>2, <1>4, <2>2, NoRowAssumption
  <2>3. QED
    BY <2>1, <2>2
<1>7. CASE kind[s] = "push" /\ r \in Requested
  <2>1. at' = [at EXCEPT ![s] = "notify"] /\ UNCHANGED <<kind, cur, view, seen, got, todo, tx, event>>
    BY <1>7 DEF Publish
  <2>2. TypeOK'
    BY <1>0, <1>4, <1>5, <2>1 DEF TypeOK, At
  <2>3. RowsExist' /\ KeysUnique'
    BY <1>0, <1>1, <1>5, <2>1 DEF TypeOK, RowsExist, KeysUnique, Rows, Working
  <2>4. SummariesAgree' /\ CommittedFirst'
    BY <1>0, <1>1, <1>5, <2>1 DEF TypeOK, SummariesAgree, CommittedFirst, Rows, Publish
  <2>5. QED
    BY <1>6, <2>2, <2>3, <2>4 DEF IInv
<1>8. CASE ~(kind[s] = "push" /\ r \in Requested)
  <2>1. Finish(s, tx[s])
    BY <1>8 DEF Publish
  <2>2. EndSession(s) \/ \E open \in BOOLEAN : Resume(s, open)
    BY <2>1, <1>0 DEF TypeOK, Finish
  <2>3. event' \in [Runs -> {"none", "queued", "acked"}]
    BY <1>0, <1>1, <2>1 DEF TypeOK, Finish
  <2>4. Rows' = Rows
    BY <1>5 DEF Rows
  <2>5. QED
    BY <1>0, <1>1, <1>4, <1>5, <1>6, <2>2, <2>3, <2>4, LeavingKeeps DEF TypeOK
<1>9. QED
  BY <1>7, <1>8

\* What finalize_run's commit writes to the row: its verdict, unless its copy
\* has that already, the summary it read, if any, and finalized_at.
LEMMA CommitWrites ==
  ASSUME TypeOK, RowsExist, NEW s \in Sessions, Commit(s)
  PROVE  \E new \in Row :
           /\ row' = [row EXCEPT ![cur[s]] = new] /\ new.finalized
           /\ new.summary = (IF got[s] = "none" THEN row[cur[s]].summary ELSE got[s])
           /\ new.named = row[cur[s]].named
           /\ new.status \in {row[cur[s]].status, TerminalStatus(seen[s], got[s])}
<1> DEFINE r == cur[s]
<1> DEFINE verdict == TerminalStatus(seen[s], got[s])
<1> DEFINE new == [row[r] EXCEPT
                     !.status = IF verdict = view[s][r].status THEN @ ELSE verdict,
                     !.summary = IF got[s] = "none" THEN @ ELSE got[s],
                     !.finalized = TRUE]
<1>1. r \in Runs /\ row[r] \in Row
  BY DEF Commit, RowsExist, Working
<1>2. verdict \in Terminal
  BY DEF TerminalStatus, Terminal
<1>3. row' = [row EXCEPT ![r].status = IF verdict = view[s][r].status THEN @ ELSE verdict,
                         ![r].summary = IF got[s] = "none" THEN @ ELSE got[s],
                         ![r].finalized = TRUE]
  BY DEF Commit
<1> HIDE DEF verdict
<1>4. row' = [row EXCEPT ![r] = new] /\ new \in Row /\ new.finalized
      /\ new.summary = (IF got[s] = "none" THEN row[r].summary ELSE got[s])
      /\ new.named = row[r].named /\ new.status \in {row[r].status, verdict}
  BY <1>1, <1>2, <1>3 DEF TypeOK, Row, RunStatus
<1> HIDE DEF new
<1>5. QED
  BY <1>4 DEF verdict

LEMMA CommitKeeps ==
  ASSUME IInv, NEW s \in Sessions, Commit(s)
  PROVE  IInv'
<1> USE RunsAssumption, NoRowAssumption
<1>0. TypeOK /\ RowsExist /\ KeysUnique /\ SummariesAgree /\ CommittedFirst
      /\ PublishedIsDurable
  BY DEF IInv
<1> DEFINE r == cur[s]
<1> DEFINE verdict == TerminalStatus(seen[s], got[s])
<1> DEFINE obj == [view[s][r] EXCEPT !.status = verdict, !.finalized = TRUE]
<1>a. r \in Runs /\ row[r] \in Row /\ view[s][r] \in Row
  BY <1>0 DEF Commit, RowsExist, Working
<1>b. verdict \in Terminal /\ (verdict = "succeeded" => got[s] = "ok")
  BY DEF TerminalStatus, Terminal
<1>c. /\ view' = [view EXCEPT ![s][r].status = verdict, ![s][r].finalized = TRUE]
      /\ at[s] = "read" /\ at' = [at EXCEPT ![s] = "publish"] /\ tx' = [tx EXCEPT ![s] = FALSE]
      /\ UNCHANGED <<request, answer, kind, cur, seen, got, todo, execution, forgotten,
                     results, event, aged, completed, emails, overlapped>>
  BY DEF Commit, cloudVars, outVars
<1> HIDE DEF verdict
<1>d. PICK new \in Row : /\ row' = [row EXCEPT ![r] = new] /\ new.finalized
                        /\ new.summary = (IF got[s] = "none" THEN row[r].summary ELSE got[s])
  BY <1>0, CommitWrites
<1>e. view' = [view EXCEPT ![s] = [view[s] EXCEPT ![r] = obj]] /\ obj \in Row /\ obj.status = verdict
  <2>1. view[s] \in [Runs -> Row \cup {NoRow}]
    BY <1>0 DEF TypeOK
  <2>2. obj \in Row /\ obj.status = verdict
    BY <1>a, <1>b DEF Row, RunStatus
  <2>3. view' = [view EXCEPT ![s] = [view[s] EXCEPT ![r] = obj]]
    BY <1>0, <1>a, <1>c, <2>1 DEF TypeOK
  <2>4. QED
    BY <2>2, <2>3
<1>f. got[s] \in {"none", results[r]} /\ row[r].summary \in {"none", results[r]}
  BY <1>0, <1>a, <1>c, NoRowAssumption DEF SummariesAgree, Rows
<1> HIDE DEF obj
<1>g. /\ row' \in [Runs -> Row \cup {NoRow}] /\ Rows' = Rows
      /\ \A q \in Runs : row'[q] = IF q = r THEN new ELSE row[q]
  BY <1>0, <1>a, <1>d, NoRowAssumption DEF TypeOK, Rows
<1>h. /\ view' \in [Sessions -> [Runs -> Row \cup {NoRow}]]
      /\ view'[s][r] = obj
      /\ \A t \in Sessions, q \in Runs : view[t][q] \in Row => view'[t][q] \in Row
      /\ \A t \in Sessions \ {s} : view'[t] = view[t]
  BY <1>0, <1>a, <1>e DEF TypeOK
<1>1. TypeOK'
  BY <1>0, <1>c, <1>g, <1>h DEF TypeOK, At
<1>2. RowsExist'
  <2>1. \A q \in Runs : (row[q] \in Row => row'[q] \in Row) /\ (row'[q] = NoRow <=> row[q] = NoRow)
    BY <1>a, <1>d, <1>g
  <2>2. \A q \in Runs :
          /\ request'[q] \in {"dispatching", "triggered", "refused", "crashed"} => row'[q] \in Row
          /\ request'[q] \in {"idle", "checked"} => row'[q] = NoRow
          /\ execution'[q] # "none" => row'[q] \in Row
    BY <1>0, <1>c, <2>1 DEF RowsExist
  <2>3. \A t \in Sessions :
          /\ at'[t] \in Working <=> at[t] \in Working
          /\ at'[t] = "idle" => at[t] = "idle"
    BY <1>0, <1>c DEF TypeOK, Working
  <2>4. \A t \in Sessions : todo[t] \subseteq Runs
    BY <1>0 DEF TypeOK
  <2>5. QED
    BY <1>0, <1>c, <1>h, <2>1, <2>2, <2>3, <2>4 DEF RowsExist
<1>3. KeysUnique'
  BY <1>0, <1>c, <1>g DEF KeysUnique
<1>4. SummariesAgree'
  <2>1. \A q \in Rows' : row'[q].summary \in {"none", results'[q]}
    BY <1>0, <1>c, <1>d, <1>f, <1>g DEF SummariesAgree, Rows
  <2>2. \A t \in Sessions : at'[t] = "read" => got'[t] \in {"none", results'[cur'[t]]}
    BY <1>0, <1>c DEF TypeOK, SummariesAgree
  <2>3. QED
    BY <2>1, <2>2 DEF SummariesAgree
<1>5. CommittedFirst'
  BY <1>0, <1>a, <1>b, <1>c, <1>d, <1>e, <1>f, <1>g, <1>h DEF TypeOK, RowsExist, CommittedFirst, Working
<1>6. PublishedIsDurable'
  BY <1>0, <1>a, <1>c, <1>d, <1>f, <1>g, NoRowAssumption DEF TypeOK, PublishedIsDurable, SummariesAgree, Rows
<1>7. QED
  BY <1>1, <1>2, <1>3, <1>4, <1>5, <1>6 DEF IInv

LEMMA StutterKeeps ==
  ASSUME IInv, UNCHANGED vars
  PROVE  IInv'
<1>1. UNCHANGED <<row, request, answer, execution, forgotten, results, event, aged, at,
                  kind, cur, view, seen, got, todo, tx, completed, emails, overlapped>>
  BY DEF vars, tableVars, cloudVars, sessionVars, outVars
<1>2. QED
  BY <1>1 DEF IInv, TypeOK, RowsExist, KeysUnique, SummariesAgree, CommittedFirst,
             PublishedIsDurable, Rows, Working

LEMMA NextKeeps == IInv /\ [Next]_vars => IInv'
<1> SUFFICES ASSUME IInv, [Next]_vars PROVE IInv'
  OBVIOUS
<1>1. ASSUME NEW r \in Runs, CreateRun(r) PROVE IInv'
  BY <1>1, CheckParentKeeps, InsertKeeps, DeduplicateKeeps, TriggerKeeps,
     RecordFailureKeeps, RecordExecutionKeeps, CreateCrashKeeps DEF CreateRun
<1>2. ASSUME NEW r \in Runs, Platform(r) PROVE IInv'
  BY <1>2, StartExecutionKeeps, WriteSummaryKeeps, CompleteExecutionKeeps,
     ForgetExecutionKeeps, AgeKeeps DEF Platform
<1>3. ASSUME NEW s \in Sessions, Finalize(s) PROVE IInv'
  BY <1>3, PollKeeps, StillGoingKeeps, MarkRunningKeeps, ReadResultsKeeps,
     CommitKeeps, PublishKeeps, NotifyKeeps DEF Finalize
<1>4. ASSUME NEW s \in Sessions, Session(s) PROVE IInv'
  BY <1>3, <1>4, PushFindsKeeps, SweepLoadKeeps, SweepVisitKeeps, SweepEndKeeps,
     PushErrorKeeps, SweepErrorKeeps, SessionCrashKeeps DEF Session
<1>5. QED
  BY <1>1, <1>2, <1>4, PushMissesKeeps, StutterKeeps DEF Next

LEMMA Inductive == Spec => []IInv
<1>1. QED
  BY InitIInv, NextKeeps, PTL DEF Spec

\* Every variable keeps its type: the tables, the platform's view of the runs,
\* the sessions and what they publish.
THEOREM TypeCorrect == Spec => []TypeOK
<1>1. IInv => TypeOK
  BY DEF IInv
<1>2. QED
  BY <1>1, Inductive, PTL

\* However many sessions finalize a run at once, and wherever they crash, an
\* event that announces it finds the terminal row committed, and a success
\* finds the summary its actions are read from.
THEOREM Durable == Spec => []PublishedIsDurable
<1>1. IInv => PublishedIsDurable
  BY DEF IInv
<1>2. QED
  BY <1>1, Inductive, PTL

\* Two requests that carry one dedupe key are answered with one run, whatever
\* happens to the requests between.
THEOREM Agreement == Spec => []AnswersAgree
<1>1. IInv => AnswersAgree
  <2> SUFFICES ASSUME IInv, NEW p \in Runs, NEW q \in Runs,
                      KeyOf[p] = KeyOf[q], KeyOf[p] # NoKey,
                      answer[p] # NoRun, answer[q] # NoRun
               PROVE  answer[p] = answer[q]
    BY DEF AnswersAgree
  <2>1. /\ answer[p] \in Rows /\ KeyOf[answer[p]] = KeyOf[p]
        /\ answer[q] \in Rows /\ KeyOf[answer[q]] = KeyOf[q]
    BY DEF IInv, KeysUnique
  <2>2. QED
    BY <2>1 DEF IInv, KeysUnique
<1>2. QED
  BY <1>1, Inductive, PTL

\* One dedupe key never has two executions, though dispatches fail or crash.
THEOREM OnePerKey == Spec => []OneExecutionPerKey
<1>1. IInv => OneExecutionPerKey
  <2> SUFFICES ASSUME IInv, NEW p \in Runs, NEW q \in Runs,
                      KeyOf[p] = KeyOf[q], KeyOf[p] # NoKey,
                      execution[p] # "none", execution[q] # "none"
               PROVE  p = q
    BY DEF OneExecutionPerKey
  <2>1. p \in Rows /\ q \in Rows
    BY NoRowAssumption DEF IInv, RowsExist, Rows
  <2>2. QED
    BY <2>1 DEF IInv, KeysUnique
<1>2. QED
  BY <1>1, Inductive, PTL

\* What a step does to a row that is finalized: it stays so, with its summary.
Settled(r) ==
  row[r] # NoRow /\ row[r].finalized =>
    /\ row'[r] # NoRow /\ row'[r].finalized
    /\ row[r].summary # "none" => row'[r].summary = row[r].summary

LEMMA RewriteSettles ==
  ASSUME TypeOK, NEW q \in Runs, NEW new \in Row, row' = [row EXCEPT ![q] = new],
         row[q] # NoRow /\ row[q].finalized =>
           /\ new.finalized
           /\ row[q].summary # "none" => new.summary = row[q].summary
  PROVE  \A r \in Runs : Settled(r)
<1>1. \A r \in Runs : row'[r] = IF r = q THEN new ELSE row[r]
  BY DEF TypeOK
<1>2. QED
  BY <1>1, NoRowAssumption DEF Settled

LEMMA StepSettles ==
  ASSUME IInv, [Next]_vars
  PROVE  \A r \in Runs : Settled(r)
<1> USE NoRowAssumption
<1>0. TypeOK /\ RowsExist /\ SummariesAgree
  BY DEF IInv
<1>1. CASE row' = row
  BY <1>1 DEF Settled
<1>2. ASSUME NEW q \in Runs, Insert(q) PROVE \A r \in Runs : Settled(r)
  <2>1. row[q] = NoRow
    BY <1>0, <1>2 DEF Insert, ReadyToInsert, RowsExist
  <2>2. \A r \in Runs \ {q} : row'[r] = row[r]
    BY <1>0, <1>2 DEF TypeOK, Insert
  <2>3. QED
    BY <2>1, <2>2 DEF Settled
<1>3. ASSUME NEW q \in Runs, RecordFailure(q) PROVE \A r \in Runs : Settled(r)
  <2> DEFINE new == [row[q] EXCEPT !.status = "failed"]
  <2>1. row[q] \in Row
    BY <1>0, <1>3 DEF RecordFailure, RowsExist
  <2>2. /\ row' = [row EXCEPT ![q] = new] /\ new \in Row
        /\ new.summary = row[q].summary /\ new.finalized = row[q].finalized
    BY <1>0, <1>3, <2>1 DEF RecordFailure, TypeOK, Row, RunStatus, Terminal
  <2> HIDE DEF new
  <2>3. QED
    BY <1>0, <2>2, RewriteSettles
<1>4. ASSUME NEW q \in Runs, RecordExecution(q) PROVE \A r \in Runs : Settled(r)
  <2> DEFINE new == [row[q] EXCEPT !.named = TRUE]
  <2>1. row[q] \in Row
    BY <1>0, <1>4 DEF RecordExecution, RowsExist
  <2>2. /\ row' = [row EXCEPT ![q] = new] /\ new \in Row
        /\ new.summary = row[q].summary /\ new.finalized = row[q].finalized
    BY <1>0, <1>4, <2>1 DEF RecordExecution, TypeOK, Row
  <2> HIDE DEF new
  <2>3. QED
    BY <1>0, <2>2, RewriteSettles
<1>5. ASSUME NEW s \in Sessions, MarkRunning(s) PROVE \A r \in Runs : Settled(r)
  <2> DEFINE q == cur[s]
  <2> DEFINE new == [row[q] EXCEPT !.status = "running"]
  <2>1. q \in Runs /\ row[q] \in Row
    BY <1>0, <1>5 DEF MarkRunning, RowsExist, Working
  <2>2. /\ row' = [row EXCEPT ![q] = new] /\ new \in Row
        /\ new.summary = row[q].summary /\ new.finalized = row[q].finalized
    BY <1>0, <1>5, <2>1 DEF MarkRunning, TypeOK, Row, RunStatus
  <2> HIDE DEF new
  <2>3. QED
    BY <1>0, <2>1, <2>2, RewriteSettles
<1>6. ASSUME NEW s \in Sessions, Commit(s) PROVE \A r \in Runs : Settled(r)
  <2> DEFINE q == cur[s]
  <2>1. PICK new \in Row : /\ row' = [row EXCEPT ![q] = new] /\ new.finalized
                           /\ new.summary = (IF got[s] = "none" THEN row[q].summary ELSE got[s])
    BY <1>0, <1>6, CommitWrites
  <2>2. q \in Runs /\ q \in Rows
    BY <1>0, <1>6 DEF Commit, RowsExist, Working, Rows
  <2>3. got[s] \in {"none", results[q]} /\ row[q].summary \in {"none", results[q]}
    BY <1>0, <1>6, <2>2 DEF Commit, SummariesAgree
  <2>4. QED
    BY <1>0, <2>1, <2>2, <2>3, RewriteSettles
<1>7. CASE \E r \in Runs : CreateRun(r)
  <2> SUFFICES ASSUME NEW q \in Runs, CreateRun(q) PROVE \A r \in Runs : Settled(r)
    BY <1>7
  <2>1. CheckParent(q) \/ Deduplicate(q) \/ Trigger(q) \/ CreateCrash(q) => row' = row
    BY DEF CheckParent, Deduplicate, Trigger, CreateCrash
  <2>2. QED
    BY <1>1, <1>2, <1>3, <1>4, <2>1 DEF CreateRun
<1>8. CASE \E r \in Runs : Platform(r) \/ PushMisses(r)
  <2>1. row' = row
    BY <1>8 DEF Platform, PushMisses, StartExecution, WriteSummary, CompleteExecution,
               ForgetExecution, Age, tableVars
  <2>2. QED
    BY <1>1, <2>1
<1>9. CASE \E s \in Sessions : Session(s)
  <2> SUFFICES ASSUME NEW s \in Sessions, Session(s) PROVE \A r \in Runs : Settled(r)
    BY <1>9
  <2>1. MarkRunning(s) \/ Commit(s) \/ row' = row
    BY DEF Session, Finalize, PushFinds, SweepLoad, SweepVisit, SweepEnd, Poll, StillGoing,
           ReadResults, Publish, Notify, PushError, SweepError, SessionCrash, tableVars
  <2>2. QED
    BY <1>1, <1>5, <1>6, <2>1
<1>10. CASE UNCHANGED vars
  BY <1>1, <1>10 DEF vars, tableVars
<1>11. QED
  BY <1>7, <1>8, <1>9, <1>10 DEF Next

\* No push, sweep, dispatch failure or late create_run write, from however
\* stale a session, reopens a finalized row or changes a summary stored in it.
THEOREM Forever == Spec => FinalizedIsForever
<1> DEFINE Keeps == \A r \in Runs : Settled(r)
<1>1. IInv /\ [Next]_vars => [Keeps]_vars
  BY StepSettles
<1>2. [Keeps]_vars => [\A r \in Runs :
       row[r] # NoRow /\ row[r].finalized =>
         /\ row'[r] # NoRow /\ row'[r].finalized
         /\ row[r].summary # "none" => row'[r].summary = row[r].summary]_vars
  BY DEF Settled
<1> HIDE DEF Keeps
<1>3. QED
  BY <1>1, <1>2, Inductive, PTL DEF Spec, FinalizedIsForever

-----------------------------------------------------------------------------
(* One verdict for a run, whoever finalizes it                             *)

Over == {"answered", "rejected", "crashed"}

\* How far the request, the row and the execution of a run can have got.
Begun(r) ==
  /\ request[r] \in {"idle", "checked", "dispatching"} => execution[r] = "none"
  /\ request[r] = "triggered" => execution[r] # "none"
  /\ row[r] # NoRow /\ row[r].named => request[r] = "answered" /\ execution[r] # "none"
  /\ row[r] # NoRow /\ row[r].finalized => request[r] \in Over
  /\ r \in aged => request[r] \in Over /\ row[r] # NoRow
  /\ r \in forgotten => execution[r] \in ExecutionDone
  /\ execution[r] \in {"none", "pending"} => results[r] = "none"

\* A session holds rows only of runs whose create_run is over, so that whether
\* the row has an execution's name does not change any more.
Viewed ==
  /\ \A s \in Sessions, r \in Runs : view[s][r] # NoRow =>
       row[r] # NoRow /\ request[r] \in Over /\ view[s][r].named = row[r].named
  /\ \A s \in Sessions : at[s] = "idle" => view[s] = Nothing

BInv == IInv /\ (\A r \in Runs : Begun(r)) /\ Viewed

LEMMA InitBInv == Init => BInv
<1> SUFFICES ASSUME Init PROVE BInv
  OBVIOUS
<1>1. \A r \in Runs : Begun(r)
  BY DEF Init, Begun, Nothing
<1>2. Viewed
  BY DEF Init, Viewed, Nothing
<1>3. QED
  BY <1>1, <1>2, InitIInv DEF BInv

\* A create_run that goes on works on its own run alone.
LEMMA CreateTouches ==
  ASSUME TypeOK, NEW q \in Runs, CreateRun(q)
  PROVE  /\ request[q] \notin Over
         /\ UNCHANGED <<forgotten, results, aged, sessionVars, outVars>>
         /\ \A r \in Runs \ {q} : request'[r] = request[r] /\ row'[r] = row[r]
                               /\ execution'[r] = execution[r]
<1>1. request[q] \notin Over
  BY DEF CreateRun, CheckParent, Insert, ReadyToInsert, Deduplicate, Trigger, RecordFailure,
         RecordExecution, CreateCrash, Over
<1>2. UNCHANGED <<forgotten, results, aged, sessionVars, outVars>>
  BY DEF CreateRun, CheckParent, Insert, Deduplicate, Trigger, RecordFailure,
         RecordExecution, CreateCrash, cloudVars
<1>3. \A r \in Runs \ {q} : request'[r] = request[r] /\ row'[r] = row[r]
                            /\ execution'[r] = execution[r]
  BY DEF TypeOK, CreateRun, CheckParent, Insert, Deduplicate, Trigger, RecordFailure,
         RecordExecution, CreateCrash, cloudVars
<1>4. QED
  BY <1>1, <1>2, <1>3

\* No session can know of a run whose create_run goes on.
LEMMA CreateBegins ==
  ASSUME BInv, NEW q \in Runs, CreateRun(q)
  PROVE  (\A r \in Runs : Begun(r))' /\ Viewed'
<1> USE NoRowAssumption
<1>0. TypeOK /\ RowsExist /\ (\A r \in Runs : Begun(r)) /\ Viewed
  BY DEF BInv, IInv
<1>1. request[q] \notin Over
  BY <1>0, CreateTouches
<1>2. UNCHANGED <<forgotten, results, aged, at, view>>
  BY <1>0, CreateTouches DEF sessionVars
<1>3. \A r \in Runs \ {q} : request'[r] = request[r] /\ row'[r] = row[r]
                            /\ execution'[r] = execution[r]
  BY <1>0, CreateTouches
<1>4. Begun(q) /\ q \notin aged /\ (row[q] # NoRow => ~row[q].named /\ ~row[q].finalized)
      /\ \A s \in Sessions : view[s][q] = NoRow
  BY <1>0, <1>1 DEF Begun, Viewed, Over
<1>5. Viewed'
  BY <1>0, <1>2, <1>3, <1>4 DEF Viewed
<1>6. Begun(q)'
  <2>1. CASE CheckParent(q) \/ Deduplicate(q) \/ CreateCrash(q)
    <3>1. row' = row /\ execution' = execution /\ request'[q] # "triggered"
          /\ (request'[q] \in {"idle", "checked", "dispatching"} => request[q] = "idle")
      BY <1>0, <2>1 DEF TypeOK, CheckParent, Deduplicate, CreateCrash, cloudVars
    <3>2. QED
      BY <1>2, <1>4, <3>1 DEF Begun
  <2>2. CASE Insert(q)
    <3>1. execution' = execution /\ request'[q] = "dispatching"
          /\ request[q] \in {"idle", "checked"}
      BY <1>0, <2>2 DEF TypeOK, Insert, ReadyToInsert, cloudVars
    <3>2. ~row'[q].named /\ ~row'[q].finalized
      BY <1>0, <2>2 DEF TypeOK, Insert
    <3>3. QED
      BY <1>2, <1>4, <3>1, <3>2 DEF Begun
  <2>3. CASE Trigger(q)
    <3>1. row' = row /\ request'[q] \in {"triggered", "refused"} /\ execution[q] = "none"
      BY <1>0, <1>4, <2>3 DEF TypeOK, Trigger, Begun
    <3>2. /\ request'[q] = "triggered" => execution'[q] = "pending"
          /\ execution'[q] \in {"none", "pending"}
      BY <1>0, <2>3, <3>1 DEF TypeOK, Trigger
    <3>3. QED
      BY <1>2, <1>4, <3>1, <3>2 DEF Begun, ExecutionDone
  <2>4. CASE RecordFailure(q)
    <3>1. row[q] \in Row /\ execution' = execution /\ request'[q] = "rejected"
      BY <1>0, <2>4 DEF TypeOK, RecordFailure, RowsExist, cloudVars
    <3>2. row'[q].named = row[q].named /\ row'[q].finalized = row[q].finalized
      BY <1>0, <2>4, <3>1 DEF TypeOK, RecordFailure, Row
    <3>3. QED
      BY <1>2, <1>4, <3>1, <3>2 DEF Begun
  <2>5. CASE RecordExecution(q)
    <3>1. row[q] \in Row /\ execution' = execution /\ request'[q] = "answered"
          /\ execution[q] # "none"
      BY <1>0, <1>4, <2>5 DEF TypeOK, RecordExecution, RowsExist, cloudVars, Begun
    <3>2. QED
      BY <1>2, <1>4, <3>1 DEF Begun, Over
  <2>6. QED
    BY <2>1, <2>2, <2>3, <2>4, <2>5 DEF CreateRun
<1>7. ASSUME NEW r \in Runs, r # q PROVE Begun(r)'
  BY <1>0, <1>2, <1>3, <1>7 DEF Begun
<1>8. QED
  BY <1>5, <1>6, <1>7

LEMMA PlatformBegins ==
  ASSUME BInv, NEW q \in Runs, Platform(q) \/ PushMisses(q)
  PROVE  (\A r \in Runs : Begun(r))' /\ Viewed'
<1>0. TypeOK /\ RowsExist /\ (\A r \in Runs : Begun(r)) /\ Viewed
  BY DEF BInv, IInv
<1>1. UNCHANGED <<row, request, at, view>>
  BY DEF Platform, StartExecution, WriteSummary, CompleteExecution, ForgetExecution, Age,
         PushMisses, tableVars, sessionVars
<1>2. Viewed'
  BY <1>0, <1>1 DEF Viewed
<1>3. ASSUME NEW r \in Runs PROVE Begun(r)'
  <2>0. Begun(r)
    BY <1>0
  <2>1. CASE StartExecution(q)
    <3>1. /\ execution'[r] = execution[r] \/ (execution[r] = "pending" /\ execution'[r] = "running")
          /\ UNCHANGED <<forgotten, results, aged>>
      BY <1>0, <2>1 DEF TypeOK, StartExecution
    <3>2. QED
      BY <1>1, <2>0, <3>1 DEF Begun, ExecutionDone, Over
  <2>2. CASE WriteSummary(q)
    <3>1. /\ results'[r] = results[r] \/ execution[r] = "running"
          /\ UNCHANGED <<forgotten, execution, aged>>
      BY <1>0, <2>2 DEF TypeOK, WriteSummary
    <3>2. QED
      BY <1>1, <2>0, <3>1 DEF Begun
  <2>3. CASE CompleteExecution(q)
    <3>1. /\ \/ execution'[r] = execution[r]
             \/ execution[r] \in {"pending", "running"} /\ execution'[r] \in ExecutionDone
          /\ UNCHANGED <<forgotten, results, aged>>
      BY <1>0, <2>3 DEF TypeOK, CompleteExecution, ExecutionDone
    <3>2. QED
      BY <1>1, <2>0, <3>1 DEF Begun, ExecutionDone
  <2>4. CASE ForgetExecution(q)
    <3>1. /\ r \in forgotten' => r \in forgotten \/ execution[r] \in ExecutionDone
          /\ UNCHANGED <<execution, results, aged>>
      BY <2>4 DEF ForgetExecution
    <3>2. QED
      BY <1>1, <2>0, <3>1 DEF Begun
  <2>5. CASE Age(q)
    <3>1. /\ r \in aged' => r \in aged \/ (request[r] \in Over /\ row[r] # NoRow)
          /\ UNCHANGED <<execution, results, forgotten>>
      BY <2>5 DEF Age, Over, Rows
    <3>2. QED
      BY <1>1, <2>0, <3>1 DEF Begun
  <2>6. CASE PushMisses(q)
    BY <1>1, <2>0, <2>6 DEF Begun, PushMisses
  <2>7. QED
    BY <2>1, <2>2, <2>3, <2>4, <2>5, <2>6 DEF Platform
<1>4. QED
  BY <1>2, <1>3

\* What a session's step may do to rows: never their execution's name, and
\* finalized_at only in the commit of the run at hand.
LEMMA SessionRows ==
  ASSUME IInv, NEW s \in Sessions, Session(s), NEW r \in Runs
  PROVE  /\ row'[r] = NoRow <=> row[r] = NoRow
         /\ row[r] # NoRow => row'[r].named = row[r].named
         /\ row[r] # NoRow /\ row'[r].finalized => row[r].finalized \/ (Commit(s) /\ r = cur[s])
<1> USE NoRowAssumption
<1>0. TypeOK /\ RowsExist
  BY DEF IInv
<1>1. CASE MarkRunning(s)
  <2> DEFINE new == [row[cur[s]] EXCEPT !.status = "running"]
  <2>1. cur[s] \in Runs /\ row[cur[s]] \in Row
    BY <1>0, <1>1 DEF MarkRunning, RowsExist, Working
  <2>2. /\ row' = [row EXCEPT ![cur[s]] = new] /\ new \in Row
        /\ new.named = row[cur[s]].named /\ new.finalized = row[cur[s]].finalized
    BY <1>0, <1>1, <2>1 DEF MarkRunning, TypeOK, Row, RunStatus
  <2> HIDE DEF new
  <2>3. row'[r] = IF r = cur[s] THEN new ELSE row[r]
    BY <1>0, <2>2 DEF TypeOK
  <2>4. QED
    BY <2>1, <2>2, <2>3
<1>2. CASE Commit(s)
  <2>1. PICK new \in Row : row' = [row EXCEPT ![cur[s]] = new] /\ new.named = row[cur[s]].named
    BY <1>0, <1>2, CommitWrites
  <2>2. cur[s] \in Runs /\ row[cur[s]] \in Row
    BY <1>0, <1>2 DEF Commit, RowsExist, Working
  <2>3. row'[r] = IF r = cur[s] THEN new ELSE row[r]
    BY <1>0, <2>1 DEF TypeOK
  <2>4. QED
    BY <1>2, <2>1, <2>2, <2>3
<1>3. CASE row' = row
  BY <1>3
<1>4. QED
  BY <1>1, <1>2, <1>3 DEF Session, Finalize, PushFinds, SweepLoad, SweepVisit, SweepEnd, Poll,
     StillGoing, ReadResults, Publish, Notify, PushError, SweepError, SessionCrash, tableVars

\* A session's objects are copies of what it held, or of rows that are not
\* finalized yet and whose create_run is over.
Fetched(s, r) ==
  /\ view'[s][r] = row[r] /\ row[r] # NoRow /\ ~row[r].finalized
  /\ row[r].named \/ r \in aged

Kept(s, r) == view[s][r] # NoRow /\ view'[s][r].named = view[s][r].named

LEMMA LeavingViews ==
  ASSUME TypeOK, NEW s \in Sessions, EndSession(s) \/ \E open \in BOOLEAN : Resume(s, open)
  PROVE  /\ \A r \in Runs : view'[s][r] # NoRow => view'[s][r] = view[s][r]
         /\ at'[s] \in {"idle", "next"}
         /\ at'[s] = "idle" => view'[s] = Nothing
         /\ \A t \in Sessions \ {s} : /\ view'[t] = view[t] /\ at'[t] = at[t] /\ cur'[t] = cur[t]
                                      /\ seen'[t] = seen[t] /\ got'[t] = got[t]
<1>1. CASE EndSession(s)
  BY <1>1 DEF TypeOK, EndSession, Nothing
<1>2. ASSUME NEW open \in BOOLEAN, Resume(s, open)
      PROVE  /\ \A r \in Runs : view'[s][r] # NoRow => view'[s][r] = view[s][r]
             /\ at'[s] = "next"
             /\ \A t \in Sessions \ {s} : /\ view'[t] = view[t] /\ at'[t] = at[t] /\ cur'[t] = cur[t]
                                          /\ seen'[t] = seen[t] /\ got'[t] = got[t]
  <2>1. view' = [view EXCEPT ![s] = [view[s] EXCEPT ![cur[s]] = NoRow]]
    BY <1>2 DEF Resume
  <2>2. view'[s] = [view[s] EXCEPT ![cur[s]] = NoRow] /\ \A t \in Sessions \ {s} : view'[t] = view[t]
    BY <2>1 DEF TypeOK
  <2>3. \A r \in Runs : view'[s][r] # NoRow => view'[s][r] = view[s][r]
    BY <2>2 DEF TypeOK
  <2>4. QED
    BY <1>2, <2>2, <2>3 DEF TypeOK, Resume
<1>3. QED
  BY <1>1, <1>2

\* The steps by which a session leaves the run at hand, or ends.
Leaves(s) ==
  \/ SweepEnd(s) \/ StillGoing(s) \/ MarkRunning(s) \/ Notify(s)
  \/ Publish(s) /\ at'[s] # "notify"
  \/ PushError(s) \/ SweepError(s) \/ SessionCrash(s)

LEMMA LeavesLeaves ==
  ASSUME TypeOK, NEW s \in Sessions, Leaves(s)
  PROVE  EndSession(s) \/ \E open \in BOOLEAN : Resume(s, open)
<1>1. CASE Publish(s) /\ at'[s] # "notify"
  <2>1. ~(kind[s] = "push" /\ cur[s] \in Requested)
    BY <1>1 DEF Publish, TypeOK
  <2>2. QED
    BY <1>1, <2>1 DEF Publish, Finish, TypeOK
<1>2. CASE ~(Publish(s) /\ at'[s] # "notify")
  BY <1>2 DEF Leaves, SweepEnd, StillGoing, MarkRunning, Notify, PushError, SweepError,
     SessionCrash, Finish, TypeOK
<1>3. QED
  BY <1>1, <1>2

\* The others stay with their runs and their objects, up to what Commit sets.
LEMMA SessionCases ==
  ASSUME NEW s \in Sessions, Session(s)
  PROVE  \/ Leaves(s) \/ Commit(s) \/ SweepLoad(s)
         \/ \E r \in Runs : PushFinds(s, r)
         \/ SweepVisit(s) \/ Poll(s) \/ ReadResults(s)
         \/ Publish(s) /\ at'[s] = "notify"
BY DEF Session, Finalize, Leaves

LEMMA SessionViews ==
  ASSUME IInv, NEW s \in Sessions, Session(s)
  PROVE  /\ \A r \in Runs : view'[s][r] # NoRow => Fetched(s, r) \/ Kept(s, r)
         /\ at'[s] = "idle" => view'[s] = Nothing \/ (at[s] = "idle" /\ view'[s] = view[s])
         /\ \A t \in Sessions \ {s} : /\ view'[t] = view[t] /\ at'[t] = at[t] /\ cur'[t] = cur[t]
                                      /\ seen'[t] = seen[t] /\ got'[t] = got[t]
<1> USE NoRowAssumption
<1>0. TypeOK /\ RowsExist
  BY DEF IInv
<1>1. CASE Leaves(s)
  BY <1>0, <1>1, LeavesLeaves, LeavingViews DEF Kept
<1>2. CASE SweepLoad(s)
  <2>1. PICK loaded \in SUBSET Stale :
          view' = [view EXCEPT ![s] = [r \in Runs |-> IF r \in loaded THEN row[r] ELSE NoRow]]
    BY <1>2 DEF SweepLoad
  <2>2. \A r \in Runs : view'[s][r] # NoRow => Fetched(s, r)
    BY <1>0, <2>1 DEF TypeOK, Stale, Rows, Fetched
  <2>3. QED
    BY <1>0, <1>2, <2>1, <2>2 DEF TypeOK, SweepLoad
<1>3. ASSUME NEW q \in Runs, PushFinds(s, q), ~row[q].finalized
      PROVE  /\ \A r \in Runs : view'[s][r] # NoRow => Fetched(s, r) \/ Kept(s, r)
             /\ at'[s] = "poll"
             /\ \A t \in Sessions \ {s} : /\ view'[t] = view[t] /\ at'[t] = at[t] /\ cur'[t] = cur[t]
                                          /\ seen'[t] = seen[t] /\ got'[t] = got[t]
  <2>1. view' = [view EXCEPT ![s] = [view[s] EXCEPT ![q] = row[q]]]
    BY <1>3 DEF PushFinds
  <2>2. view'[s] = [view[s] EXCEPT ![q] = row[q]] /\ \A t \in Sessions \ {s} : view'[t] = view[t]
    BY <1>0, <2>1 DEF TypeOK
  <2>3. row[q] # NoRow /\ row[q].named
    BY <1>3 DEF PushFinds
  <2>4. \A r \in Runs : view'[s][r] # NoRow => Fetched(s, r) \/ Kept(s, r)
    BY <1>0, <1>3, <2>2, <2>3 DEF TypeOK, Fetched, Kept
  <2>5. QED
    BY <1>0, <1>3, <2>2, <2>4 DEF TypeOK, PushFinds
<1>4. ASSUME NEW q \in Runs, PushFinds(s, q), row[q].finalized
      PROVE  UNCHANGED sessionVars
  BY <1>4 DEF PushFinds
<1>5. CASE Commit(s)
  <2> DEFINE verdict == TerminalStatus(seen[s], got[s])
  <2> DEFINE obj == [view[s][cur[s]] EXCEPT !.status = verdict, !.finalized = TRUE]
  <2>1. cur[s] \in Runs /\ view[s][cur[s]] \in Row
    BY <1>0, <1>5 DEF Commit, RowsExist, Working
  <2>2. view' = [view EXCEPT ![s][cur[s]].status = verdict, ![s][cur[s]].finalized = TRUE]
    BY <1>5 DEF Commit
  <2> HIDE DEF verdict
  <2>3. view' = [view EXCEPT ![s] = [view[s] EXCEPT ![cur[s]] = obj]]
    BY <1>0, <2>1, <2>2 DEF TypeOK
  <2>4. obj.named = view[s][cur[s]].named
    BY <2>1 DEF Row
  <2> HIDE DEF obj
  <2>5. \A r \in Runs : view'[s][r] # NoRow => Kept(s, r)
    BY <1>0, <2>1, <2>3, <2>4 DEF TypeOK, Kept
  <2>6. QED
    BY <1>0, <1>5, <2>3, <2>5 DEF TypeOK, Commit
<1>6. CASE SweepVisit(s) \/ Poll(s) \/ ReadResults(s) \/ (Publish(s) /\ at'[s] = "notify")
  <2>1. view' = view /\ at'[s] # "idle"
    BY <1>0, <1>6 DEF TypeOK, SweepVisit, Poll, ReadResults, Publish, Finish, EndSession, Resume
  <2>2. \A t \in Sessions \ {s} : /\ at'[t] = at[t] /\ cur'[t] = cur[t]
                                  /\ seen'[t] = seen[t] /\ got'[t] = got[t]
    BY <1>0, <1>6 DEF TypeOK, SweepVisit, Poll, ReadResults, Publish, Finish, EndSession, Resume
  <2>3. QED
    BY <2>1, <2>2 DEF Kept
<1>7. QED
  BY <1>1, <1>2, <1>3, <1>4, <1>5, <1>6, SessionCases DEF sessionVars, Kept

LEMMA SessionBegins ==
  ASSUME BInv, NEW s \in Sessions, Session(s)
  PROVE  (\A r \in Runs : Begun(r))' /\ Viewed'
<1>0. IInv /\ (\A r \in Runs : Begun(r)) /\ Viewed
  BY DEF BInv
<1>1. UNCHANGED <<request, execution, results, forgotten, aged>>
  BY DEF Session, Finalize, PushFinds, SweepLoad, SweepVisit, SweepEnd, Poll, StillGoing,
     MarkRunning, ReadResults, Commit, Publish, Notify, PushError, SweepError, SessionCrash,
     tableVars, cloudVars
<1>2. ASSUME NEW r \in Runs PROVE Begun(r)'
  <2>1. CASE row[r] # NoRow /\ row'[r].finalized /\ ~row[r].finalized
    <3>1. r = cur[s] /\ at[s] = "read"
      BY <1>0, <2>1, SessionRows DEF Commit
    <3>2. view[s][r] # NoRow
      BY <1>0, <3>1, NoRowAssumption DEF IInv, RowsExist, Working
    <3>3. request[r] \in Over
      BY <1>0, <3>2 DEF Viewed
    <3>4. QED
      BY <1>0, <1>1, <3>3, SessionRows DEF Begun
  <2>2. CASE ~(row[r] # NoRow /\ row'[r].finalized /\ ~row[r].finalized)
    BY <1>0, <1>1, <2>2, SessionRows DEF Begun
  <2>3. QED
    BY <2>1, <2>2
<1>3. ASSUME NEW t \in Sessions, NEW r \in Runs, view'[t][r] # NoRow
      PROVE  row'[r] # NoRow /\ request'[r] \in Over /\ view'[t][r].named = row'[r].named
  <2>1. CASE view[t][r] # NoRow /\ view'[t][r].named = view[t][r].named
    BY <1>0, <1>1, <2>1, SessionRows DEF Viewed
  <2>2. CASE t = s /\ Fetched(s, r)
    <3>1. request[r] \in Over
      BY <1>0, <2>2 DEF Fetched, Begun, Over
    <3>2. QED
      BY <1>0, <1>1, <2>2, <3>1, SessionRows DEF Fetched
  <2>3. QED
    BY <1>0, <1>3, <2>1, <2>2, SessionViews DEF Kept
<1>4. \A t \in Sessions : at'[t] = "idle" => view'[t] = Nothing
  BY <1>0, SessionViews DEF Viewed
<1>5. QED
  BY <1>2, <1>3, <1>4 DEF Viewed

LEMMA BInvKeeps == BInv /\ [Next]_vars => BInv'
<1> SUFFICES ASSUME BInv, [Next]_vars PROVE BInv'
  OBVIOUS
<1>1. IInv'
  BY NextKeeps DEF BInv
<1>2. CASE UNCHANGED vars
  BY <1>1, <1>2 DEF BInv, Begun, Viewed, vars, tableVars, cloudVars, sessionVars
<1>3. QED
  BY <1>1, <1>2, CreateBegins, PlatformBegins, SessionBegins DEF BInv, Next

\* What a poll of r's row and its execution reports, whether that ends the run,
\* and the status finalize_run then commits.
Status(r) == IF row[r].named THEN StatusOf(r) ELSE "unknown"
Final(r) == Status(r) \in ExecutionDone \cup {"gone", "unknown"}
Verdict(r) == TerminalStatus(Status(r), results[r])

\* Every session that works on a run has come, or will come, to one verdict.
Judged(s) ==
  LET r == cur[s] IN
    /\ at[s] = "polled" /\ seen[s] \notin {"pending", "running"} =>
         seen[s] = Status(r) /\ Final(r)
    /\ at[s] = "read" =>
         /\ seen[s] = Status(r) /\ Final(r)
         /\ row[r].named => got[s] = results[r]
    /\ at[s] \in {"publish", "notify"} =>
         view[s][r].status = Verdict(r) /\ Final(r)

Held(r) == \E s \in Sessions : view[s][r] # NoRow

\* What was announced is that verdict, as long as somebody may announce it again.
Announced ==
  \A r \in Runs, t \in Terminal :
    completed[r][t] > 0 => Final(r) /\ (Held(r) => t = Verdict(r))

VInv == BInv /\ (\A s \in Sessions : Judged(s)) /\ Announced
        /\ CompletionsAgree /\ SuccessIsEarned

\* Once the execution has ended nothing changes the verdict while a session
\* holds the run; Cloud Run may forget the execution only later.
LEMMA VerdictStands ==
  ASSUME BInv, Next, NEW r \in Runs, row[r] # NoRow, request[r] \in Over
  PROVE  /\ row'[r] # NoRow /\ row'[r].named = row[r].named
         /\ Final(r) =>
              /\ Final(r)'
              /\ Held(r) => Verdict(r)' = Verdict(r) /\ Status(r)' = Status(r)
              /\ row[r].named => results'[r] = results[r]
                                 /\ (execution'[r] = execution[r])
<1>0. IInv /\ TypeOK /\ Begun(r) /\ Viewed
  BY DEF BInv, IInv
<1>1. CASE \E q \in Runs : CreateRun(q)
  <2>1. PICK q \in Runs : CreateRun(q)
    BY <1>1
  <2>2. q # r /\ row'[r] = row[r] /\ execution'[r] = execution[r]
        /\ UNCHANGED <<forgotten, results>>
    BY <1>0, <2>1, CreateTouches
  <2>3. QED
    BY <2>2 DEF Final, Verdict, Status, StatusOf
<1>2. CASE \E q \in Runs : Platform(q) \/ PushMisses(q)
  <2>1. PICK q \in Runs : Platform(q) \/ PushMisses(q)
    BY <1>2
  <2>2. row' = row
    BY <2>1 DEF Platform, StartExecution, WriteSummary, CompleteExecution, ForgetExecution, Age,
       PushMisses, tableVars
  <2>3. ASSUME Final(r), row[r].named
        PROVE  /\ execution'[r] = execution[r] /\ results'[r] = results[r]
               /\ r \in forgotten => r \in forgotten'
               /\ Held(r) => (r \in forgotten' => r \in forgotten)
    <3>1. execution[r] \in ExecutionDone
      BY <1>0, <2>3 DEF Final, Status, StatusOf, Begun, TypeOK, Execution
    <3>2. execution'[r] = execution[r] /\ results'[r] = results[r]
      BY <1>0, <2>1, <3>1 DEF TypeOK, Platform, StartExecution, WriteSummary, CompleteExecution,
         ForgetExecution, Age, PushMisses, ExecutionDone
    <3>3. /\ r \in forgotten => r \in forgotten'
          /\ Held(r) => (r \in forgotten' => r \in forgotten)
      BY <2>1 DEF Held, Platform, StartExecution, WriteSummary, CompleteExecution,
         ForgetExecution, Age, PushMisses
    <3>4. QED
      BY <3>2, <3>3
  <2>4. CASE row[r].named
    BY <1>0, <2>2, <2>3, <2>4 DEF Final, Verdict, Status, StatusOf, Begun
  <2>5. CASE ~row[r].named
    BY <2>2, <2>5 DEF Final, Verdict, Status, TerminalStatus
  <2>6. QED
    BY <2>2, <2>4, <2>5
<1>3. CASE \E s \in Sessions : Session(s)
  <2>1. row'[r] # NoRow /\ row'[r].named = row[r].named
    BY <1>0, <1>3, SessionRows
  <2>2. UNCHANGED <<execution, results, forgotten>>
    BY <1>3 DEF Session, Finalize, PushFinds, SweepLoad, SweepVisit, SweepEnd, Poll, StillGoing,
       MarkRunning, ReadResults, Commit, Publish, Notify, PushError, SweepError, SessionCrash,
       cloudVars
  <2>3. QED
    BY <2>1, <2>2 DEF Final, Verdict, Status, StatusOf
<1>4. QED
  BY <1>1, <1>2, <1>3 DEF Next

LEMMA InitVInv == Init => VInv
<1> SUFFICES ASSUME Init PROVE VInv
  OBVIOUS
<1>1. \A s \in Sessions : Judged(s)
  BY DEF Init, Judged
<1>2. Announced /\ CompletionsAgree /\ SuccessIsEarned
  BY DEF Init, Announced, CompletionsAgree, SuccessIsEarned, Terminal
<1>3. QED
  BY <1>1, <1>2, InitBInv DEF VInv

\* A session that stands still keeps its verdict, whatever the others do.
LEMMA BystandersJudge ==
  ASSUME VInv, Next, NEW t \in Sessions,
         view'[t] = view[t], at'[t] = at[t], cur'[t] = cur[t], seen'[t] = seen[t], got'[t] = got[t]
  PROVE  Judged(t)'
<1> DEFINE r == cur[t]
<1>1. BInv /\ Judged(t) /\ RowsExist /\ Viewed
  BY DEF VInv, BInv, IInv
<1>2. CASE at[t] \in Working
  <2>1. r \in Runs /\ view[t][r] # NoRow
    BY <1>1, <1>2, NoRowAssumption DEF RowsExist
  <2>2. row[r] # NoRow /\ request[r] \in Over /\ Held(r)
    BY <1>1, <2>1 DEF Viewed, Held
  <2>3. QED
    BY <1>1, <2>1, <2>2, VerdictStands DEF Judged
<1>3. CASE at[t] \notin Working
  BY <1>3 DEF Judged, Working
<1>4. QED
  BY <1>2, <1>3

\* A session that goes on keeps to the verdict, or first comes to it.
LEMMA WorkerJudges ==
  ASSUME VInv, NEW s \in Sessions, Session(s)
  PROVE  Judged(s)'
<1> USE NoRowAssumption
<1> DEFINE r == cur[s]
<1>0. BInv /\ IInv /\ TypeOK /\ RowsExist /\ Viewed /\ Judged(s) /\ (\A q \in Runs : Begun(q))
  BY DEF VInv, BInv, IInv
<1>a. ASSUME at[s] \in Working
      PROVE  /\ r \in Runs /\ view[s][r] # NoRow /\ row[r] # NoRow
             /\ view[s][r].named = row[r].named /\ Begun(r)
  BY <1>0, <1>a DEF RowsExist, Viewed
<1>1. CASE Leaves(s)
  BY <1>0, <1>1, LeavesLeaves, LeavingViews DEF Judged
<1>2. CASE SweepLoad(s) \/ SweepVisit(s)
  BY <1>0, <1>2 DEF TypeOK, SweepLoad, SweepVisit, Judged
<1>3. CASE \E q \in Runs : PushFinds(s, q)
  BY <1>0, <1>3 DEF TypeOK, PushFinds, sessionVars, Judged
<1>4. CASE Poll(s)
  <2>1. seen'[s] = Status(r) /\ at'[s] = "polled" /\ cur'[s] = r
    BY <1>0, <1>4, <1>a DEF TypeOK, Poll, Working, Status
  <2>2. UNCHANGED <<row, execution, forgotten, results>>
    BY <1>4 DEF Poll, tableVars, cloudVars
  <2>3. Status(r) \notin {"pending", "running"} => Final(r)
    BY <1>0, <1>4, <1>a DEF Poll, Working, Begun, Final, Status, StatusOf, TypeOK, Execution
  <2>4. QED
    BY <2>1, <2>2, <2>3 DEF Judged, Status, StatusOf, Final
<1>5. CASE ReadResults(s)
  <2>1. got'[s] = results[r] /\ at'[s] = "read" /\ cur'[s] = r /\ seen'[s] = seen[s]
    BY <1>0, <1>5 DEF TypeOK, ReadResults
  <2>2. UNCHANGED <<row, execution, forgotten, results>>
    BY <1>5 DEF ReadResults, tableVars, cloudVars
  <2>3. seen[s] = Status(r) /\ Final(r)
    BY <1>0, <1>5 DEF ReadResults, Judged
  <2>4. QED
    BY <2>1, <2>2, <2>3 DEF Judged, Status, StatusOf, Final
<1>6. CASE Commit(s)
  <2> DEFINE verdict == TerminalStatus(seen[s], got[s])
  <2>1. at'[s] = "publish" /\ cur'[s] = r /\ at[s] = "read"
    BY <1>0, <1>6 DEF TypeOK, Commit
  <2>2. view'[s][r].status = verdict
    <3>1. r \in Runs /\ view[s][r] \in Row
      BY <1>0, <2>1 DEF RowsExist, Working
    <3>2. view' = [view EXCEPT ![s][r].status = verdict, ![s][r].finalized = TRUE]
      BY <1>6 DEF Commit
    <3> HIDE DEF verdict
    <3> DEFINE obj == [view[s][r] EXCEPT !.status = verdict, !.finalized = TRUE]
    <3>3. view' = [view EXCEPT ![s] = [view[s] EXCEPT ![r] = obj]]
      BY <1>0, <3>1, <3>2 DEF TypeOK
    <3>4. obj.status = verdict
      BY <3>1 DEF Row
    <3> HIDE DEF obj
    <3>5. QED
      BY <1>0, <3>1, <3>3, <3>4 DEF TypeOK
  <2>3. seen[s] = Status(r) /\ Final(r) /\ (row[r].named => got[s] = results[r])
    BY <1>0, <2>1 DEF Judged
  <2>4. verdict = Verdict(r)
    BY <2>3 DEF Verdict, Status, TerminalStatus
  <2>5. UNCHANGED <<execution, forgotten, results>> /\ row'[r].named = row[r].named
    BY <1>0, <1>6, <1>a, <2>1, SessionRows DEF Commit, cloudVars, Working
  <2> HIDE DEF verdict
  <2>6. Verdict(r)' = Verdict(r) /\ Final(r)'
    BY <2>1, <2>3, <2>5 DEF Verdict, Final, Status, StatusOf
  <2>7. QED
    BY <2>1, <2>2, <2>4, <2>6 DEF Judged
<1>7. CASE Publish(s) /\ at'[s] = "notify"
  <2>1. UNCHANGED <<row, execution, forgotten, results>>
    BY <1>7 DEF Publish, tableVars
  <2>2. cur'[s] = r /\ view'[s] = view[s] /\ at[s] = "publish"
    BY <1>0, <1>7 DEF TypeOK, Publish, Finish, EndSession, Resume
  <2>3. QED
    BY <1>0, <1>7, <2>1, <2>2 DEF Judged, Verdict, Status, StatusOf, Final
<1>8. QED
  BY <1>1, <1>2, <1>3, <1>4, <1>5, <1>6, <1>7, SessionCases

\* Only Publish announces, and what it announces is the session's verdict.
LEMMA AnnouncedBy ==
  ASSUME TypeOK, Next, NEW r \in Runs, NEW t \in Terminal, completed'[r][t] > 0
  PROVE  \/ completed[r][t] > 0
         \/ \E s \in Sessions : at[s] = "publish" /\ cur[s] = r /\ view[s][r].status = t
<1>1. CASE \E q \in Runs : CreateRun(q) \/ Platform(q) \/ PushMisses(q)
  <2>1. completed' = completed
    BY <1>1, CreateTouches DEF Platform, StartExecution, WriteSummary, CompleteExecution,
       ForgetExecution, Age, PushMisses, outVars
  <2>2. QED
    BY <2>1
<1>2. ASSUME NEW s \in Sessions, Publish(s)
      PROVE  \/ completed[r][t] > 0
             \/ at[s] = "publish" /\ cur[s] = r /\ view[s][r].status = t
  <2>1. at[s] = "publish"
    BY <1>2 DEF Publish
  <2>2. CASE completed' = completed
    BY <2>2
  <2>3. CASE completed' = [completed EXCEPT ![cur[s]][view[s][cur[s]].status] = @ + 1]
    <3> DEFINE st == view[s][cur[s]].status
    <3>1. completed[r] \in [Terminal -> Nat]
      BY DEF TypeOK
    <3>2. completed'[r] = IF r = cur[s] THEN [completed[r] EXCEPT ![st] = @ + 1] ELSE completed[r]
      BY <2>3 DEF TypeOK
    <3> HIDE DEF st
    <3>3. completed'[r][t] = completed[r][t] \/ (r = cur[s] /\ t = st)
      BY <3>1, <3>2
    <3>4. QED
      BY <2>1, <3>3 DEF st
  <2>4. QED
    BY <1>2, <2>2, <2>3 DEF Publish
<1>3. ASSUME NEW s \in Sessions, Session(s), ~Publish(s)
      PROVE  completed' = completed
  BY <1>3 DEF Session, Finalize, PushFinds, SweepLoad, SweepVisit, SweepEnd, Poll, StillGoing,
     MarkRunning, ReadResults, Commit, Notify, PushError, SweepError, SessionCrash, outVars
<1>4. QED
  BY <1>1, <1>2, <1>3 DEF Next

\* A finalized run is not loaded again.
LEMMA NotHeldAgain ==
  ASSUME BInv, Next, NEW r \in Runs, row[r] # NoRow, row[r].finalized, Held(r)'
  PROVE  Held(r)
<1>0. TypeOK /\ IInv
  BY DEF BInv, IInv
<1>1. CASE \E q \in Runs : CreateRun(q) \/ Platform(q) \/ PushMisses(q)
  <2>1. view' = view
    BY <1>0, <1>1, CreateTouches DEF Platform, StartExecution, WriteSummary, CompleteExecution,
       ForgetExecution, Age, PushMisses, sessionVars
  <2>2. QED
    BY <2>1 DEF Held
<1>2. CASE \E s \in Sessions : Session(s)
  BY <1>0, <1>2, SessionViews DEF Held, Fetched, Kept
<1>3. QED
  BY <1>1, <1>2 DEF Next

LEMMA AnnouncementsKeep ==
  ASSUME VInv, Next
  PROVE  Announced' /\ CompletionsAgree' /\ SuccessIsEarned'
<1> USE NoRowAssumption
<1>0. BInv /\ IInv /\ TypeOK /\ RowsExist /\ CommittedFirst /\ PublishedIsDurable
      /\ \A r \in Runs : Begun(r)
  BY DEF VInv, BInv, IInv
<1>1. ASSUME NEW r \in Runs, NEW t \in Terminal, completed'[r][t] > 0
      PROVE  /\ row[r] # NoRow /\ row[r].finalized /\ request[r] \in Over
             /\ Final(r) /\ (Held(r) => t = Verdict(r))
             /\ completed[r][t] > 0 \/ Held(r)
  <2>1. CASE completed[r][t] > 0
    BY <1>0, <2>1 DEF PublishedIsDurable, Begun, VInv, Announced
  <2>2. CASE \E s \in Sessions : at[s] = "publish" /\ cur[s] = r /\ view[s][r].status = t
    <3>1. PICK s \in Sessions : at[s] = "publish" /\ cur[s] = r /\ view[s][r].status = t
      BY <2>2
    <3>2. row[r] # NoRow /\ view[s][r] # NoRow /\ row[r].finalized
      BY <1>0, <3>1 DEF RowsExist, Working, CommittedFirst
    <3>3. Final(r) /\ t = Verdict(r)
      BY <3>1 DEF VInv, Judged
    <3>4. QED
      BY <1>0, <3>2, <3>3 DEF Begun, Held
  <2>3. QED
    BY <1>0, <1>1, <2>1, <2>2, AnnouncedBy
<1>2. Announced'
  <2>1. ASSUME NEW r \in Runs, NEW t \in Terminal, completed'[r][t] > 0
        PROVE  Final(r)' /\ (Held(r)' => t = Verdict(r)')
    BY <1>0, <1>1, <2>1, VerdictStands, NotHeldAgain
  <2>2. QED
    BY <2>1 DEF Announced
<1>3. CompletionsAgree'
  <2>1. ASSUME NEW r \in Runs, NEW t \in Terminal, NEW u \in Terminal,
               completed'[r][t] > 0, completed'[r][u] > 0
        PROVE  t = u
    <3>1. CASE Held(r)
      BY <1>1, <2>1, <3>1
    <3>2. CASE completed[r][t] > 0 /\ completed[r][u] > 0
      BY <3>2 DEF VInv, CompletionsAgree
    <3>3. QED
      BY <1>1, <2>1, <3>1, <3>2
  <2>2. QED
    BY <2>1 DEF CompletionsAgree
<1>4. SuccessIsEarned'
  <2>1. ASSUME NEW r \in Runs, completed'[r]["succeeded"] > 0
        PROVE  /\ row'[r].named /\ results'[r] = "ok"
               /\ execution'[r] = "succeeded" \/ r \in forgotten'
    <3>1. /\ row[r].named /\ results[r] = "ok"
          /\ execution[r] = "succeeded" \/ r \in forgotten
      <4>1. CASE completed[r]["succeeded"] > 0
        BY <4>1 DEF VInv, SuccessIsEarned
      <4>2. CASE Verdict(r) = "succeeded"
        BY <1>0, <4>2 DEF Verdict, TerminalStatus, Status, StatusOf, TypeOK, Execution,
           ExecutionDone
      <4>3. QED
        BY <1>1, <2>1, <4>1, <4>2 DEF Terminal
    <3>2. row[r] # NoRow /\ request[r] \in Over /\ Final(r)
      BY <1>1, <2>1 DEF Terminal
    <3>3. forgotten \subseteq forgotten'
      BY <1>0, CreateTouches DEF Next, Platform, StartExecution, WriteSummary, CompleteExecution,
         ForgetExecution, Age, PushMisses, Session, Finalize, PushFinds, SweepLoad, SweepVisit,
         SweepEnd, Poll, StillGoing, MarkRunning, ReadResults, Commit, Publish, Notify, PushError,
         SweepError, SessionCrash, cloudVars
    <3>4. QED
      BY <1>0, <3>1, <3>2, <3>3, VerdictStands
  <2>2. QED
    BY <2>1 DEF SuccessIsEarned
<1>5. QED
  BY <1>2, <1>3, <1>4

LEMMA VInvKeeps == VInv /\ [Next]_vars => VInv'
<1> SUFFICES ASSUME VInv, [Next]_vars PROVE VInv'
  OBVIOUS
<1>1. BInv'
  BY BInvKeeps DEF VInv
<1>2. CASE UNCHANGED vars
  BY <1>1, <1>2 DEF VInv, Judged, Announced, Held, Final, Verdict, Status, StatusOf,
     CompletionsAgree, SuccessIsEarned, vars, tableVars, cloudVars, sessionVars, outVars
<1>3. ASSUME Next, NEW s \in Sessions PROVE Judged(s)'
  <2>0. IInv /\ TypeOK
    BY DEF VInv, BInv, IInv
  <2>1. CASE \E q \in Runs : CreateRun(q) \/ Platform(q) \/ PushMisses(q)
    <3>1. UNCHANGED sessionVars
      BY <2>0, <2>1, CreateTouches DEF Platform, StartExecution, WriteSummary, CompleteExecution,
         ForgetExecution, Age, PushMisses, sessionVars
    <3>2. QED
      BY <1>3, <3>1, BystandersJudge DEF sessionVars
  <2>2. CASE \E t \in Sessions : Session(t)
    BY <1>3, <2>0, <2>2, SessionViews, BystandersJudge, WorkerJudges
  <2>3. QED
    BY <1>3, <2>1, <2>2 DEF Next
<1>4. QED
  BY <1>1, <1>2, <1>3, AnnouncementsKeep DEF VInv

\* However often a run is finalized, by pushes and sweeps at once, with crashes
\* in between and with copies of its row gone stale, all the run.completed
\* events it publishes carry one status: Spec keeps CompletionsAgree.
THEOREM OneVerdict == Spec => []CompletionsAgree
<1>1. VInv => CompletionsAgree
  BY DEF VInv
<1>2. QED
  BY <1>1, InitVInv, VInvKeeps, PTL DEF Spec

\* A run announced as succeeded had an execution under its row's name that
\* succeeded, or is so old that Cloud Run forgot it, and an ok summary: Spec
\* keeps SuccessIsEarned.
THEOREM SuccessEarned == Spec => []SuccessIsEarned
<1>1. VInv => SuccessIsEarned
  BY DEF VInv
<1>2. QED
  BY <1>1, InitVInv, VInvKeeps, PTL DEF Spec

-----------------------------------------------------------------------------
(* A chain of runs                                                         *)

\* A success is written to a row only with finalized_at and the ok summary, and
\* create_run goes on only for a run whose parent it saw succeeded.
Good(r) == row[r] # NoRow /\ row[r].finalized /\ row[r].summary = "ok"

Stored(r)  == row[r] # NoRow /\ row[r].status = "succeeded" => Good(r)
Follows(r) == ParentOf[r] # NoRun /\ (row[r] # NoRow \/ request[r] = "checked")
                => Good(ParentOf[r])

CInv == IInv /\ \A r \in Runs : Stored(r) /\ Follows(r)

LEMMA GoodStays ==
  ASSUME IInv, [Next]_vars, NEW r \in Runs, Good(r)
  PROVE  Good(r)'
BY StepSettles DEF Good, Settled

LEMMA StoredKeeps ==
  ASSUME IInv, [Next]_vars, NEW r \in Runs, Stored(r)
  PROVE  Stored(r)'
<1> USE NoRowAssumption
<1>0. TypeOK /\ RowsExist /\ SummariesAgree
  BY DEF IInv
<1>1. CASE row[r] # NoRow /\ row[r].status = "succeeded"
  BY <1>1, GoodStays DEF Stored
<1>2. CASE row'[r] = row[r] /\ ~(row[r] # NoRow /\ row[r].status = "succeeded")
  BY <1>2 DEF Stored
<1>3. ASSUME NEW q \in Runs, Insert(q), ~(row[r] # NoRow /\ row[r].status = "succeeded")
      PROVE  Stored(r)'
  <2> DEFINE new == [status |-> "pending", named |-> FALSE, summary |-> "none",
                     finalized |-> FALSE, created |-> Cardinality(Rows)]
  <2>1. row' = [row EXCEPT ![q] = new] /\ new.status = "pending"
    BY <1>3 DEF Insert
  <2> HIDE DEF new
  <2>2. row'[r] = IF r = q THEN new ELSE row[r]
    BY <1>0, <2>1 DEF TypeOK
  <2>3. QED
    BY <1>3, <2>1, <2>2 DEF Stored
<1>4. ASSUME NEW q \in Runs, NEW st \in {"failed", "running"}, row[q] \in Row,
             row' = [row EXCEPT ![q].status = st], ~(row[r] # NoRow /\ row[r].status = "succeeded")
      PROVE  Stored(r)'
  <2> DEFINE new == [row[q] EXCEPT !.status = st]
  <2>1. row' = [row EXCEPT ![q] = new] /\ new.status = st
    BY <1>0, <1>4 DEF TypeOK, Row
  <2> HIDE DEF new
  <2>2. row'[r] = IF r = q THEN new ELSE row[r]
    BY <1>0, <2>1 DEF TypeOK
  <2>3. QED
    BY <1>4, <2>1, <2>2 DEF Stored
<1>5. ASSUME NEW q \in Runs, RecordExecution(q), ~(row[r] # NoRow /\ row[r].status = "succeeded")
      PROVE  Stored(r)'
  <2> DEFINE new == [row[q] EXCEPT !.named = TRUE]
  <2>1. row[q] \in Row
    BY <1>0, <1>5 DEF RecordExecution, RowsExist
  <2>2. row' = [row EXCEPT ![q] = new] /\ new.status = row[q].status
    BY <1>0, <1>5, <2>1 DEF RecordExecution, TypeOK, Row
  <2> HIDE DEF new
  <2>3. row'[r] = IF r = q THEN new ELSE row[r]
    BY <1>0, <2>2 DEF TypeOK
  <2>4. QED
    BY <1>5, <2>1, <2>2, <2>3 DEF Stored
<1>6. ASSUME NEW s \in Sessions, Commit(s), ~(row[r] # NoRow /\ row[r].status = "succeeded")
      PROVE  Stored(r)'
  <2> DEFINE q == cur[s]
  <2>1. PICK new \in Row :
           /\ row' = [row EXCEPT ![q] = new] /\ new.finalized
           /\ new.summary = (IF got[s] = "none" THEN row[q].summary ELSE got[s])
           /\ new.status \in {row[q].status, TerminalStatus(seen[s], got[s])}
    BY <1>0, <1>6, CommitWrites
  <2>2. q \in Runs /\ row[q] # NoRow
    BY <1>0, <1>6 DEF Commit, RowsExist, Working
  <2>3. TerminalStatus(seen[s], got[s]) = "succeeded" => got[s] = "ok"
    BY DEF TerminalStatus
  <2>4. row'[r] = IF r = q THEN new ELSE row[r]
    BY <1>0, <2>1 DEF TypeOK
  <2>5. QED
    BY <1>6, <2>1, <2>2, <2>3, <2>4 DEF Stored, Good
<1>7. CASE \E q \in Runs : CreateRun(q)
  <2> SUFFICES ASSUME NEW q \in Runs, CreateRun(q) PROVE Stored(r)'
    BY <1>7
  <2>1. CheckParent(q) \/ Deduplicate(q) \/ Trigger(q) \/ CreateCrash(q) => row' = row
    BY DEF CheckParent, Deduplicate, Trigger, CreateCrash
  <2>2. RecordFailure(q) => row[q] \in Row /\ row' = [row EXCEPT ![q].status = "failed"]
    BY <1>0 DEF RecordFailure, RowsExist
  <2>3. QED
    BY <1>1, <1>2, <1>3, <1>4, <1>5, <2>1, <2>2 DEF CreateRun
<1>8. CASE \E q \in Runs : Platform(q) \/ PushMisses(q)
  <2>1. row' = row
    BY <1>8 DEF Platform, PushMisses, StartExecution, WriteSummary, CompleteExecution,
               ForgetExecution, Age, tableVars
  <2>2. QED
    BY <1>1, <1>2, <2>1
<1>9. CASE \E s \in Sessions : Session(s)
  <2> SUFFICES ASSUME NEW s \in Sessions, Session(s) PROVE Stored(r)'
    BY <1>9
  <2>1. MarkRunning(s) \/ Commit(s) \/ row' = row
    BY DEF Session, Finalize, PushFinds, SweepLoad, SweepVisit, SweepEnd, Poll, StillGoing,
           ReadResults, Publish, Notify, PushError, SweepError, SessionCrash, tableVars
  <2>2. MarkRunning(s) => /\ cur[s] \in Runs /\ row[cur[s]] \in Row
                          /\ row' = [row EXCEPT ![cur[s]].status = "running"]
    BY <1>0 DEF MarkRunning, RowsExist, Working
  <2>3. QED
    BY <1>1, <1>2, <1>4, <1>6, <2>1, <2>2
<1>10. CASE UNCHANGED vars
  BY <1>1, <1>2, <1>10 DEF vars, tableVars
<1>11. QED
  BY <1>7, <1>8, <1>9, <1>10 DEF Next

LEMMA FollowsKeeps ==
  ASSUME CInv, [Next]_vars, NEW r \in Runs
  PROVE  Follows(r)'
<1> USE RunsAssumption, NoRowAssumption
<1> DEFINE p == ParentOf[r]
<1>0. IInv /\ TypeOK /\ RowsExist /\ Follows(r)
  BY DEF CInv, IInv
<1> SUFFICES ASSUME p # NoRun, row'[r] # NoRow \/ request'[r] = "checked" PROVE Good(p)'
  BY DEF Follows
<1>1. p \in Runs /\ Stored(p)
  BY DEF CInv
<1>2. CASE row[r] # NoRow \/ request[r] = "checked"
  BY <1>0, <1>1, <1>2, GoodStays DEF Follows
<1>3. CASE row[r] = NoRow /\ request[r] # "checked"
  <2>1. CASE \E q \in Runs : CreateRun(q)
    <3>1. PICK q \in Runs : CreateRun(q)
      BY <2>1
    <3>2. q = r
      BY <1>0, <1>3, <3>1, CreateTouches
    <3>3. CheckParent(r)
      BY <1>0, <1>3, <3>1, <3>2 DEF CreateRun, Insert, ReadyToInsert, Deduplicate, Trigger,
         RecordFailure, RecordExecution, CreateCrash, TypeOK, RowsExist
    <3>4. row[p] # NoRow /\ row[p].status = "succeeded"
      BY <1>0, <1>3, <3>3 DEF CheckParent, TypeOK
    <3>5. QED
      BY <1>0, <1>1, <3>4, GoodStays DEF Stored
  <2>2. CASE \E q \in Runs : Platform(q) \/ PushMisses(q)
    BY <1>3, <2>2 DEF Platform, PushMisses, StartExecution, WriteSummary, CompleteExecution,
       ForgetExecution, Age, tableVars
  <2>3. CASE \E s \in Sessions : Session(s)
    <3>1. request' = request
      BY <2>3 DEF Session, Finalize, PushFinds, SweepLoad, SweepVisit, SweepEnd, Poll, StillGoing,
         MarkRunning, ReadResults, Commit, Publish, Notify, PushError, SweepError, SessionCrash,
         tableVars
    <3>2. QED
      BY <1>0, <1>3, <2>3, <3>1, SessionRows
  <2>4. CASE UNCHANGED vars
    BY <1>3, <2>4 DEF vars, tableVars
  <2>5. QED
    BY <2>1, <2>2, <2>3, <2>4 DEF Next
<1>4. QED
  BY <1>2, <1>3

\* A chained run has a row, and so ever an execution, only behind a parent whose
\* success was committed with its summary, and which stays so: Spec keeps
\* ChildFollowsSuccess.
THEOREM ChainsHold == Spec => []ChildFollowsSuccess
<1>1. Init => CInv
  BY InitIInv DEF Init, Nothing, CInv, Stored, Follows
<1>2. CInv /\ [Next]_vars => CInv'
  BY NextKeeps, StoredKeeps, FollowsKeeps DEF CInv
<1>3. CInv => ChildFollowsSuccess
  BY DEF CInv, Follows, Good, ChildFollowsSuccess, Rows
<1>4. QED
  BY <1>1, <1>2, <1>3, PTL DEF Spec

-----------------------------------------------------------------------------
(* Runs that one session holds at a time: the contract                     *)

\* What a session knows of a run it alone holds: not finalized before it
\* commits, not announced and not mailed before it does so, and of the status
\* its copy shows.
Fresh(s, r) ==
  view[s][r] # NoRow =>
    /\ at[s] \in {"poll", "polled", "read"} /\ cur[s] = r => ~row[r].finalized
    /\ r \in todo[s] => ~row[r].finalized
    /\ at[s] = "publish" /\ cur[s] = r => \A t \in Terminal : completed[r][t] = 0
    /\ at[s] \in {"publish", "notify"} /\ cur[s] = r => emails[r] = 0
    /\ view[s][r].status = row[r].status

Alone(r)  == \A s, t \in Sessions : view[s][r] # NoRow /\ view[t][r] # NoRow => s = t
Mailed(r) == emails[r] <= 1 /\ (emails[r] > 0 => row[r] # NoRow /\ row[r].finalized)
Single(r) == Alone(r) /\ (\A s \in Sessions : Fresh(s, r)) /\ Mailed(r)

SInv == /\ BInv /\ \A r \in Runs \ overlapped : Single(r)
        /\ \A r \in overlapped : row[r] # NoRow

LEMMA InitSInv == Init => SInv
<1> SUFFICES ASSUME Init PROVE SInv
  OBVIOUS
<1>1. \A r \in Runs : Single(r)
  BY DEF Init, Single, Alone, Fresh, Mailed, Nothing
<1>2. overlapped = {}
  BY DEF Init
<1>3. QED
  BY <1>1, <1>2, InitBInv DEF SInv

\* A run that two sessions came to hold stays marked.
LEMMA OverlapsStay ==
  ASSUME TypeOK, [Next]_vars
  PROVE  overlapped \subseteq overlapped'
<1>1. CASE \E q \in Runs : CreateRun(q) \/ Platform(q) \/ PushMisses(q)
  BY <1>1, CreateTouches DEF Platform, StartExecution, WriteSummary, CompleteExecution,
     ForgetExecution, Age, PushMisses, outVars
<1>2. CASE \E s \in Sessions : Session(s)
  BY <1>2 DEF Session, Finalize, PushFinds, SweepLoad, SweepVisit, SweepEnd, Poll, StillGoing,
     MarkRunning, ReadResults, Commit, Publish, Notify, PushError, SweepError, SessionCrash,
     outVars
<1>3. CASE UNCHANGED vars
  BY <1>3 DEF vars, outVars
<1>4. QED
  BY <1>1, <1>2, <1>3 DEF Next

\* A session comes to hold a run that nobody holds, or marks it.
LEMMA Acquires ==
  ASSUME IInv, NEW s \in Sessions, Session(s), NEW r \in Runs,
         view[s][r] = NoRow, view'[s][r] # NoRow, r \notin overlapped'
  PROVE  \A t \in Sessions : view[t][r] = NoRow
<1> USE NoRowAssumption
<1>0. TypeOK /\ RowsExist
  BY DEF IInv
<1>1. CASE SweepLoad(s)
  <2>1. PICK loaded \in SUBSET Stale :
          /\ view' = [view EXCEPT ![s] = [q \in Runs |-> IF q \in loaded THEN row[q] ELSE NoRow]]
          /\ overlapped' = overlapped \cup HeldOf(loaded)
    BY <1>1 DEF SweepLoad
  <2>2. r \in loaded
    BY <1>0, <2>1 DEF TypeOK
  <2>3. QED
    BY <2>1, <2>2 DEF HeldOf
<1>2. ASSUME NEW q \in Runs, PushFinds(s, q) PROVE \A t \in Sessions : view[t][r] = NoRow
  <2>1. ~row[q].finalized
    BY <1>2 DEF PushFinds, sessionVars
  <2>2. view' = [view EXCEPT ![s] = [view[s] EXCEPT ![q] = row[q]]]
        /\ overlapped' = overlapped \cup HeldOf({q})
    BY <1>2, <2>1 DEF PushFinds
  <2>3. q = r
    BY <1>0, <2>2 DEF TypeOK
  <2>4. QED
    BY <2>2, <2>3 DEF HeldOf
<1>3. CASE Leaves(s)
  BY <1>0, <1>3, LeavesLeaves, LeavingViews
<1>4. CASE Commit(s)
  <2> DEFINE c == cur[s]
  <2> DEFINE verdict == TerminalStatus(seen[s], got[s])
  <2>1. view' = [view EXCEPT ![s][c].status = verdict, ![s][c].finalized = TRUE]
    BY <1>4 DEF Commit
  <2> HIDE DEF verdict
  <2>2. r # c => view'[s][r] = view[s][r]
    BY <1>0, <2>1 DEF TypeOK
  <2>3. r = c => view[s][r] # NoRow
    BY <1>0, <1>4 DEF Commit, RowsExist, Working
  <2>4. QED
    BY <2>2, <2>3
<1>5. CASE SweepVisit(s) \/ Poll(s) \/ ReadResults(s) \/ (Publish(s) /\ at'[s] = "notify")
  BY <1>0, <1>5 DEF TypeOK, SweepVisit, Poll, ReadResults, Publish, Finish, EndSession, Resume
<1>6. QED
  BY <1>1, <1>2, <1>3, <1>4, <1>5, SessionCases

\* A session's step changes nothing of a run but of the one it works on.
LEMMA SessionTouches ==
  ASSUME IInv, NEW s \in Sessions, Session(s), NEW r \in Runs,
         ~(at[s] \in Working /\ cur[s] = r)
  PROVE  row'[r] = row[r] /\ completed'[r] = completed[r] /\ emails'[r] = emails[r]
<1>0. TypeOK /\ RowsExist
  BY DEF IInv
<1>1. CASE MarkRunning(s)
  <2>1. at[s] \in Working
    BY <1>1 DEF MarkRunning, Working
  <2>2. QED
    BY <1>0, <1>1, <2>1 DEF MarkRunning, TypeOK, outVars
<1>2. CASE Commit(s)
  <2>1. PICK new \in Row : row' = [row EXCEPT ![cur[s]] = new]
    BY <1>0, <1>2, CommitWrites
  <2>2. at[s] \in Working
    BY <1>2 DEF Commit, Working
  <2>3. QED
    BY <1>0, <1>2, <2>1, <2>2 DEF Commit, TypeOK, outVars
<1>3. CASE Publish(s)
  BY <1>0, <1>3 DEF Publish, TypeOK, Working, tableVars
<1>4. CASE Notify(s)
  BY <1>0, <1>4 DEF Notify, TypeOK, Working, tableVars
<1>5. CASE ~MarkRunning(s) /\ ~Commit(s) /\ ~Publish(s) /\ ~Notify(s)
  BY <1>5 DEF Session, Finalize, PushFinds, SweepLoad, SweepVisit, SweepEnd, Poll, StillGoing,
     ReadResults, PushError, SweepError, SessionCrash, tableVars, outVars
<1>6. QED
  BY <1>1, <1>2, <1>3, <1>4, <1>5

LEMMA OthersStay ==
  ASSUME IInv, NEW s \in Sessions, Session(s), NEW t \in Sessions, t # s
  PROVE  /\ view'[t] = view[t] /\ at'[t] = at[t] /\ cur'[t] = cur[t] /\ todo'[t] = todo[t]
<1>0. TypeOK
  BY DEF IInv
<1>1. todo'[t] = todo[t]
  <2>1. CASE Leaves(s)
    BY <1>0, <2>1, LeavesLeaves DEF TypeOK, EndSession, Resume
  <2>2. CASE SweepLoad(s)
    <3>1. PICK loaded \in SUBSET Stale : todo' = [todo EXCEPT ![s] = loaded]
      BY <2>2 DEF SweepLoad
    <3>2. QED
      BY <1>0, <3>1 DEF TypeOK
  <2>3. CASE Commit(s) \/ SweepVisit(s) \/ Poll(s) \/ ReadResults(s)
    BY <1>0, <2>3 DEF TypeOK, Commit, SweepVisit, Poll, ReadResults
  <2>4. CASE Publish(s) /\ at'[s] = "notify"
    BY <1>0, <2>4 DEF TypeOK, Publish, Finish, EndSession, Resume
  <2>5. ASSUME NEW q \in Runs, PushFinds(s, q) PROVE todo'[t] = todo[t]
    BY <2>5 DEF PushFinds, sessionVars
  <2>6. QED
    BY <2>1, <2>2, <2>3, <2>4, <2>5, SessionCases
<1>2. QED
  BY <1>1, SessionViews

\* The session's own steps.
LEMMA LeavingStaysFresh ==
  ASSUME SInv, NEW s \in Sessions, Session(s), Leaves(s), NEW r \in Runs \ overlapped
  PROVE  Fresh(s, r)'
<1> USE NoRowAssumption
<1>0. BInv /\ IInv /\ TypeOK /\ RowsExist /\ Viewed /\ Fresh(s, r)
  BY DEF SInv, BInv, IInv, Single
<1> SUFFICES ASSUME view'[s][r] # NoRow
             PROVE  /\ at'[s] \in {"idle", "next"} /\ (r \in todo'[s] => ~row'[r].finalized)
                    /\ view'[s][r].status = row'[r].status
  BY DEF Fresh
<1>1. at'[s] \in {"idle", "next"} /\ ~Commit(s)
  BY <1>0, LeavesLeaves, LeavingViews DEF Commit, Leaves, TypeOK, SweepEnd, StillGoing,
     MarkRunning, Notify, Publish, PushError, SweepError, SessionCrash, EndSession
<1>2. todo'[s] \subseteq todo[s]
  BY <1>0, LeavesLeaves DEF EndSession, Resume, TypeOK
<1>3. view'[s][r] = view[s][r] /\ view[s][r] # NoRow
  BY <1>0, LeavesLeaves, LeavingViews
<1>4. r \in todo'[s] => ~row'[r].finalized
  <2>1. row[r] # NoRow
    BY <1>0, <1>3 DEF Viewed
  <2>2. QED
    BY <1>0, <1>1, <1>2, <1>3, <2>1, SessionRows DEF Fresh
<1>5. CASE MarkRunning(s)
  <2>1. r # cur[s]
    BY <1>0, <1>3, <1>5 DEF MarkRunning, Finish, EndSession, Resume, Nothing, TypeOK
  <2>2. row'[r] = row[r]
    BY <1>0, <1>5, <2>1 DEF MarkRunning, TypeOK
  <2>3. QED
    BY <1>0, <1>1, <1>3, <1>4, <2>2 DEF Fresh
<1>6. CASE ~MarkRunning(s)
  <2>1. row' = row
    BY <1>6 DEF Leaves, SweepEnd, StillGoing, Notify, Publish, PushError, SweepError,
       SessionCrash, tableVars
  <2>2. QED
    BY <1>0, <1>1, <1>3, <1>4, <2>1 DEF Fresh
<1>7. QED
  BY <1>5, <1>6

LEMMA CommitStaysFresh ==
  ASSUME SInv, NEW s \in Sessions, Commit(s), NEW r \in Runs \ overlapped
  PROVE  Fresh(s, r)'
<1> USE NoRowAssumption
<1> DEFINE c == cur[s]
<1> DEFINE verdict == TerminalStatus(seen[s], got[s])
<1> DEFINE obj == [view[s][c] EXCEPT !.status = verdict, !.finalized = TRUE]
<1> DEFINE new == [row[c] EXCEPT
                     !.status = IF verdict = view[s][c].status THEN @ ELSE verdict,
                     !.summary = IF got[s] = "none" THEN @ ELSE got[s],
                     !.finalized = TRUE]
<1>0. BInv /\ IInv /\ TypeOK /\ RowsExist /\ Fresh(s, r) /\ PublishedIsDurable /\ Mailed(r)
  BY DEF SInv, BInv, IInv, Single
<1>1. c \in Runs \ todo[s] /\ row[c] \in Row /\ view[s][c] \in Row /\ at[s] = "read"
  BY <1>0 DEF Commit, RowsExist, Working
<1>2. view' = [view EXCEPT ![s] = [view[s] EXCEPT ![c] = obj]]
  <2>1. view' = [view EXCEPT ![s][c].status = verdict, ![s][c].finalized = TRUE]
    BY DEF Commit
  <2> HIDE DEF verdict
  <2>2. QED
    BY <1>0, <1>1, <2>1 DEF TypeOK
<1>3. row' = [row EXCEPT ![c] = new]
  <2>1. row' = [row EXCEPT ![c].status = IF verdict = view[s][c].status THEN @ ELSE verdict,
                           ![c].summary = IF got[s] = "none" THEN @ ELSE got[s],
                           ![c].finalized = TRUE]
    BY DEF Commit
  <2> HIDE DEF verdict
  <2>2. QED
    BY <1>0, <1>1, <2>1 DEF TypeOK
<1>4. r = c => obj.status = new.status
  <2>1. r = c => row[c].status = view[s][c].status
    BY <1>0, <1>1 DEF Fresh
  <2> HIDE DEF verdict
  <2>2. QED
    BY <1>1, <2>1 DEF Row
<1> HIDE DEF verdict, obj, new
<1>5. /\ view'[s][r] = IF r = c THEN obj ELSE view[s][r]
      /\ row'[r] = IF r = c THEN new ELSE row[r]
  BY <1>0, <1>1, <1>2, <1>3 DEF TypeOK
<1>6. /\ at'[s] = "publish" /\ cur' = cur /\ todo' = todo
      /\ UNCHANGED <<completed, emails>>
  BY <1>0 DEF TypeOK, Commit, outVars
<1>7. ASSUME r = c PROVE (\A t \in Terminal : completed[r][t] = 0) /\ emails[r] = 0
  <2>1. ~row[r].finalized
    BY <1>0, <1>1, <1>7 DEF Fresh
  <2>2. \A t \in Terminal : completed[r][t] = 0
    BY <1>0, <2>1 DEF TypeOK, PublishedIsDurable
  <2>3. emails[r] = 0
    BY <1>0, <2>1 DEF Mailed, TypeOK
  <2>4. QED
    BY <2>2, <2>3
<1>8. QED
  BY <1>0, <1>1, <1>4, <1>5, <1>6, <1>7 DEF Fresh

LEMMA WorkerStaysFresh ==
  ASSUME SInv, NEW s \in Sessions, Session(s), NEW r \in Runs \ overlapped
  PROVE  Fresh(s, r)'
<1> USE NoRowAssumption
<1>0. BInv /\ IInv /\ TypeOK /\ RowsExist /\ Fresh(s, r)
  BY DEF SInv, BInv, IInv, Single
<1>1. CASE Leaves(s)
  BY <1>1, LeavingStaysFresh
<1>2. CASE SweepLoad(s)
  <2>1. PICK loaded \in SUBSET Stale :
          /\ todo' = [todo EXCEPT ![s] = loaded]
          /\ view' = [view EXCEPT ![s] = [q \in Runs |-> IF q \in loaded THEN row[q] ELSE NoRow]]
    BY <1>2 DEF SweepLoad
  <2>2. todo'[s] = loaded /\ at'[s] = "next" /\ row' = row
    BY <1>0, <1>2, <2>1 DEF TypeOK, SweepLoad, tableVars
  <2>3. view'[s][r] # NoRow => view'[s][r] = row[r]
    BY <1>0, <2>1 DEF TypeOK
  <2>4. QED
    BY <2>2, <2>3 DEF Fresh, Stale
<1>3. ASSUME NEW q \in Runs, PushFinds(s, q), ~row[q].finalized
      PROVE  Fresh(s, r)'
  <2>1. view' = [view EXCEPT ![s] = [view[s] EXCEPT ![q] = row[q]]]
    BY <1>3 DEF PushFinds
  <2>2. view'[s][r] = IF r = q THEN row[q] ELSE view[s][r]
    BY <1>0, <2>1 DEF TypeOK
  <2>3. at'[s] = "poll" /\ cur'[s] = q /\ todo' = todo /\ row' = row
    BY <1>0, <1>3 DEF TypeOK, PushFinds, tableVars
  <2>4. todo[s] = {}
    BY <1>0, <1>3 DEF PushFinds, RowsExist
  <2>5. QED
    BY <1>0, <1>3, <2>2, <2>3, <2>4 DEF Fresh
<1>4. ASSUME NEW q \in Runs, PushFinds(s, q), row[q].finalized
      PROVE  Fresh(s, r)'
  BY <1>0, <1>4 DEF PushFinds, sessionVars, tableVars, Fresh
<1>5. CASE SweepVisit(s)
  <2>1. at'[s] = "poll" /\ row' = row /\ view' = view
        /\ cur'[s] \in todo[s] /\ todo'[s] \subseteq todo[s]
    BY <1>0, <1>5 DEF TypeOK, SweepVisit, tableVars
  <2>2. QED
    BY <1>0, <2>1 DEF Fresh
<1>6. CASE Poll(s) \/ ReadResults(s)
  <2>1. /\ at[s] \in {"poll", "polled"} /\ at'[s] \in {"polled", "read"} /\ cur' = cur
        /\ todo' = todo /\ view' = view /\ row' = row
    BY <1>0, <1>6 DEF TypeOK, Poll, ReadResults, tableVars
  <2>2. QED
    BY <1>0, <2>1 DEF Fresh
<1>7. CASE Commit(s)
  BY <1>7, CommitStaysFresh
<1>8. CASE Publish(s) /\ at'[s] = "notify"
  <2>1. row' = row /\ emails' = emails /\ at[s] = "publish"
    BY <1>8 DEF Publish, tableVars
  <2>2. cur' = cur /\ view' = view /\ todo' = todo
    BY <1>0, <1>8 DEF TypeOK, Publish, Finish, EndSession, Resume
  <2>3. QED
    BY <1>0, <1>8, <2>1, <2>2 DEF Fresh
<1>9. QED
  BY <1>1, <1>2, <1>3, <1>4, <1>5, <1>6, <1>7, <1>8, SessionCases

LEMMA SoleSurvives ==
  ASSUME SInv, NEW s \in Sessions, Session(s), NEW r \in Runs \ overlapped, r \notin overlapped'
  PROVE  Alone(r)' /\ \A t \in Sessions : Fresh(t, r)'
<1> USE NoRowAssumption
<1>0. IInv /\ RowsExist /\ Alone(r) /\ \A t \in Sessions : Fresh(t, r)
  BY DEF SInv, BInv, IInv, Single
<1>1. Alone(r)'
  <2>1. \A t \in Sessions \ {s} : view'[t][r] # NoRow => view[t][r] # NoRow
    BY <1>0, OthersStay
  <2>2. view'[s][r] # NoRow => view[s][r] # NoRow \/ \A t \in Sessions : view[t][r] = NoRow
    BY <1>0, Acquires
  <2>3. QED
    BY <1>0, <2>1, <2>2 DEF Alone
<1>2. ASSUME NEW t \in Sessions, t # s PROVE Fresh(t, r)'
  <2>1. UNCHANGED <<view[t], at[t], cur[t], todo[t]>>
    BY <1>0, <1>2, OthersStay
  <2>2. CASE view[t][r] # NoRow
    <3>1. ~(at[s] \in Working /\ cur[s] = r)
      BY <1>0, <1>2, <2>2 DEF Alone, RowsExist
    <3>2. row'[r] = row[r] /\ completed'[r] = completed[r] /\ emails'[r] = emails[r]
      BY <1>0, <3>1, SessionTouches
    <3>3. QED
      BY <1>0, <2>1, <3>2 DEF Fresh
  <2>3. CASE view[t][r] = NoRow
    BY <2>1, <2>3 DEF Fresh
  <2>4. QED
    BY <2>2, <2>3
<1>3. QED
  BY <1>1, <1>2, WorkerStaysFresh

LEMMA MailedKeeps ==
  ASSUME SInv, [Next]_vars, NEW r \in Runs \ overlapped
  PROVE  Mailed(r)'
<1>0. IInv /\ TypeOK /\ RowsExist /\ CommittedFirst /\ Mailed(r) /\ \A s \in Sessions : Fresh(s, r)
  BY DEF SInv, BInv, IInv, Single
<1>1. CASE emails'[r] = emails[r]
  BY <1>0, <1>1, StepSettles DEF Mailed, Settled
<1>2. ASSUME NEW s \in Sessions, Notify(s), cur[s] = r PROVE Mailed(r)'
  <2>1. row[r] # NoRow /\ row[r].finalized /\ emails[r] = 0
    BY <1>0, <1>2, NoRowAssumption DEF Notify, RowsExist, Working, CommittedFirst, Fresh
  <2>2. emails'[r] \in {emails[r], emails[r] + 1}
    BY <1>0, <1>2 DEF Notify, TypeOK
  <2>3. row' = row
    BY <1>2 DEF Notify, tableVars
  <2>4. QED
    BY <2>1, <2>2, <2>3 DEF Mailed
<1>3. CASE UNCHANGED vars
  BY <1>1, <1>3 DEF vars, outVars
<1>4. CASE \E q \in Runs : CreateRun(q) \/ Platform(q) \/ PushMisses(q)
  BY <1>0, <1>1, <1>4, CreateTouches DEF Platform, PushMisses, StartExecution, WriteSummary,
     CompleteExecution, ForgetExecution, Age, outVars
<1>5. ASSUME NEW s \in Sessions, Session(s), ~(Notify(s) /\ cur[s] = r)
      PROVE  emails'[r] = emails[r]
  BY <1>0, <1>5 DEF TypeOK, Session, Finalize, PushFinds, SweepLoad, SweepVisit, SweepEnd, Poll,
     StillGoing, MarkRunning, ReadResults, Commit, Publish, Notify, PushError, SweepError,
     SessionCrash, outVars
<1>6. QED
  BY <1>1, <1>2, <1>3, <1>4, <1>5 DEF Next

LEMMA OverlapsLast ==
  ASSUME SInv, [Next]_vars
  PROVE  \A r \in overlapped' : row'[r] # NoRow
<1> USE NoRowAssumption
<1>0. IInv /\ TypeOK /\ RowsExist /\ Viewed
  BY DEF SInv, BInv, IInv
<1>1. \A r \in overlapped' \ overlapped : row[r] # NoRow
  <2>1. \A r \in Runs : HeldOf({r}) \subseteq {q \in Runs : row[q] # NoRow}
    BY <1>0 DEF HeldOf, Viewed
  <2>2. \A L \in SUBSET Runs : HeldOf(L) \subseteq {q \in Runs : row[q] # NoRow}
    BY <1>0 DEF HeldOf, Viewed
  <2>3. CASE \E q \in Runs : CreateRun(q) \/ Platform(q) \/ PushMisses(q)
    BY <1>0, <2>3, CreateTouches DEF Platform, StartExecution, WriteSummary, CompleteExecution,
       ForgetExecution, Age, PushMisses, outVars
  <2>4. ASSUME NEW s \in Sessions, SweepLoad(s) PROVE \A r \in overlapped' \ overlapped : row[r] # NoRow
    <3>1. PICK L \in SUBSET Stale : overlapped' = overlapped \cup HeldOf(L)
      BY <2>4 DEF SweepLoad
    <3>2. L \in SUBSET Runs
      BY DEF Stale, Rows
    <3>3. QED
      BY <2>2, <3>1, <3>2
  <2>5. ASSUME NEW s \in Sessions, NEW q \in Runs, PushFinds(s, q)
        PROVE  \A r \in overlapped' \ overlapped : row[r] # NoRow
    <3>1. overlapped' \in {overlapped, overlapped \cup HeldOf({q})}
      BY <2>5 DEF PushFinds
    <3>2. QED
      BY <2>1, <3>1
  <2>6. ASSUME NEW s \in Sessions, Session(s), ~SweepLoad(s), ~\E q \in Runs : PushFinds(s, q)
        PROVE  overlapped' = overlapped
    BY <2>6 DEF Session, Finalize, SweepVisit, SweepEnd, Poll, StillGoing, MarkRunning,
       ReadResults, Commit, Publish, Notify, PushError, SweepError, SessionCrash, outVars
  <2>7. CASE UNCHANGED vars
    BY <2>7 DEF vars, outVars
  <2>8. QED
    BY <2>3, <2>4, <2>5, <2>6, <2>7 DEF Next
<1>2. \A r \in Runs : row[r] # NoRow => row'[r] # NoRow
  <2>1. CASE \E q \in Runs : CreateRun(q)
    <3>1. PICK q \in Runs : CreateRun(q)
      BY <2>1
    <3>2. \A r \in Runs \ {q} : row'[r] = row[r]
      BY <1>0, <3>1, CreateTouches
    <3>3. row[q] # NoRow => row'[q] # NoRow
      <4>1. Insert(q) => row[q] = NoRow
        BY <1>0 DEF Insert, ReadyToInsert, RowsExist
      <4>2. ASSUME RecordFailure(q) PROVE row'[q] \in Row
        <5>1. row[q] \in Row
          BY <1>0, <4>2 DEF RecordFailure, RowsExist
        <5>2. row' = [row EXCEPT ![q] = [row[q] EXCEPT !.status = "failed"]]
          BY <4>2 DEF RecordFailure
        <5>3. [row[q] EXCEPT !.status = "failed"] \in Row
          BY <5>1 DEF Row, RunStatus, Terminal
        <5>4. QED
          BY <1>0, <5>2, <5>3 DEF TypeOK
      <4>3. ASSUME RecordExecution(q) PROVE row'[q] \in Row
        <5>1. row[q] \in Row
          BY <1>0, <4>3 DEF RecordExecution, RowsExist
        <5>2. row' = [row EXCEPT ![q] = [row[q] EXCEPT !.named = TRUE]]
          BY <4>3 DEF RecordExecution
        <5>3. [row[q] EXCEPT !.named = TRUE] \in Row
          BY <5>1 DEF Row
        <5>4. QED
          BY <1>0, <5>2, <5>3 DEF TypeOK
      <4>4. CheckParent(q) \/ Deduplicate(q) \/ Trigger(q) \/ CreateCrash(q) => row' = row
        BY DEF CheckParent, Deduplicate, Trigger, CreateCrash
      <4>5. QED
        BY <3>1, <4>1, <4>2, <4>3, <4>4 DEF CreateRun
    <3>4. QED
      BY <3>2, <3>3
  <2>2. CASE \E q \in Runs : Platform(q) \/ PushMisses(q)
    BY <2>2 DEF Platform, PushMisses, StartExecution, WriteSummary, CompleteExecution,
       ForgetExecution, Age, tableVars
  <2>3. CASE \E s \in Sessions : Session(s)
    BY <1>0, <2>3, SessionRows
  <2>4. CASE UNCHANGED vars
    BY <2>4 DEF vars, tableVars
  <2>5. QED
    BY <2>1, <2>2, <2>3, <2>4 DEF Next
<1>3. QED
  <2>1. overlapped' \in SUBSET Runs /\ overlapped \in SUBSET Runs
    BY <1>0, NextKeeps DEF IInv, TypeOK
  <2>2. \A r \in overlapped' : row[r] # NoRow
    BY <1>1 DEF SInv
  <2>3. QED
    BY <1>2, <2>1, <2>2

LEMMA SInvKeeps == SInv /\ [Next]_vars => SInv'
<1> SUFFICES ASSUME SInv, [Next]_vars PROVE SInv'
  OBVIOUS
<1>0. IInv /\ TypeOK /\ RowsExist /\ Viewed
  BY DEF SInv, BInv, IInv
<1>1. BInv' /\ overlapped \subseteq overlapped' /\ \A r \in overlapped' : row'[r] # NoRow
  BY <1>0, BInvKeeps, OverlapsStay, OverlapsLast DEF SInv
<1>2. ASSUME NEW r \in Runs, r \notin overlapped'
      PROVE  Alone(r)' /\ \A s \in Sessions : Fresh(s, r)'
  <2>0. r \in Runs \ overlapped
    BY <1>1, <1>2
  <2>1. CASE \E s \in Sessions : Session(s)
    BY <1>2, <2>0, <2>1, SoleSurvives
  <2>2. CASE \E q \in Runs : CreateRun(q) \/ Platform(q) \/ PushMisses(q) \/ UNCHANGED vars
    <3>1. UNCHANGED <<sessionVars, completed, emails>>
      BY <1>0, <2>2, CreateTouches DEF Platform, PushMisses, StartExecution, WriteSummary,
         CompleteExecution, ForgetExecution, Age, outVars, vars
    <3>2. (\E s \in Sessions : view[s][r] # NoRow) => row'[r] = row[r]
      BY <1>0, <2>2, CreateTouches DEF Viewed, Platform, PushMisses, StartExecution, WriteSummary,
         CompleteExecution, ForgetExecution, Age, tableVars, vars
    <3>3. Alone(r) /\ \A s \in Sessions : Fresh(s, r)
      BY <2>0 DEF SInv, Single
    <3>4. QED
      BY <3>1, <3>2, <3>3 DEF Alone, Fresh, sessionVars
  <2>3. QED
    BY <2>1, <2>2 DEF Next
<1>3. \A r \in Runs \ overlapped' : Mailed(r)'
  BY <1>1, MailedKeeps
<1>4. QED
  BY <1>1, <1>2, <1>3 DEF SInv, Single

\* The requester of a run that no two sessions hold at once gets one notice at
\* most, though the event comes again after a crash at any step: Spec keeps
\* NotifiedOnce.
THEOREM OneNotice == Spec => []NotifiedOnce
<1>1. SInv => NotifiedOnce
  BY DEF SInv, Single, Mailed, NotifiedOnce
<1>2. QED
  BY <1>1, InitSInv, SInvKeeps, PTL DEF Spec

\* The step simulation: Insert opens, Commit settles, Publish announces, and a
\* second session at a run voids its contract.
LEMMA ContractInit == Init => Contract!Init
BY DEF Init, Contract!Init, Nothing, Terminal, Phase, VerdictOf, Announcements

\* What a step leaves of a run's contract.
Same(r) ==
  /\ Phase(r)' = Phase(r) /\ VerdictOf(r)' = VerdictOf(r)
  /\ Announcements(r)' = Announcements(r)

LEMMA ContractStutters ==
  ASSUME \A r \in Runs : Same(r)
  PROVE  UNCHANGED Contract!contractVars
BY DEF Same, Contract!contractVars

LEMMA OpenOrVoid ==
  ASSUME NEW r \in Runs, \/ r \in overlapped /\ r \in overlapped'
                         \/ /\ r \notin overlapped /\ r \notin overlapped'
                            /\ row[r] # NoRow /\ row'[r] # NoRow
                            /\ ~row[r].finalized /\ ~row'[r].finalized,
         completed'[r] = completed[r]
  PROVE  Same(r)
BY DEF Same, Phase, VerdictOf, Announcements

LEMMA Untouched ==
  ASSUME NEW r \in Runs, row'[r] = row[r], completed'[r] = completed[r], overlapped' = overlapped
  PROVE  Same(r)
BY DEF Same, Phase, VerdictOf, Announcements

LEMMA ContractOpens ==
  ASSUME NEW q \in Runs, \A r \in Runs \ {q} : Same(r),
         Phase(q) = "absent", Phase(q)' = "open", Announcements(q)' = Announcements(q)
  PROVE  Contract!Open(q)
<1>1. [r \in Runs |-> Phase(r)]' = [[r \in Runs |-> Phase(r)] EXCEPT ![q] = "open"]
  BY DEF Same
<1>2. VerdictOf(q)' = VerdictOf(q)
  BY DEF VerdictOf
<1>3. [r \in Runs |-> VerdictOf(r)]' = [r \in Runs |-> VerdictOf(r)]
  BY <1>2 DEF Same
<1>4. [r \in Runs |-> Announcements(r)]' = [r \in Runs |-> Announcements(r)]
  BY DEF Same
<1>5. QED
  BY <1>1, <1>3, <1>4 DEF Contract!Open

LEMMA ContractSettles ==
  ASSUME NEW q \in Runs, \A r \in Runs \ {q} : Same(r), NEW v \in Terminal,
         Phase(q) = "open", Phase(q)' = "settled", VerdictOf(q)' = v,
         Announcements(q)' = Announcements(q)
  PROVE  Contract!Settle(q)
<1>1. [r \in Runs |-> Phase(r)]' = [[r \in Runs |-> Phase(r)] EXCEPT ![q] = "settled"]
  BY DEF Same
<1>2. [r \in Runs |-> VerdictOf(r)]' = [[r \in Runs |-> VerdictOf(r)] EXCEPT ![q] = v]
  BY DEF Same
<1>3. [r \in Runs |-> Announcements(r)]' = [r \in Runs |-> Announcements(r)]
  BY DEF Same
<1>4. QED
  BY <1>1, <1>2, <1>3 DEF Contract!Settle

LEMMA ContractAnnounces ==
  ASSUME NEW q \in Runs, \A r \in Runs \ {q} : Same(r),
         Phase(q) = "settled", Phase(q)' = "settled", VerdictOf(q)' = VerdictOf(q),
         Announcements(q) = 0, Announcements(q)' = 1
  PROVE  Contract!Announce(q)
<1>1. [r \in Runs |-> Phase(r)]' = [r \in Runs |-> Phase(r)]
  BY DEF Same
<1>2. [r \in Runs |-> VerdictOf(r)]' = [r \in Runs |-> VerdictOf(r)]
  BY DEF Same
<1>3. [r \in Runs |-> Announcements(r)]' = [[r \in Runs |-> Announcements(r)] EXCEPT ![q] = 1]
  BY DEF Same
<1>4. QED
  BY <1>1, <1>2, <1>3 DEF Contract!Announce

LEMMA ContractVoids ==
  ASSUME NEW S \in SUBSET Runs, S # {}, \A r \in Runs \ S : Same(r),
         \A r \in S : /\ Phase(r) = "open" /\ Phase(r)' = "void" /\ VerdictOf(r)' = VerdictOf(r)
                      /\ Announcements(r)' = Announcements(r)
  PROVE  Contract!Void(S)
<1>1. [r \in Runs |-> Phase(r)]' = [r \in Runs |-> IF r \in S THEN "void"
                                                   ELSE [q \in Runs |-> Phase(q)][r]]
  BY DEF Same
<1>2. [r \in Runs |-> VerdictOf(r)]' = [r \in Runs |-> VerdictOf(r)]
  BY DEF Same
<1>3. [r \in Runs |-> Announcements(r)]' = [r \in Runs |-> Announcements(r)]
  BY DEF Same
<1>4. QED
  BY <1>1, <1>2, <1>3 DEF Contract!Void

LEMMA CreateKeepsContract ==
  ASSUME SInv, NEW q \in Runs, CreateRun(q)
  PROVE  [Contract!Next]_(Contract!contractVars)
<1> USE NoRowAssumption
<1>0. IInv /\ TypeOK /\ RowsExist /\ Begun(q) /\ UNCHANGED <<completed, overlapped>>
  BY CreateTouches DEF SInv, BInv, IInv, outVars
<1>1. \A r \in Runs \ {q} : row'[r] = row[r]
  BY <1>0, CreateTouches
<1>2. \A r \in Runs \ {q} : Same(r)
  BY <1>0, <1>1, Untouched
<1>3. CASE Insert(q)
  <2> DEFINE new == [status |-> "pending", named |-> FALSE, summary |-> "none",
                     finalized |-> FALSE, created |-> Cardinality(Rows)]
  <2>1. row' = [row EXCEPT ![q] = new] /\ row[q] = NoRow /\ q \notin overlapped
    BY <1>0, <1>3 DEF Insert, ReadyToInsert, RowsExist, SInv
  <2>2. new # NoRow /\ ~new.finalized
    <3>1. Cardinality(Rows) \in Nat
      BY RunsAssumption, FS_CardinalityType, FS_Subset DEF Rows
    <3>2. new \in Row
      BY <3>1 DEF Row, RunStatus, Summary
    <3>3. QED
      BY <3>2
  <2> HIDE DEF new
  <2>3. row'[q] = new
    BY <1>0, <2>1 DEF TypeOK
  <2>4. Phase(q) = "absent" /\ Phase(q)' = "open" /\ Announcements(q)' = Announcements(q)
    BY <1>0, <2>1, <2>2, <2>3 DEF Phase, Announcements
  <2>5. QED
    BY <1>2, <2>4, ContractOpens DEF Contract!Next
<1>4. CASE RecordFailure(q) \/ RecordExecution(q)
  <2>1. row[q] \in Row /\ ~row[q].finalized
    BY <1>0, <1>4 DEF RecordFailure, RecordExecution, RowsExist, Begun, Over
  <2>2. PICK new \in Row : row' = [row EXCEPT ![q] = new] /\ ~new.finalized
    <3>1. [row[q] EXCEPT !.status = "failed"] \in Row /\ [row[q] EXCEPT !.named = TRUE] \in Row
      BY <2>1 DEF Row, RunStatus, Terminal
    <3>2. \/ row' = [row EXCEPT ![q] = [row[q] EXCEPT !.status = "failed"]]
          \/ row' = [row EXCEPT ![q] = [row[q] EXCEPT !.named = TRUE]]
      BY <1>4 DEF RecordFailure, RecordExecution
    <3>3. ~[row[q] EXCEPT !.status = "failed"].finalized
          /\ ~[row[q] EXCEPT !.named = TRUE].finalized
      BY <2>1 DEF Row
    <3>4. QED
      BY <3>1, <3>2, <3>3
  <2>3. row'[q] = new
    BY <1>0, <2>2 DEF TypeOK
  <2>4. Same(q)
    BY <1>0, <2>1, <2>2, <2>3, OpenOrVoid
  <2>5. QED
    BY <1>2, <2>4, ContractStutters
<1>5. CASE row' = row
  BY <1>0, <1>5, Untouched, ContractStutters
<1>6. QED
  BY <1>3, <1>4, <1>5 DEF CreateRun, CheckParent, Deduplicate, Trigger, CreateCrash

\* A session that comes to hold a run which another holds voids its contract;
\* the run is open then.
LEMMA LoadingVoids ==
  ASSUME SInv, NEW L \in SUBSET Runs, \A r \in L : row[r] # NoRow /\ ~row[r].finalized,
         overlapped' = overlapped \cup HeldOf(L), row' = row, completed' = completed
  PROVE  [Contract!Next]_(Contract!contractVars)
<1> DEFINE S == HeldOf(L) \ overlapped
<1>0. TypeOK /\ PublishedIsDurable
  BY DEF SInv, BInv, IInv
<1>1. S \in SUBSET Runs /\ \A r \in S : r \in L
  BY DEF HeldOf
<1>2. \A r \in Runs \ S : r \in overlapped' <=> r \in overlapped
  OBVIOUS
<1>3. \A r \in Runs \ S : Same(r)
  BY <1>2 DEF Same, Phase, VerdictOf, Announcements
<1>4. ASSUME NEW r \in S
      PROVE  /\ Phase(r) = "open" /\ Phase(r)' = "void" /\ VerdictOf(r)' = VerdictOf(r)
             /\ Announcements(r)' = Announcements(r)
  <2>1. row[r] # NoRow /\ ~row[r].finalized /\ r \notin overlapped /\ r \in overlapped' /\ r \in Runs
    BY <1>1
  <2>2. Phase(r) = "open" /\ Phase(r)' = "void"
    BY <2>1 DEF Phase
  <2>3. VerdictOf(r)' = VerdictOf(r)
    BY <2>2 DEF VerdictOf
  <2>4. \A t \in Terminal : completed[r][t] = 0
    BY <1>0, <2>1 DEF PublishedIsDurable, TypeOK
  <2>5. Announcements(r) = 0 /\ Announcements(r)' = 0
    BY <2>1, <2>4 DEF Announcements, Terminal
  <2>6. QED
    BY <2>2, <2>3, <2>5
<1> HIDE DEF S
<1>5. CASE S = {}
  BY <1>3, <1>5, ContractStutters
<1>6. CASE S # {}
  <2>1. Contract!Void(S)
    BY <1>1, <1>3, <1>4, <1>6, ContractVoids
  <2>2. QED
    BY <1>1, <2>1 DEF Contract!Next
<1>7. QED
  BY <1>5, <1>6

LEMMA CommitSettles ==
  ASSUME SInv, NEW s \in Sessions, Commit(s)
  PROVE  [Contract!Next]_(Contract!contractVars)
<1> USE NoRowAssumption
<1>0. IInv /\ TypeOK /\ RowsExist
  BY DEF SInv, BInv, IInv
<1>1. PICK q \in Runs : q = cur[s]
  BY <1>0 DEF Commit, RowsExist, Working
<1> DEFINE verdict == TerminalStatus(seen[s], got[s])
<1> DEFINE new == [row[q] EXCEPT
                     !.status = IF verdict = view[s][q].status THEN @ ELSE verdict,
                     !.summary = IF got[s] = "none" THEN @ ELSE got[s],
                     !.finalized = TRUE]
<1>2. row[q] \in Row /\ view[s][q] # NoRow /\ at[s] = "read"
  BY <1>0, <1>1 DEF Commit, RowsExist, Working
<1>3. q \notin overlapped => ~row[q].finalized /\ view[s][q].status = row[q].status
  BY <1>1, <1>2 DEF SInv, Single, Fresh
<1>4. verdict \in Terminal
  BY DEF TerminalStatus, Terminal
<1>5. row' = [row EXCEPT ![q].status = IF verdict = view[s][q].status THEN @ ELSE verdict,
                         ![q].summary = IF got[s] = "none" THEN @ ELSE got[s],
                         ![q].finalized = TRUE]
  BY <1>1 DEF Commit
<1> HIDE DEF verdict
<1>6. new.status = IF verdict = view[s][q].status THEN row[q].status ELSE verdict
  BY <1>2 DEF Row
<1>7. row' = [row EXCEPT ![q] = new] /\ new.finalized
  BY <1>0, <1>2, <1>5 DEF TypeOK, Row
<1>8. new \in Row
  <2>1. (IF got[s] = "none" THEN row[q].summary ELSE got[s]) \in Summary
    BY <1>0, <1>2 DEF TypeOK, Row
  <2>2. (IF verdict = view[s][q].status THEN row[q].status ELSE verdict) \in RunStatus
    BY <1>2, <1>4 DEF Row, RunStatus
  <2>3. QED
    BY <1>2, <2>1, <2>2 DEF Row
<1> HIDE DEF new
<1>9. \A r \in Runs : row'[r] = IF r = q THEN new ELSE row[r]
  BY <1>0, <1>7 DEF TypeOK
<1>10. UNCHANGED <<completed, overlapped>>
  BY DEF Commit, outVars
<1>11. \A r \in Runs \ {q} : Same(r)
  BY <1>9, <1>10, Untouched
<1>12. CASE q \in overlapped
  <2>1. Same(q)
    BY <1>10, <1>12, OpenOrVoid
  <2>2. QED
    BY <1>11, <2>1, ContractStutters
<1>13. CASE q \notin overlapped
  <2>1. new.status = verdict
    BY <1>3, <1>6, <1>13
  <2>2. Phase(q) = "open" /\ Phase(q)' = "settled"
    BY <1>2, <1>3, <1>7, <1>8, <1>9, <1>10, <1>13 DEF Phase
  <2>3. VerdictOf(q)' = verdict /\ Announcements(q)' = Announcements(q)
    BY <1>9, <1>10, <2>1, <2>2 DEF VerdictOf, Announcements
  <2>4. Contract!Settle(q)
    BY <1>4, <1>11, <2>2, <2>3, ContractSettles
  <2>5. QED
    BY <2>4 DEF Contract!Next
<1>14. QED
  BY <1>12, <1>13

LEMMA PublishAnnounces ==
  ASSUME SInv, NEW s \in Sessions, Publish(s)
  PROVE  [Contract!Next]_(Contract!contractVars)
<1> USE NoRowAssumption
<1>0. IInv /\ TypeOK /\ RowsExist /\ CommittedFirst
  BY DEF SInv, BInv, IInv
<1>1. PICK q \in Runs : q = cur[s]
  BY <1>0 DEF Publish, RowsExist, Working
<1> DEFINE st == view[s][q].status
<1>2. /\ row[q] # NoRow /\ row[q].finalized /\ st \in Terminal /\ view[s][q] # NoRow
      /\ at[s] = "publish"
  BY <1>0, <1>1 DEF Publish, RowsExist, Working, CommittedFirst
<1>3. q \notin overlapped => \A t \in Terminal : completed[q][t] = 0
  BY <1>1, <1>2 DEF SInv, Single, Fresh
<1>4. row' = row /\ overlapped' = overlapped
  BY DEF Publish, tableVars
<1>5. CASE completed' = completed
  BY <1>4, <1>5, Untouched, ContractStutters
<1>6. CASE completed' = [completed EXCEPT ![q][st] = @ + 1]
  <2>1. completed[q] \in [Terminal -> Nat]
    BY <1>0 DEF TypeOK
  <2>2. \A r \in Runs : completed'[r] = IF r = q THEN [completed[r] EXCEPT ![st] = @ + 1]
                                        ELSE completed[r]
    BY <1>0, <1>6 DEF TypeOK
  <2> HIDE DEF st
  <2>3. \A r \in Runs \ {q} : Same(r)
    BY <1>4, <2>2, Untouched
  <2>4. CASE q \in overlapped
    <3>1. Same(q)
      BY <1>4, <2>4 DEF Same, Phase, VerdictOf, Announcements
    <3>2. QED
      BY <2>3, <3>1, ContractStutters
  <2>5. CASE q \notin overlapped
    <3>1. \A t \in Terminal : completed'[q][t] = IF t = st THEN 1 ELSE 0
      <4>1. completed'[q] = [completed[q] EXCEPT ![st] = completed[q][st] + 1]
        BY <2>2
      <4>2. st \in Terminal /\ completed[q][st] = 0
        BY <1>2, <1>3, <2>5
      <4>3. QED
        BY <1>3, <2>1, <2>5, <4>1, <4>2
    <3>2. Announcements(q) = 0 /\ Announcements(q)' = 1
      BY <1>2, <1>3, <1>4, <2>5, <3>1 DEF Terminal, Announcements
    <3>3. Phase(q) = "settled" /\ Phase(q)' = "settled" /\ VerdictOf(q)' = VerdictOf(q)
      BY <1>2, <1>4, <2>5 DEF Phase, VerdictOf
    <3>4. QED
      BY <2>3, <3>2, <3>3, ContractAnnounces DEF Contract!Next
  <2>6. QED
    BY <2>4, <2>5
<1>7. QED
  BY <1>1, <1>5, <1>6 DEF Publish

LEMMA SessionKeepsContract ==
  ASSUME SInv, NEW s \in Sessions, Session(s)
  PROVE  [Contract!Next]_(Contract!contractVars)
<1> USE NoRowAssumption
<1>0. IInv /\ TypeOK /\ RowsExist
  BY DEF SInv, BInv, IInv
<1>1. CASE MarkRunning(s)
  <2>0. PICK q \in Runs : q = cur[s]
    BY <1>0, <1>1 DEF MarkRunning, RowsExist, Working
  <2> DEFINE new == [row[q] EXCEPT !.status = "running"]
  <2>1. row[q] \in Row /\ (q \notin overlapped => ~row[q].finalized)
    BY <1>0, <1>1, <2>0 DEF MarkRunning, RowsExist, Working, SInv, Single, Fresh
  <2>2. row' = [row EXCEPT ![q] = new] /\ new \in Row /\ new.finalized = row[q].finalized
    BY <1>0, <1>1, <2>0, <2>1 DEF MarkRunning, TypeOK, Row, RunStatus
  <2> HIDE DEF new
  <2>3. \A r \in Runs : row'[r] = IF r = q THEN new ELSE row[r]
    BY <1>0, <2>2 DEF TypeOK
  <2>4. UNCHANGED <<completed, overlapped>>
    BY <1>1 DEF MarkRunning, outVars
  <2>5. Same(q)
    BY <2>1, <2>2, <2>3, <2>4, OpenOrVoid
  <2>6. \A r \in Runs \ {q} : Same(r)
    BY <2>3, <2>4, Untouched
  <2>7. QED
    BY <2>5, <2>6, ContractStutters
<1>2. ASSUME NEW q \in Runs, PushFinds(s, q) PROVE [Contract!Next]_(Contract!contractVars)
  <2>1. row' = row /\ completed' = completed /\ row[q] # NoRow
    BY <1>2 DEF PushFinds, tableVars
  <2>2. CASE row[q].finalized
    <3>1. overlapped' = overlapped
      BY <1>2, <2>2 DEF PushFinds
    <3>2. QED
      BY <2>1, <3>1, Untouched, ContractStutters
  <2>3. CASE ~row[q].finalized
    <3>1. overlapped' = overlapped \cup HeldOf({q})
      BY <1>2, <2>3 DEF PushFinds
    <3>2. QED
      BY <2>1, <2>3, <3>1, LoadingVoids
  <2>4. QED
    BY <2>2, <2>3
<1>3. CASE SweepLoad(s)
  <2>1. PICK L \in SUBSET Stale : overlapped' = overlapped \cup HeldOf(L)
    BY <1>3 DEF SweepLoad
  <2>2. L \in SUBSET Runs /\ \A r \in L : row[r] # NoRow /\ ~row[r].finalized
    BY DEF Stale, Rows
  <2>3. row' = row /\ completed' = completed
    BY <1>3 DEF SweepLoad, tableVars
  <2>4. QED
    BY <2>1, <2>2, <2>3, LoadingVoids
<1>4. CASE /\ ~MarkRunning(s) /\ ~Commit(s) /\ ~Publish(s) /\ ~SweepLoad(s)
           /\ ~\E q \in Runs : PushFinds(s, q)
  <2>1. UNCHANGED <<row, completed, overlapped>>
    BY <1>4 DEF Session, Finalize, SweepVisit, SweepEnd, Poll, StillGoing, ReadResults, Notify,
       PushError, SweepError, SessionCrash, tableVars, outVars
  <2>2. QED
    BY <2>1, Untouched, ContractStutters
<1>5. QED
  BY <1>1, <1>2, <1>3, <1>4, CommitSettles, PublishAnnounces

\* The service keeps RunContract of every run that no two sessions hold at
\* once: a row is opened once, settled once with a verdict that stands, and
\* announced at most once and after that; a second session at an open run voids
\* the contract of that run alone.
THEOREM ContractKept == Spec => KeepsContract
<1>1. SInv /\ [Next]_vars => [Contract!Next]_(Contract!contractVars)
  <2> SUFFICES ASSUME SInv, [Next]_vars PROVE [Contract!Next]_(Contract!contractVars)
    OBVIOUS
  <2>1. CASE UNCHANGED vars \/ \E q \in Runs : Platform(q) \/ PushMisses(q)
    <3>1. UNCHANGED <<row, completed, overlapped>>
      BY <2>1 DEF vars, tableVars, outVars, Platform, PushMisses, StartExecution, WriteSummary,
         CompleteExecution, ForgetExecution, Age
    <3>2. QED
      BY <3>1, Untouched, ContractStutters
  <2>2. QED
    BY <2>1, CreateKeepsContract, SessionKeepsContract DEF Next
<1>2. QED
  BY <1>1, InitSInv, SInvKeeps, ContractInit, PTL DEF Spec, KeepsContract, Contract!Spec
=============================================================================
