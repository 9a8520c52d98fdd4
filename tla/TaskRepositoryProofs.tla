------------------------ MODULE TaskRepositoryProofs ------------------------
(***************************************************************************)
(* What each write of the task repository does to the table, in the form   *)
(* the proofs about the workers use: the set of rows, the types, the other *)
(* rows, and the columns the workers' invariants are about.                *)
(***************************************************************************)
EXTENDS TaskRepository, TLAPS

(* What every mark_* method has in common.                                 *)
OnlyRowChanges(t) ==
    /\ TasksTypeOK'
    /\ t \in DOMAIN tasks
    /\ DOMAIN tasks' = DOMAIN tasks
    /\ \A k \in DOMAIN tasks : k # t => tasks'[k] = tasks[k]

LEMMA CreateTaskRow ==
    ASSUME NEW t \in TaskIds, TasksTypeOK, create_task(t)
    PROVE  /\ TasksTypeOK'
           /\ t \notin DOMAIN tasks
           /\ DOMAIN tasks' = DOMAIN tasks \cup {t}
           /\ \A k \in DOMAIN tasks : tasks'[k] = tasks[k]
           /\ tasks'[t].status = "CREATED"
           /\ ~tasks'[t].dispatched_at
           /\ ~tasks'[t].finished_at
           /\ tasks'[t].execution_status = None
           /\ tasks'[t].repair_reason = None
<1>1. NewRow \in Row
  BY DEF NewRow, Row, Statuses, None
<1>2. /\ t \notin DOMAIN tasks
      /\ DOMAIN tasks' = DOMAIN tasks \cup {t}
      /\ \A k \in DOMAIN tasks : tasks'[k] = tasks[k]
      /\ tasks'[t] = NewRow
  BY DEF create_task
<1>3. TasksTypeOK'
  BY <1>1, <1>2 DEF TasksTypeOK
<1> QED
  BY <1>2, <1>3 DEF NewRow

LEMMA MarkDispatchedRow ==
    ASSUME NEW t, TasksTypeOK, mark_dispatched(t)
    PROVE  /\ OnlyRowChanges(t)
           /\ tasks'[t].status = "DISPATCHED"
           /\ tasks'[t].dispatched_at
           /\ tasks'[t].finished_at = tasks[t].finished_at
           /\ tasks'[t].execution_status = tasks[t].execution_status
           /\ tasks'[t].repair_reason = tasks[t].repair_reason
<1>1. tasks[t] \in Row
  BY DEF TasksTypeOK, mark_dispatched
<1>2. tasks'[t] = [tasks[t] EXCEPT !.status = "DISPATCHED", !.dispatched_at = TRUE]
  BY DEF mark_dispatched
<1>3. tasks'[t] \in Row
  BY <1>1, <1>2 DEF Row, Statuses
<1>4. OnlyRowChanges(t)
  BY <1>3 DEF OnlyRowChanges, mark_dispatched, TasksTypeOK
<1> QED
  BY <1>1, <1>2, <1>4 DEF Row

LEMMA MarkExecutingRow ==
    ASSUME NEW t, TasksTypeOK, mark_executing(t)
    PROVE  /\ OnlyRowChanges(t)
           /\ tasks'[t].status = "EXECUTING"
           /\ tasks'[t].dispatched_at = tasks[t].dispatched_at
           /\ tasks'[t].finished_at = tasks[t].finished_at
           /\ tasks'[t].execution_status = tasks[t].execution_status
           /\ tasks'[t].repair_reason = tasks[t].repair_reason
<1>1. tasks[t] \in Row
  BY DEF TasksTypeOK, mark_executing
<1>2. tasks'[t] = [tasks[t] EXCEPT !.status = "EXECUTING"]
  BY DEF mark_executing
<1>3. tasks'[t] \in Row
  BY <1>1, <1>2 DEF Row, Statuses
<1>4. OnlyRowChanges(t)
  BY <1>3 DEF OnlyRowChanges, mark_executing, TasksTypeOK
<1> QED
  BY <1>1, <1>2, <1>4 DEF Row

LEMMA MarkFailedRow ==
    ASSUME NEW t, TasksTypeOK, mark_failed(t)
    PROVE  /\ OnlyRowChanges(t)
           /\ tasks'[t].status = "FAILED"
           /\ tasks'[t].finished_at
           /\ tasks'[t].dispatched_at = tasks[t].dispatched_at
           /\ tasks'[t].execution_status = tasks[t].execution_status
           /\ tasks'[t].repair_reason = tasks[t].repair_reason
<1>1. tasks[t] \in Row
  BY DEF TasksTypeOK, mark_failed
<1>2. tasks'[t] = [tasks[t] EXCEPT !.status = "FAILED", !.status_reason = "error",
                                   !.finished_at = TRUE]
  BY DEF mark_failed
<1>3. tasks'[t] \in Row
  BY <1>1, <1>2 DEF Row, Statuses
<1>4. OnlyRowChanges(t)
  BY <1>3 DEF OnlyRowChanges, mark_failed, TasksTypeOK
<1> QED
  BY <1>1, <1>2, <1>4 DEF Row

LEMMA MarkBlockedRow ==
    ASSUME NEW t, TasksTypeOK, mark_blocked(t)
    PROVE  /\ OnlyRowChanges(t)
           /\ tasks'[t].status = "BLOCKED"
           /\ tasks'[t].finished_at
           /\ tasks'[t].dispatched_at = tasks[t].dispatched_at
           /\ tasks'[t].execution_status = tasks[t].execution_status
           /\ tasks'[t].repair_reason = tasks[t].repair_reason
<1>1. tasks[t] \in Row
  BY DEF TasksTypeOK, mark_blocked
<1>2. tasks'[t] = [tasks[t] EXCEPT !.status = "BLOCKED", !.status_reason = "blocked",
                                   !.finished_at = TRUE]
  BY DEF mark_blocked
<1>3. tasks'[t] \in Row
  BY <1>1, <1>2 DEF Row, Statuses
<1>4. OnlyRowChanges(t)
  BY <1>3 DEF OnlyRowChanges, mark_blocked, TasksTypeOK
<1> QED
  BY <1>1, <1>2, <1>4 DEF Row

LEMMA MarkExecutionResultRow ==
    ASSUME NEW t, NEW lifecycle \in Statuses, NEW execution \in {"OPEN_HEDGED", "OPEN_PARTIAL"},
           NEW failed \in SUBSET Exchanges, NEW reason \in {"fully_hedged", "one_leg_failed"},
           TasksTypeOK, mark_execution_result(t, lifecycle, execution, failed, reason)
    PROVE  /\ OnlyRowChanges(t)
           /\ tasks'[t].status = lifecycle
           /\ tasks'[t].finished_at
           /\ tasks'[t].dispatched_at = tasks[t].dispatched_at
           /\ tasks'[t].execution_status = execution
           /\ tasks'[t].repair_reason = reason
<1>1. tasks[t] \in Row
  BY DEF TasksTypeOK, mark_execution_result
<1>2. tasks'[t] = [tasks[t] EXCEPT !.status = lifecycle, !.status_reason = None,
                                   !.execution_status = execution,
                                   !.failed_exchanges = failed,
                                   !.repair_reason = reason,
                                   !.finished_at = TRUE]
  BY DEF mark_execution_result
<1>3. tasks'[t] \in Row
  <2>1. /\ tasks'[t] = [f \in DOMAIN tasks[t] |-> tasks'[t][f]]
        /\ tasks'[t].status = lifecycle /\ tasks'[t].status_reason = None
        /\ tasks'[t].execution_status = execution /\ tasks'[t].failed_exchanges = failed
        /\ tasks'[t].repair_reason = reason /\ tasks'[t].finished_at = TRUE
        /\ tasks'[t].dispatched_at = tasks[t].dispatched_at
    BY <1>1, <1>2 DEF Row
  <2> QED
    BY <1>1, <1>2, <2>1 DEF Row
<1>4. OnlyRowChanges(t)
  BY <1>3 DEF OnlyRowChanges, mark_execution_result, TasksTypeOK
<1> QED
  BY <1>1, <1>2, <1>4 DEF Row

LEMMA MarkRepairResultRow ==
    ASSUME NEW t, NEW lifecycle \in Statuses, NEW execution \in {"OPEN_HEDGED", "OPEN_PARTIAL"},
           NEW failed \in SUBSET Exchanges, NEW reason \in {"one_leg_failed", "repair_succeeded"},
           NEW statusReason \in {None, "manual_required"},
           TasksTypeOK, mark_repair_result(t, lifecycle, execution, failed, reason, statusReason)
    PROVE  /\ OnlyRowChanges(t)
           /\ tasks'[t].status = lifecycle
           /\ tasks'[t].finished_at
           /\ tasks'[t].repair_reason = reason
           /\ tasks'[t].dispatched_at = tasks[t].dispatched_at
<1>1. tasks[t] \in Row
  BY DEF TasksTypeOK, mark_repair_result
<1>2. tasks'[t] = [tasks[t] EXCEPT !.status = lifecycle, !.status_reason = statusReason,
                                   !.execution_status = execution,
                                   !.failed_exchanges = failed,
                                   !.repair_reason = reason,
                                   !.finished_at = TRUE]
  BY DEF mark_repair_result
<1>3. tasks'[t] \in Row
  <2>1. /\ tasks'[t] = [f \in DOMAIN tasks[t] |-> tasks'[t][f]]
        /\ tasks'[t].status = lifecycle /\ tasks'[t].status_reason = statusReason
        /\ tasks'[t].execution_status = execution /\ tasks'[t].failed_exchanges = failed
        /\ tasks'[t].repair_reason = reason /\ tasks'[t].finished_at = TRUE
        /\ tasks'[t].dispatched_at = tasks[t].dispatched_at
    BY <1>1, <1>2 DEF Row
  <2> QED
    BY <1>1, <1>2, <2>1 DEF Row
<1>4. OnlyRowChanges(t)
  BY <1>3 DEF OnlyRowChanges, mark_repair_result, TasksTypeOK
<1> QED
  BY <1>1, <1>2, <1>4 DEF Row
=============================================================================
