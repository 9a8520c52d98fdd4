--------------------------- MODULE TaskRepository ---------------------------
(***************************************************************************)
(* The table arbitrage_tasks and the repository every worker writes it     *)
(* with (app/db/task_repository.py).  A row is created once, under a       *)
(* UNIQUE idempotency key, and is then overwritten by mark_* calls of      *)
(* three different processes.  None of the mark_* methods looks at the     *)
(* status it replaces: each one is an unconditional assignment followed by *)
(* a commit, so each is one atomic step here.                              *)
(*                                                                         *)
(* A task is identified by its idempotency key (user, message, strategy).  *)
(* task_uuid is drawn together with the row and is equally UNIQUE, so the  *)
(* two name the same thing.                                                *)
(***************************************************************************)
EXTENDS Naturals, Sequences, FiniteSets

CONSTANTS
    TaskIds,     \* the idempotency keys a row may have
    Exchanges    \* the exchanges a leg may be placed on

VARIABLE
    tasks        \* the rows: a function whose domain is the set of created tasks

None == "None"

Statuses == {"CREATED", "DISPATCHED", "EXECUTING", "SUCCEEDED", "FAILED", "BLOCKED"}

(* status_reason is an error text, a block reason or manual_required; the  *)
(* time columns only matter as "set" or "not set" (they are never cleared) *)
Row == [status           : Statuses,
        status_reason    : {None, "error", "blocked", "manual_required"},
        execution_status : {None, "OPEN_HEDGED", "OPEN_PARTIAL"},
        failed_exchanges : SUBSET Exchanges,
        repair_reason    : {None, "fully_hedged", "one_leg_failed", "repair_succeeded"},
        dispatched_at    : BOOLEAN,
        finished_at      : BOOLEAN]

NewRow == [status           |-> "CREATED",
           status_reason    |-> None,
           execution_status |-> None,
           failed_exchanges |-> {},
           repair_reason    |-> None,
           dispatched_at    |-> FALSE,
           finished_at      |-> FALSE]

TasksTypeOK == /\ DOMAIN tasks \subseteq TaskIds
               /\ \A t \in DOMAIN tasks : tasks[t] \in Row

TasksInit == tasks = [t \in {} |-> NewRow]

-----------------------------------------------------------------------------
(* Mutants: an upsert instead of the INSERT; a forgotten commit.           *)
create_task_Upsert(t) ==
    tasks' = [k \in DOMAIN tasks \cup {t} |-> IF k = t THEN NewRow ELSE tasks[k]]

create_task_NoCommit(t) == t \notin DOMAIN tasks /\ UNCHANGED tasks

(* create_task: the INSERT fails with IntegrityError when the key exists.  *)
create_task(t) ==
    /\ t \notin DOMAIN tasks
    /\ tasks' = [k \in DOMAIN tasks \cup {t} |-> IF k = t THEN NewRow ELSE tasks[k]]

(* Mutant: a time column is forgotten.                                     *)
mark_blocked_NoTime(t) ==
    t \in DOMAIN tasks /\ tasks' = [tasks EXCEPT ![t].status = "BLOCKED",
                                              ![t].status_reason = "blocked"]

(* The mark_* methods; _require_task is the membership conjunct.           *)
mark_dispatched(t) ==
    /\ t \in DOMAIN tasks
    /\ tasks' = [tasks EXCEPT ![t].status = "DISPATCHED",
                              ![t].dispatched_at = TRUE]

mark_executing(t) ==
    /\ t \in DOMAIN tasks
    /\ tasks' = [tasks EXCEPT ![t].status = "EXECUTING"]

mark_failed(t) ==
    /\ t \in DOMAIN tasks
    /\ tasks' = [tasks EXCEPT ![t].status = "FAILED",
                              ![t].status_reason = "error",
                              ![t].finished_at = TRUE]

mark_blocked(t) ==
    /\ t \in DOMAIN tasks
    /\ tasks' = [tasks EXCEPT ![t].status = "BLOCKED",
                              ![t].status_reason = "blocked",
                              ![t].finished_at = TRUE]

mark_execution_result(t, lifecycle, execution, failed, reason) ==
    /\ t \in DOMAIN tasks
    /\ tasks' = [tasks EXCEPT ![t].status = lifecycle,
                              ![t].status_reason = None,
                              ![t].execution_status = execution,
                              ![t].failed_exchanges = failed,
                              ![t].repair_reason = reason,
                              ![t].finished_at = TRUE]

mark_repair_result(t, lifecycle, execution, failed, reason, statusReason) ==
    /\ t \in DOMAIN tasks
    /\ tasks' = [tasks EXCEPT ![t].status = lifecycle,
                              ![t].status_reason = statusReason,
                              ![t].execution_status = execution,
                              ![t].failed_exchanges = failed,
                              ![t].repair_reason = reason,
                              ![t].finished_at = TRUE]
=============================================================================
