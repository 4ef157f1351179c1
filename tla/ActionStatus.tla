---------------------------- MODULE ActionStatus ----------------------------
(***************************************************************************)
(* The statuses of a managed action and the transitions between them:      *)
(* app/models/actions.py, app/action/state_machine.py, and the groups of   *)
(* statuses that app/action/approval.py, app/measurement/runner.py and     *)
(* app/api/app.py decide by.  Constant definitions only.                   *)
(***************************************************************************)

ActionStatuses ==
    {"planned", "awaiting_approval", "approved", "rejected", "executing",
     "executed", "waiting_for_recrawl", "measurement_window_active",
     "evaluating", "succeeded", "failed", "inconclusive", "rolled_back"}

\* ALLOWED_TRANSITIONS
AllowedTransitions(from) ==
    CASE from = "planned"             -> {"awaiting_approval", "rejected"}
      [] from = "awaiting_approval"   -> {"approved", "rejected"}
      [] from = "approved"            -> {"executing", "rejected"}
      [] from = "executing"           -> {"executed", "failed"}
      [] from = "executed"            -> {"waiting_for_recrawl", "failed", "rolled_back"}
      [] from = "waiting_for_recrawl" -> {"measurement_window_active", "failed", "rolled_back"}
      [] from = "measurement_window_active" -> {"evaluating", "failed", "rolled_back"}
      [] from = "evaluating"          -> {"succeeded", "failed", "inconclusive", "rolled_back"}
      [] from \in {"succeeded", "failed", "inconclusive"} -> {"rolled_back"}
      [] OTHER                        -> {}

CanTransition(from, to) == to \in AllowedTransitions(from)

\* ROLLBACKABLE_STATUSES: a change that has reached the site can be undone.
RollbackableStatuses ==
    {"executed", "waiting_for_recrawl", "measurement_window_active",
     "evaluating", "failed", "succeeded", "inconclusive"}

\* The statuses the execute_action handler does not skip.
ExecutableStatuses == {"approved", "executing", "executed"}

\* Faulty variant: an action with an outcome is still watched.
WatchedForEver ==
    {"measurement_window_active", "evaluating", "succeeded", "failed", "inconclusive"}

\* _WATCHED: what a measurement round looks at.
WatchedStatuses == {"measurement_window_active", "evaluating"}

\* OutcomeStatus, as the status it gives the action.
OutcomeStatuses == {"succeeded", "failed", "inconclusive"}
=============================================================================
