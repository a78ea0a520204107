---------------------------- MODULE CheckFacts ----------------------------
(***************************************************************************)
(* The pure check and merge-blocker rules shared by `pr checks`,           *)
(* `merge plan`, `merge execute` and `cr inventory`: how raw commit        *)
(* statuses become a check conclusion, which required contexts are         *)
(* reported missing or pending, and which blockers follow.                 *)
(*                                                                         *)
(* A status map gives, for every context, the raw state of its latest      *)
(* record on one commit, or Absent.  Blocker lists are sets: the code      *)
(* never emits one twice and their order means nothing.                    *)
(***************************************************************************)
EXTENDS Integers

Absent == "absent"

(* Raw states a forge can store for a commit status. *)
RawStates == {"success", "pending", "failure", "error", "warning"}

(* normalizeGiteaStatusState: anything not recognised is `unknown`. *)
NormalizeStatusState(raw) ==
    CASE raw = "success"            -> "success"
      [] raw = "pending"            -> "pending"
      [] raw \in {"failure", "error"} -> "failure"
      [] OTHER                      -> "unknown"

Present(st) == {x \in DOMAIN st : st[x] # Absent}

ContextsIn(st, state) ==
    {x \in Present(st) : NormalizeStatusState(st[x]) = state}

(* summarizeChecks: failure wins over pending, pending over the rest. *)
Conclusion(st) ==
    IF Present(st) = {} THEN "missing"
    ELSE IF ContextsIn(st, "failure") # {} THEN "failure"
    ELSE IF ContextsIn(st, "pending") # {} THEN "pending"
    ELSE IF ContextsIn(st, "success") = Present(st) THEN "success"
    ELSE "unknown"

(* buildPrChecksBody / buildCheckDiagnostics over the statuses of `sha`.    *)
(* Gitea stamps every status with the commit it was read from, so no       *)
(* context is ever stale relative to that commit.                          *)
ChecksBody(sha, st, required, truncated) ==
    [sha         |-> sha,
     conclusion  |-> Conclusion(st),
     truncated   |-> truncated,
     missingReq  |-> required \ Present(st),
     pendingReq  |-> required \cap ContextsIn(st, "pending")]

When(cond, blocker) == IF cond THEN {blocker} ELSE {}

(* diagnosticBlockers *)
DiagnosticBlockers(checks) ==
    When(checks.missingReq # {}, "required_checks_missing")
        \cup When(checks.pendingReq # {}, "required_checks_pending")

(* The two halves of mergeBlockersFromFacts: what it takes from the checks, *)
CheckBlockers(checks, policy) ==
    When(checks.truncated, "checks_incomplete")
        \cup When(checks.conclusion = "failure", "checks_failed")
        \cup When(checks.conclusion = "missing" /\ ~policy.allowMissing, "checks_missing")
        \cup When(checks.conclusion = "pending" /\ ~policy.allowPending, "checks_pending")
        \cup DiagnosticBlockers(checks)

(* and what it takes from the pull.                                         *)
ViewBlockers(view) ==
    When(view.mergeability = "conflicted", "merge_conflict")
        \cup When(view.state # "open", "pr_not_open")

(* mergeBlockersFromFacts without a path scope (merge execute passes none). *)
MergeBlockers(view, checks, policy) == ViewBlockers(view) \cup CheckBlockers(checks, policy)
===========================================================================
