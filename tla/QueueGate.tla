----------------------------- MODULE QueueGate -----------------------------
(***************************************************************************)
(* The pure decisions that gate a landing: the per-change gate of          *)
(* stackService.computeMergeability, the queue's verdict on a blocked      *)
(* change (mergeQueue/queueGate.ts) and the per-branch policy of           *)
(* branchProtection/branchProtection.ts.                                   *)
(*                                                                         *)
(* The checks of a change are a function from check names to check rows:   *)
(* the table is unique on (changeId, name).  A branch glob is the set of   *)
(* branch names it matches.                                                *)
(***************************************************************************)
EXTENDS Naturals

CheckStatus ==
  {"pending", "running", "passed", "failed", "errored", "skipped"}

Check == [status : CheckStatus, required : BOOLEAN]

Verdict == {"passed", "failed", "pending"}

RequiredChecks(checks) == {n \in DOMAIN checks : checks[n].required}

blockingChecks(checks) ==
  {n \in RequiredChecks(checks) : checks[n].status # "passed"}

computeMergeability(checks) ==
  [mergeable      |-> blockingChecks(checks) = {},
   blockingChecks |-> blockingChecks(checks)]

\* Mutant: a skipped check is taken as passed by one of the two gates only
classifySkippedAsPassed(checks) ==
  IF \E n \in RequiredChecks(checks) : checks[n].status = "failed"
    THEN "failed"
    ELSE IF \A n \in RequiredChecks(checks) : checks[n].status \in {"passed", "skipped"}
           THEN "passed"
           ELSE "pending"

classifyRequiredChecks(checks) ==
  IF \E n \in RequiredChecks(checks) : checks[n].status = "failed"
    THEN "failed"
    ELSE IF \A n \in RequiredChecks(checks) : checks[n].status = "passed"
           THEN "passed"
           ELSE "pending"

(***************************************************************************)
(* A rule is [refPattern : a set of branches, requiredApprovals : Nat,     *)
(* requirePassingChecks : BOOLEAN].  One reason per unmet condition; two   *)
(* rules asking for the same number of approvals give one reason, as the   *)
(* code collects the texts in a Set.                                       *)
(***************************************************************************)
\* Mutant: only the most specific of the matching rules applies
oneRuleForBranch(rules, branch) ==
  LET matching == {r \in rules : branch \in r.refPattern}
  IN  {r \in matching : \A q \in matching : ~(q.refPattern \subseteq r.refPattern /\ q.refPattern # r.refPattern)}

rulesForBranch(rules, branch) == {r \in rules : branch \in r.refPattern}

evaluateBranchProtection(rules, branch, context) ==
  LET matching == rulesForBranch(rules, branch)
      reasons  ==
        {<<"approvals", r.requiredApprovals>> :
           r \in {m \in matching : context.approvals < m.requiredApprovals}}
        \cup
        {<<"checks", context.checkVerdict>> :
           r \in {m \in matching : /\ m.requirePassingChecks
                                   /\ context.checkVerdict # "passed"}}
  IN  [allowed |-> reasons = {}, reasons |-> reasons]
=============================================================================
