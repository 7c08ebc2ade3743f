--------------------------- MODULE DecisionProofs ---------------------------
(***************************************************************************)
(* Theorems about the decisions: each is first a fact about the operators, *)
(* for all rows, rules, scopes and updates there can be, and then an       *)
(* invariant of the states MCDecisions enumerates.                         *)
(***************************************************************************)
EXTENDS MCDecisions, FiniteSetTheorems, SequenceTheorems, WellFoundedInduction, TLAPS

-----------------------------------------------------------------------------
(* The landing gates *)

\* Both gates call the same checks passed.
LEMMA SameGate ==
  ASSUME NEW k
  PROVE  computeMergeability(k).mergeable <=> classifyRequiredChecks(k) = "passed"
BY DEF computeMergeability, classifyRequiredChecks, blockingChecks

\* The queue's verdict on a change and its mergeability agree (MCQueueGate!GatesAgree),
\* on every set of checks there can be.
THEOREM GatesAlwaysAgree == DecisionsSpec => []GatesAgree
<1>1. GatesAgree BY SameGate DEF GatesAgree, verdict
<1> QED BY <1>1, PTL

\* A finite set of numbers has a largest one.
LEMMA LargestExists ==
  ASSUME NEW S \in SUBSET Nat, IsFiniteSet(S), S # {}
  PROVE  \E m \in S : \A x \in S : x <= m
<1> DEFINE HasLargest(U) == \E m \in U : \A x \in U : x <= m
           Without == {U \in FiniteSubsetsOf(S) : U # {} /\ ~HasLargest(U)}
<1> SUFFICES ASSUME ~HasLargest(S) PROVE FALSE
  OBVIOUS
<1>1. S \in Without BY DEF FiniteSubsetsOf
<1>2. PICK U \in Without :
        \A V \in Without : <<V, U>> \notin StrictSubsetOrdering(S)
  <2>1. Without \subseteq FiniteSubsetsOf(S) OBVIOUS
  <2> HIDE DEF Without
  <2> QED BY <1>1, <2>1, FS_StrictSubsetOrderingWellFounded, WFMin
<1>3. PICK x \in U : TRUE OBVIOUS
<1>4. /\ U \in SUBSET S /\ IsFiniteSet(U) BY DEF FiniteSubsetsOf
<1>5. U \ {x} \in FiniteSubsetsOf(S) BY <1>4, FS_RemoveElement DEF FiniteSubsetsOf
<1>6. <<U \ {x}, U>> \in StrictSubsetOrdering(S)
  BY <1>3, <1>4 DEF StrictSubsetOrdering
<1>7. U \ {x} = {} \/ HasLargest(U \ {x})
  BY <1>2, <1>5, <1>6
<1>8. CASE U \ {x} = {}
  BY <1>3, <1>4, <1>8
<1>9. CASE HasLargest(U \ {x})
  <2>1. PICK m \in U \ {x} : \A y \in U \ {x} : y <= m BY <1>9
  <2>2. m \in Nat /\ x \in Nat BY <1>3, <1>4
  <2>3. CASE x <= m BY <2>1, <2>3
  <2>4. CASE m <= x
    <3>1. \A y \in U : y \in Nat BY <1>4
    <3>2. \A y \in U : y <= x BY <2>1, <2>2, <2>4, <3>1
    <3> QED BY <1>3, <3>2
  <2> QED BY <2>2, <2>3, <2>4
<1> QED BY <1>7, <1>8, <1>9

\* The decision of any set of rules on any branch
LEMMA AllRulesApply ==
  ASSUME NEW R, NEW b, NEW k, \A r \in R : r.requiredApprovals \in Nat, k.approvals \in Nat
  PROVE  evaluateBranchProtection(R, b, k).allowed
           <=> \A r \in rulesForBranch(R, b) :
                 /\ r.requiredApprovals <= k.approvals
                 /\ r.requirePassingChecks => k.checkVerdict = "passed"
<1> DEFINE matching == rulesForBranch(R, b)
           short    == {m \in matching : k.approvals < m.requiredApprovals}
           red      == {m \in matching : /\ m.requirePassingChecks
                                         /\ k.checkVerdict # "passed"}
<1>1. evaluateBranchProtection(R, b, k).allowed <=> short = {} /\ red = {}
  BY DEF evaluateBranchProtection
<1>2. \A r \in matching : r.requiredApprovals \in Nat BY DEF rulesForBranch
<1>3. short = {} <=> \A r \in matching : r.requiredApprovals <= k.approvals BY <1>2
<1>4. red = {} <=> \A r \in matching : r.requirePassingChecks => k.checkVerdict = "passed"
  OBVIOUS
<1> QED BY <1>1, <1>3, <1>4

RulesInv == rules \subseteq Rule /\ IsFiniteSet(rules) /\ approvals \in 0..MaxApprovals

LEMMA RulesInvariant == DecisionsSpec => []RulesInv
<1>1. DecisionsInit => RulesInv
  BY GateBounds, FS_EmptySet DEF DecisionsInit, Init, RulesInv
<1>2. RulesInv /\ [DecisionsNext]_<<vars, input>> => RulesInv'
  <2> SUFFICES ASSUME RulesInv, [DecisionsNext]_<<vars, input>> PROVE RulesInv'
    OBVIOUS
  <2>1. CASE Next
    <3>1. CASE \E n \in CheckName, row \in Check : WriteCheck(n, row)
      BY <3>1 DEF WriteCheck, RulesInv
    <3>2. CASE \E r \in Rule : CreateRule(r)
      <4>1. PICK r \in Rule : CreateRule(r) BY <3>2
      <4>2. IsFiniteSet(rules \cup {r}) BY FS_AddElement DEF RulesInv
      <4> QED BY <4>1, <4>2 DEF CreateRule, RulesInv
    <3>3. CASE \E k \in 0..MaxApprovals : CountApprovals(k)
      BY <3>3 DEF CountApprovals, RulesInv
    <3> QED BY <2>1, <3>1, <3>2, <3>3 DEF Next
  <2>2. CASE UNCHANGED vars BY <2>2 DEF vars, RulesInv
  <2>3. Next \/ UNCHANGED vars BY DEF DecisionsNext, Ask, Forget
  <2> QED BY <2>1, <2>2, <2>3
<1> QED BY <1>1, <1>2, PTL DEF DecisionsSpec

\* The decision on the target is that of its strictest rules
\* (MCQueueGate!StrictestRuleApplies): as many approvals as any of them asks for, and
\* green checks if one of them does.
THEOREM TheStrictestApplies == DecisionsSpec => []StrictestRuleApplies
<1>1. RulesInv => StrictestRuleApplies
  <2> SUFFICES ASSUME RulesInv PROVE StrictestRuleApplies
    OBVIOUS
  <2> DEFINE matching == {r \in rules : Target \in r.refPattern}
             asked    == {r.requiredApprovals : r \in matching}
             most     == IF matching = {} THEN 0 ELSE Max(asked)
             green    == \E r \in matching : r.requirePassingChecks
  <2>1. asked \subseteq 0..MaxApprovals BY DEF RulesInv, Rule
  <2>2. IsFiniteSet(asked)
    <3>1. IsFiniteSet(0..MaxApprovals) BY GateBounds, FS_Interval
    <3> HIDE DEF asked
    <3> QED BY <2>1, <3>1, FS_Subset
  <2>3. \A r \in matching : r.requiredApprovals \in asked OBVIOUS
  <2>4. approvals \in Nat BY GateBounds DEF RulesInv
  <2>5. decision.allowed <=> \A r \in matching :
                               /\ r.requiredApprovals <= approvals
                               /\ r.requirePassingChecks => verdict = "passed"
    <3> DEFINE k == [approvals |-> approvals, checkVerdict |-> verdict]
    <3>1. k.approvals \in Nat /\ k.approvals = approvals /\ k.checkVerdict = verdict BY <2>4
    <3>2. \A r \in rules : r.requiredApprovals \in Nat BY GateBounds DEF RulesInv, Rule
    <3>3. matching = rulesForBranch(rules, Target) BY DEF rulesForBranch
    <3>4. decision = evaluateBranchProtection(rules, Target, k) BY DEF decision
    <3> HIDE DEF k, matching
    <3> QED BY <3>1, <3>2, <3>3, <3>4, AllRulesApply
  <2>6. approvals >= most <=> \A r \in matching : r.requiredApprovals <= approvals
    <3>1. CASE matching = {} BY <2>4, <3>1
    <3>2. CASE matching # {}
      <4>1. asked # {} /\ asked \in SUBSET Nat BY <2>1, <3>2, GateBounds
      <4>2. PICK m \in asked : \A x \in asked : x <= m
        <5> HIDE DEF asked
        <5> QED BY <2>2, <4>1, LargestExists
      <4>3. Max(asked) \in asked /\ \A x \in asked : Max(asked) >= x
        <5> HIDE DEF asked
        <5>1. \E y \in asked : \A x \in asked : y >= x BY <4>1, <4>2
        <5> QED BY <5>1 DEF Max
      <4>4. most = Max(asked) BY <3>2
      <4>5. \E r \in matching : r.requiredApprovals = Max(asked) BY <4>3
      <4>6. \A r \in matching : r.requiredApprovals <= Max(asked) BY <2>3, <4>3
      <4>7. Max(asked) \in Nat /\ \A r \in matching : r.requiredApprovals \in Nat
        BY <2>3, <4>1, <4>3
      <4> HIDE DEF asked, matching, most
      <4> QED BY <2>4, <4>4, <4>5, <4>6, <4>7
    <3> QED BY <3>1, <3>2
  <2>7. StrictestRuleApplies <=> (decision.allowed <=>
                                    approvals >= most /\ (green => verdict = "passed"))
    BY DEF StrictestRuleApplies
  <2> HIDE DEF matching, most
  <2> QED BY <2>5, <2>6, <2>7
<1> QED BY <1>1, RulesInvariant, PTL

-----------------------------------------------------------------------------
(* The inputs: what is asked belongs to one of the families. *)

Inputs == {NoInput} \cup AccessInput \cup PlanInput \cup PushInput \cup GraphInput
          \cup ProjectInput \cup GitInput

LEMMA InputInvariant == DecisionsSpec => [](input \in Inputs)
<1>1. DecisionsInit => input \in Inputs BY DEF DecisionsInit, Inputs
<1>2. input \in Inputs /\ [DecisionsNext]_<<vars, input>> => (input \in Inputs)'
  BY DEF DecisionsNext, Ask, Forget, Inputs
<1> QED BY <1>1, <1>2, PTL DEF DecisionsSpec

LEMMA Families ==
  ASSUME NEW i \in Inputs
  PROVE  /\ i.family = "access" => i \in AccessInput
         /\ i.family = "plans" => i \in PlanInput
         /\ i.family = "push" => i \in PushInput
         /\ i.family = "graph" => i \in GraphInput
         /\ i.family = "project" => i \in ProjectInput
         /\ i.family = "git" => i \in GitInput
<1>1. i \in {NoInput} => i.family = "none" BY DEF NoInput
<1>2. i \in AccessInput => i.family = "access" BY DEF AccessInput
<1>3. i \in PlanInput => i.family = "plans" BY DEF PlanInput
<1>4. i \in PushInput => i.family = "push" BY DEF PushInput
<1>5. i \in GraphInput => i.family = "graph" BY DEF GraphInput
<1>6. i \in ProjectInput => i.family = "project" BY DEF ProjectInput
<1>7. i \in GitInput => i.family = "git" BY DEF GitInput
<1> QED BY <1>1, <1>2, <1>3, <1>4, <1>5, <1>6, <1>7 DEF Inputs

-----------------------------------------------------------------------------
(* Pushes, for any scope, protected branches and updates *)

\* A push the hook accepts with the bounds of a scope stays within that scope.
LEMMA AcceptedPush ==
  ASSUME NEW scope, NEW id, NEW protected, NEW updates, NEW u \in updates,
         scopeAllowsRepository(scope, id),
         Confined(scope) => scope.repositories[id] # NULL,
         preReceive(scopeBoundsForRepository(scope, id), protected, updates)
  PROVE  /\ scopeAllowsRef(scope, id, u.ref)
         /\ ~u.delete => \A p \in u.paths : scopeAllowsPath(scope, id, p)
         /\ isProtectedBranch(protected, u) => ~Rewrites(u)
<1> DEFINE env == buildReceivePackHookEnv(scopeBoundsForRepository(scope, id))
<1>1. /\ isProtectedBranch(protected, u) => ~Rewrites(u)
      /\ Within(env.refPatterns, u.ref)
      /\ ~firstForbiddenPath(env, changedPathsFor(env, u))
  BY DEF preReceive, evaluateReceivePack
<1>2. CASE ~Confined(scope)
  BY <1>1, <1>2 DEF scopeAllowsRef, scopeAllowsPath
<1>3. CASE Confined(scope)
  <2>1. id \in DOMAIN scope.repositories /\ scope.repositories[id] # NULL
    BY <1>3 DEF scopeAllowsRepository
  <2>2. /\ env.refPatterns = scope.repositories[id].refPatterns
        /\ env.pathPatterns = scope.repositories[id].pathPatterns
    <3>1. CASE scope.repositories[id] = [refPatterns |-> NULL, pathPatterns |-> NULL]
      BY <1>3, <2>1, <3>1 DEF scopeBoundsForRepository, buildReceivePackHookEnv
    <3>2. CASE scope.repositories[id] # [refPatterns |-> NULL, pathPatterns |-> NULL]
      BY <1>3, <2>1, <3>2 DEF scopeBoundsForRepository, buildReceivePackHookEnv
    <3> QED BY <3>1, <3>2
  <2> HIDE DEF env
  <2>3. scopeAllowsRef(scope, id, u.ref) BY <1>1, <2>1, <2>2 DEF scopeAllowsRef
  <2>4. ASSUME ~u.delete, NEW p \in u.paths PROVE scopeAllowsPath(scope, id, p)
    <3>1. CASE env.pathPatterns = NULL
      BY <2>1, <2>2, <3>1 DEF scopeAllowsPath, Within
    <3>2. CASE env.pathPatterns # NULL
      <4>1. p \in changedPathsFor(env, u) BY <2>4, <3>2 DEF changedPathsFor
      <4>2. Within(env.pathPatterns, p) BY <1>1, <4>1 DEF firstForbiddenPath
      <4> QED BY <2>1, <2>2, <4>2 DEF scopeAllowsPath
    <3> QED BY <3>1, <3>2
  <2> QED BY <1>1, <2>3, <2>4
<1> QED BY <1>2, <1>3

\* An accepted push moves no ref and changes no path its token's scope forbids, and
\* neither rewrites nor deletes a protected branch (MCDecisions!PushStaysInScope).
THEOREM PushesStayInScope == DecisionsSpec => []PushStaysInScope
<1>1. input \in Inputs => PushStaysInScope
  <2> SUFFICES ASSUME input \in PushInput,
                      scopeAllowsRepository(input.scope, "here"),
                      preReceive(scopeBoundsForRepository(input.scope, "here"),
                                 input.protected, input.updates),
                      NEW u \in input.updates
               PROVE  /\ scopeAllowsRef(input.scope, "here", u.ref)
                      /\ ~u.delete => \A p \in u.paths : scopeAllowsPath(input.scope, "here", p)
                      /\ (\E glob \in input.protected : u.ref \in glob) => ~u.delete /\ ~u.force
    BY Families DEF PushStaysInScope
  <2>1. input.scope \in Scope /\ input.updates \subseteq Update BY DEF PushInput
  <2>2. Confined(input.scope) => input.scope.repositories["here"] # NULL
    <3>1. ASSUME NEW f \in [{"here"} -> Bounds] PROVE f["here"] \in Bounds OBVIOUS
    <3>2. "here" \notin {"elsewhere"} /\ "here" \notin {} OBVIOUS
    <3> QED BY <2>1, <3>1, <3>2, NullAssumption
            DEF Confined, Scope, scopeAllowsRepository
  <2>3. /\ scopeAllowsRef(input.scope, "here", u.ref)
        /\ ~u.delete => \A p \in u.paths : scopeAllowsPath(input.scope, "here", p)
        /\ isProtectedBranch(input.protected, u) => ~Rewrites(u)
    BY <2>2, AcceptedPush
  <2>4. ~Rewrites(u) => ~u.delete /\ ~u.force
    <3>1. u \in Update BY <2>1
    <3>2. PICK ref \in {"main", "dev"}, kind \in {"create", "delete", "force", "forward"},
               paths \in SUBSET {"src", "doc"} :
            u = [ref |-> ref, create |-> kind = "create", delete |-> kind = "delete",
                 force |-> kind = "force", paths |-> paths]
      BY <3>1 DEF Update
    <3>3. u.create = (kind = "create") /\ u.force = (kind = "force") BY <3>2
    <3>4. ~(u.create /\ u.force) BY <3>3
    <3> QED BY <3>4 DEF Rewrites
  <2> QED BY <2>3, <2>4 DEF isProtectedBranch, matchesAnyGlob
<1> QED BY <1>1, InputInvariant, PTL

-----------------------------------------------------------------------------
(* The tools of agents, for any database d and caller k *)

LEMMA ByIdFinds ==
  ASSUME NEW rows, NEW id, ById(rows, id) # NULL
  PROVE  ById(rows, id) \in rows /\ ById(rows, id).id = id
BY DEF ById

LEMMA ByIdIsTheRow ==
  ASSUME NEW rows, NEW row \in rows, \A other \in rows : other.id = row.id => other = row
  PROVE  ById(rows, row.id) = row
BY DEF ById

\* A tool that reads shows rows its caller's scope allows.
LEMMA ReadersShowTheirScope ==
  ASSUME NEW d, NEW k, NEW row, NEW rows
  PROVE  \A shown \in {list_repositories(d, k), search_repositories(k, rows),
                       get_repository(k, row), list_branches(k, row), list_tree(k, row),
                       read_file(k, row, "text", "text"), get_agent_instructions(k, row),
                       list_dependent_repositories(d, k, row)} :
           \A r \in shown.seen : scopeAllowsRepository(k.scope, r.id)
<1>1. \A r : callerMayRead(k, r) => scopeAllowsRepository(k.scope, r.id)
  BY DEF callerMayRead
<1>2. \A r \in list_repositories(d, k).seen : scopeAllowsRepository(k.scope, r.id)
  BY <1>1 DEF list_repositories, Found
<1>3. \A r \in search_repositories(k, rows).seen : scopeAllowsRepository(k.scope, r.id)
  BY <1>1 DEF search_repositories, Found
<1>4. \A r \in list_dependent_repositories(d, k, row).seen : scopeAllowsRepository(k.scope, r.id)
  BY <1>1 DEF list_dependent_repositories, Found, Refused
<1>5. \A shown \in {get_repository(k, row), list_branches(k, row), list_tree(k, row),
                    read_file(k, row, "text", "text"), get_agent_instructions(k, row)} :
        \A r \in shown.seen : scopeAllowsRepository(k.scope, r.id)
  BY <1>1 DEF get_repository, list_branches, list_tree, read_file, get_agent_instructions,
              ToolRead, Found, Refused
<1> QED BY <1>2, <1>3, <1>4, <1>5

LEMMA PullersShowTheirScope ==
  ASSUME NEW d, NEW k, NEW row,
         NEW shown \in {list_pull_requests(d, k, row, NULL), get_pull_request(d, k, row, 1)},
         NEW p \in shown.seen
  PROVE  scopeAllowsRepository(k.scope, p.repositoryId)
BY DEF list_pull_requests, get_pull_request, Found, Refused, ToolRead, callerMayRead

\* A tool that writes to a repository named, and one that finds it by a row's column
LEMMA WritersKeepTheirScope ==
  ASSUME NEW d, NEW k, NEW row, NEW id,
         NEW made \in {discover_dependencies(k, row), reconcile_project_membership(k, row),
                       create_pull_request(k, row, {"dev", "main"}, "dev", "main"),
                       comment_on_pull_request(d, k, row, 1), create_stack(k, row),
                       create_change(d, k, id, NULL), report_verification_check(d, k, id),
                       merge_change(d, k, id)},
         NEW w \in made.written
  PROVE  scopeAllowsRepository(k.scope, w[2]) /\ scopeAllowsWrite(k.scope)
<1>1. ASSUME NEW r, gateWriteByRepositoryId(d, k, r)
      PROVE  scopeAllowsRepository(k.scope, r) /\ scopeAllowsWrite(k.scope)
  BY <1>1, ByIdFinds DEF gateWriteByRepositoryId, ToolWrite
<1>2. \A what, r : \A x \in Wrote(what, r).written : x[2] = r BY DEF Wrote
<1>3. Refused.written = {} BY DEF Refused
<1>4. CASE made \in {discover_dependencies(k, row), reconcile_project_membership(k, row),
                     create_pull_request(k, row, {"dev", "main"}, "dev", "main"),
                     comment_on_pull_request(d, k, row, 1), create_stack(k, row)}
  <2>1. ToolWrite(k, row) /\ \E what : made = Wrote(what, row.id)
    BY <1>3, <1>4 DEF discover_dependencies, reconcile_project_membership,
       create_pull_request, comment_on_pull_request, create_stack
  <2>2. w[2] = row.id BY <1>2, <2>1
  <2> QED BY <2>1, <2>2 DEF ToolWrite
<1>5. CASE made = create_change(d, k, id, NULL)
  <2>1. \E r : made = Wrote("change", r) /\ gateWriteByRepositoryId(d, k, r)
    BY <1>3, <1>5 DEF create_change
  <2> QED BY <1>1, <1>2, <2>1
<1>6. CASE made = report_verification_check(d, k, id)
  <2>1. \E r : made = Wrote("check", r) /\ gateWriteByRepositoryId(d, k, r)
    BY <1>3, <1>6 DEF report_verification_check
  <2> QED BY <1>1, <1>2, <2>1
<1>7. CASE made = merge_change(d, k, id)
  <2>1. \E r : made = Wrote("landing", r) /\ gateWriteByRepositoryId(d, k, r)
    BY <1>3, <1>7 DEF merge_change, gateRefWrite
  <2> QED BY <1>1, <1>2, <2>1
<1> QED BY <1>4, <1>5, <1>6, <1>7

\* Landing through a tool is landing on a ref the scope allows.
LEMMA LandingsKeepTheirRefs ==
  ASSUME NEW d, NEW k, NEW id, NEW ref, \A s \in d.stacks : s.baseBranch = ref,
         NEW w \in merge_change(d, k, id).written
  PROVE  scopeAllowsRef(k.scope, w[2], ref)
<1> DEFINE change == ById(d.changes, id)
           stack  == IF change = NULL THEN NULL ELSE ById(d.stacks, change.stackId)
<1>1. Refused.written = {} BY DEF Refused
<1>2. /\ stack # NULL /\ gateRefWrite(d, k, change.repositoryId, stack.baseBranch)
      /\ merge_change(d, k, id) = Wrote("landing", change.repositoryId)
  BY <1>1 DEF merge_change
<1>3. stack = ById(d.stacks, change.stackId) BY <1>2
<1>4. stack \in d.stacks BY <1>2, <1>3, ByIdFinds
<1>5. w[2] = change.repositoryId BY <1>2 DEF Wrote
<1> HIDE DEF stack, change
<1> QED BY <1>2, <1>4, <1>5 DEF gateRefWrite

\* What may be asked of the access decisions
LEMMA AccessShape ==
  ASSUME input \in AccessInput
  PROVE  /\ input.row \in Here /\ input.gate \in BOOLEAN /\ input.mirrored \in BOOLEAN
         /\ c # NULL => c \in Caller /\ input.request.scheme \in {"bearer", "basic"}
BY DEF AccessInput, Request, c

LEMMA Rows ==
  ASSUME input \in AccessInput
  PROVE  /\ db.repositories = {input.row, Elsewhere}
         /\ input.row.id = "here" /\ Elsewhere.id = "elsewhere"
         /\ input.row # NULL /\ Elsewhere # NULL
         /\ \A s \in db.stacks : s.baseBranch = "main"
         /\ ById(db.repositories, "here") = input.row
         /\ ById(db.repositories, "elsewhere") = Elsewhere
<1>1. db.repositories = {input.row, Elsewhere} BY DEF db, dbOf
<1>2. input.row.id = "here" /\ Elsewhere.id = "elsewhere" BY AccessShape DEF Here, Elsewhere
<1>3. input.row # NULL /\ Elsewhere # NULL BY AccessShape, NullAssumption
<1>4. \A s \in db.stacks : s.baseBranch = "main" BY DEF db, dbOf
<1>5. ById(db.repositories, input.row.id) = input.row BY <1>1, <1>2, ByIdIsTheRow
<1>6. ById(db.repositories, Elsewhere.id) = Elsewhere BY <1>1, <1>2, ByIdIsTheRow
<1> QED BY <1>1, <1>2, <1>3, <1>4, <1>5, <1>6

\* Whichever tool an agent calls, it answers for its token's scope alone.
LEMMA ToolsAreScoped == input \in Inputs => ToolsStayInScope
<1> SUFFICES ASSUME input \in AccessInput, c # NULL PROVE ToolsStayInScope
  BY Families DEF ToolsStayInScope
<1> DEFINE rows    == db.repositories
           InScope(id) == \A r \in {id} : scopeAllowsRepository(c.scope, r)
           readers == {list_repositories(db, c), search_repositories(c, rows)}
                      \cup UNION {{get_repository(c, r), list_branches(c, r), list_tree(c, r),
                                   read_file(c, r, "text", "text"), get_agent_instructions(c, r),
                                   list_dependent_repositories(db, c, r)} : r \in rows}
           pullers == UNION {{list_pull_requests(db, c, r, NULL), get_pull_request(db, c, r, 1)} :
                               r \in rows}
           writers == {create_change(db, c, s.id, NULL) : s \in db.stacks}
                      \cup {report_verification_check(db, c, k.id) : k \in db.changes}
                      \cup UNION {{discover_dependencies(c, r), reconcile_project_membership(c, r),
                                   create_pull_request(c, r, {"dev", "main"}, "dev", "main"),
                                   comment_on_pull_request(db, c, r, 1), create_stack(c, r)} :
                                    r \in rows}
           landings == UNION {merge_change(db, c, k.id).written : k \in db.changes}
<1>1. \A r \in UNION {a.seen : a \in readers} : InScope(r.id)
  <2> SUFFICES ASSUME NEW a \in readers, NEW r \in a.seen
               PROVE  scopeAllowsRepository(c.scope, r.id)
    OBVIOUS
  <2>1. CASE a \in {list_repositories(db, c), search_repositories(c, rows)}
    BY <2>1, ReadersShowTheirScope
  <2>2. CASE a \notin {list_repositories(db, c), search_repositories(c, rows)}
    <3>1. PICK row \in rows :
            a \in {get_repository(c, row), list_branches(c, row), list_tree(c, row),
                   read_file(c, row, "text", "text"), get_agent_instructions(c, row),
                   list_dependent_repositories(db, c, row)}
      BY <2>2
    <3> QED BY <3>1, ReadersShowTheirScope
  <2> QED BY <2>1, <2>2
<1>2. \A p \in UNION {a.seen : a \in pullers} : InScope(p.repositoryId)
  BY PullersShowTheirScope
<1>3. \A w \in landings \cup UNION {a.written : a \in writers} :
        InScope(w[2]) /\ scopeAllowsWrite(c.scope)
  <2>1. ASSUME NEW a \in writers, NEW w \in a.written
        PROVE  scopeAllowsRepository(c.scope, w[2]) /\ scopeAllowsWrite(c.scope)
    <3>1. CASE \E r \in rows :
                 a \in {discover_dependencies(c, r), reconcile_project_membership(c, r),
                        create_pull_request(c, r, {"dev", "main"}, "dev", "main"),
                        comment_on_pull_request(db, c, r, 1), create_stack(c, r)}
      BY <2>1, <3>1, WritersKeepTheirScope
    <3>2. CASE \E s \in db.stacks : a = create_change(db, c, s.id, NULL)
      BY <2>1, <3>2, WritersKeepTheirScope
    <3>3. CASE \E k \in db.changes : a = report_verification_check(db, c, k.id)
      BY <2>1, <3>3, WritersKeepTheirScope
    <3>4. \/ \E r \in rows :
                 a \in {discover_dependencies(c, r), reconcile_project_membership(c, r),
                        create_pull_request(c, r, {"dev", "main"}, "dev", "main"),
                        comment_on_pull_request(db, c, r, 1), create_stack(c, r)}
          \/ \E s \in db.stacks : a = create_change(db, c, s.id, NULL)
          \/ \E k \in db.changes : a = report_verification_check(db, c, k.id)
      <4>1. \/ a \in UNION {{discover_dependencies(c, r), reconcile_project_membership(c, r),
                    create_pull_request(c, r, {"dev", "main"}, "dev", "main"),
                    comment_on_pull_request(db, c, r, 1), create_stack(c, r)} : r \in rows}
            \/ a \in {create_change(db, c, s.id, NULL) : s \in db.stacks}
            \/ a \in {report_verification_check(db, c, k.id) : k \in db.changes}
        BY <2>1, Zenon
      <4> HIDE DEF rows
      <4> QED BY <4>1, Zenon
    <3> QED BY <3>1, <3>2, <3>3, <3>4
  <2>2. ASSUME NEW w \in landings
        PROVE  scopeAllowsRepository(c.scope, w[2]) /\ scopeAllowsWrite(c.scope)
    <3>1. PICK k \in db.changes : w \in merge_change(db, c, k.id).written BY <2>2
    <3> QED BY <3>1, WritersKeepTheirScope
  <2> HIDE DEF writers, landings
  <2> SUFFICES ASSUME NEW w \in landings \cup UNION {a.written : a \in writers}
               PROVE  InScope(w[2]) /\ scopeAllowsWrite(c.scope)
    OBVIOUS
  <2>3. CASE w \in landings BY <2>2, <2>3
  <2>4. CASE w \notin landings
    <3>1. w \in UNION {a.written : a \in writers} BY <2>4, Zenon
    <3>2. PICK maker \in writers : w \in maker.written BY <3>1, Zenon
    <3> QED BY <2>1, <3>2
  <2> QED BY <2>3, <2>4
<1>4. ASSUME NEW w \in landings PROVE scopeAllowsRef(c.scope, w[2], "main")
  <2>1. PICK k \in db.changes : w \in merge_change(db, c, k.id).written BY <1>4
  <2>2. \A s \in db.stacks : s.baseBranch = "main" BY Rows
  <2> QED BY <2>1, <2>2, LandingsKeepTheirRefs
<1>5. create_repository(c, NULL) # Refused => c.scope = UNRESTRICTED_SCOPE
  <2>1. c.scope \in Scope BY AccessShape DEF Caller
  <2>2. create_repository(c, NULL) # Refused => gateCreate(c) BY DEF create_repository
  <2> QED BY <2>1, <2>2
          DEF gateCreate, scopeAllowsWrite, Confined, UNRESTRICTED_SCOPE, Scope
<1> QED BY <1>1, <1>2, <1>3, <1>4, <1>5 DEF ToolsStayInScope

\* The record a tool returns tells a refusal from an answer.
LEMMA AnswersAreNoRefusals ==
  ASSUME NEW what, NEW id, NEW row
  PROVE  Found({row}) # Refused /\ Wrote(what, id) # Refused
<1>1. Found({row}).seen # Refused.seen BY DEF Found, Refused
<1>2. Wrote(what, id).written # Refused.written BY DEF Wrote, Refused
<1> QED BY <1>1, <1>2

LEMMA RoutesFollowTools == input \in Inputs => RoutesAndToolsAgree
<1> SUFFICES ASSUME input \in AccessInput, c # NULL PROVE RoutesAndToolsAgree
  BY Families DEF RoutesAndToolsAgree
<1> DEFINE row == input.row
<1>1. authenticateGitRequest(input.request) = c
  BY AccessShape DEF authenticateGitRequest, extractToken, c
<1>2. row # NULL /\ row.id = "here" /\ ById(db.repositories, row.id) = row BY Rows
<1>3. get_repository(c, row) # Refused <=> ToolRead(c, row)
  BY AnswersAreNoRefusals DEF get_repository
<1>4. discover_dependencies(c, row) # Refused <=> ToolWrite(c, row)
  BY AnswersAreNoRefusals DEF discover_dependencies
<1>5. /\ gateRead(input.request, row, input.gate, TRUE) = 200
           <=> ~isGitCallerBetaBlocked(input.gate, c) /\ get_repository(c, row) # Refused
      /\ gateWrite(input.request, row, input.gate) = 200
           <=> ~isGitCallerBetaBlocked(input.gate, c) /\ discover_dependencies(c, row) # Refused
  <2> HIDE DEF row
  <2>1. /\ gateRead(input.request, row, input.gate, TRUE) = 200
             <=> ~isGitCallerBetaBlocked(input.gate, c) /\ ToolRead(c, row)
        /\ gateWrite(input.request, row, input.gate) = 200
             <=> ~isGitCallerBetaBlocked(input.gate, c) /\ ToolWrite(c, row)
    BY <1>1, <1>2 DEF gateRead, gateWrite, ToolRead, ToolWrite, callerMayRead
  <2> QED BY <1>3, <1>4, <2>1, Zenon
<1>6. ASSUME c.scope = UNRESTRICTED_SCOPE, createPullRequest(db, c, row.id)
      PROVE  create_pull_request(c, row, {"dev", "main"}, "dev", "main") # Refused
  <2>1. canWriteRepository(c, row)
    BY <1>2, <1>6 DEF createPullRequest, hasWriteAccess, canWriteRepository
  <2>2. ToolWrite(c, row)
    BY <1>2, <1>6, <2>1 DEF ToolWrite, UNRESTRICTED_SCOPE, scopeAllowsWrite,
       scopeAllowsRepository, Confined
  <2> QED BY <2>2, AnswersAreNoRefusals DEF create_pull_request
<1>7. ASSUME c.scope = UNRESTRICTED_SCOPE, NEW o \in {NULL, "g"}
      PROVE  createRepository(c, o, "private", TRUE) <=> create_repository(c, o) # Refused
  <2>1. gateCreate(c)
    BY <1>7 DEF gateCreate, UNRESTRICTED_SCOPE, scopeAllowsWrite, Confined
  <2> QED BY <2>1, AnswersAreNoRefusals DEF createRepository, create_repository
<1> HIDE DEF row
<1> QED BY <1>5, <1>6, <1>7 DEF RoutesAndToolsAgree, row

\* The condition the candidates of a listing are selected by leaves out nobody who
\* may read.
LEMMA ListingLosesNothing == input \in Inputs => ListingIsComplete
<1> SUFFICES ASSUME input \in AccessInput, c # NULL PROVE ListingIsComplete
  BY Families DEF ListingIsComplete
<1>1. NULL \notin DOMAIN c.organizations
  <2>1. c.organizations \in {<<>>} \cup [{"g"} -> {{"member"}, {"admin"}}]
    BY AccessShape DEF Caller
  <2>2. DOMAIN c.organizations \subseteq {"g"} BY <2>1
  <2> QED BY <2>2, NullAssumption
<1>2. ASSUME NEW r, callerMayRead(c, r)
      PROVE  \/ r.visibility = "public" \/ r.ownerId = c.user
             \/ r.organizationId # NULL \/ c.user \in DOMAIN r.collaborators
  BY <1>1, <1>2 DEF callerMayRead, canReadRepository, findCollaborator, isOrganizationMember
<1>3. list_repositories(db, c).seen = {r \in db.repositories : callerMayRead(c, r)}
  BY <1>2 DEF list_repositories, Found
<1>4. \A r \in db.repositories :
        get_repository(c, r).seen = IF callerMayRead(c, r) THEN {r} ELSE {}
  <2> SUFFICES ASSUME NEW r \in db.repositories
               PROVE  get_repository(c, r).seen = IF callerMayRead(c, r) THEN {r} ELSE {}
    OBVIOUS
  <2>1. r # NULL BY Rows
  <2> QED BY <2>1 DEF get_repository, ToolRead, Found, Refused
<1> DEFINE each == UNION {get_repository(c, r).seen : r \in db.repositories}
<1>5. each = {r \in db.repositories : callerMayRead(c, r)}
  <2>1. ASSUME NEW r \in each PROVE r \in db.repositories /\ callerMayRead(c, r)
    <3>1. PICK q \in db.repositories : r \in get_repository(c, q).seen BY <2>1
    <3> QED BY <1>4, <3>1
  <2>2. ASSUME NEW r \in db.repositories, callerMayRead(c, r) PROVE r \in each
    BY <1>4, <2>2
  <2> HIDE DEF each
  <2> QED BY <2>1, <2>2
<1> QED BY <1>3, <1>5 DEF ListingIsComplete

\* Whatever an agent's tools show or change lies in its token's scope, they let
\* through whom the git routes let through, and the listing leaves out nothing that
\* may be opened (MCDecisions!ToolsKeepTheirScope).
THEOREM AgentsKeepTheirScope == DecisionsSpec => []ToolsKeepTheirScope
<1>1. input \in Inputs => ToolsKeepTheirScope
  BY ToolsAreScoped, RoutesFollowTools, ListingLosesNothing DEF ToolsKeepTheirScope
<1> QED BY <1>1, InputInvariant, PTL

-----------------------------------------------------------------------------
(* The guards of the generated mutations, for any database *)

\* Administering a repository implies writing to it, whatever the rows are.
LEMMA AdministeringIsWriting ==
  ASSUME NEW d, NEW id, NEW user, hasAdminAccess(d, id, user)
  PROVE  hasWriteAccess(d, id, user)
BY DEF hasAdminAccess, hasWriteAccess

\* Who writes, by the guards' reading of the rows, writes and reads by the routes'.
LEMMA WritingIsReading ==
  ASSUME NEW d, NEW k, NEW id, NEW row, k # NULL, row = ById(d.repositories, id),
         NULL \notin {"write", "admin"}
  PROVE  /\ hasWriteAccess(d, id, k.user) => canWriteRepository(k, row)
         /\ canWriteRepository(k, row) => canReadRepository(k, row)
<1>1. hasWriteAccess(d, id, k.user) => canWriteRepository(k, row)
  BY DEF hasWriteAccess, canWriteRepository
<1>2. canWriteRepository(k, row) => canReadRepository(k, row)
  BY DEF canWriteRepository, canReadRepository, hasOrganizationWriteRole
<1> QED BY <1>1, <1>2

\* The guards of comments and reviews ask no more than the routes do.
LEMMA CommentingIsReading ==
  ASSUME NEW d, NEW k, NEW id, NEW row, k # NULL, row = ById(d.repositories, id),
         \A user \in DOMAIN row.collaborators : row.collaborators[user] # NULL,
         hasReadAccess(d, id, k.user)
  PROVE  canReadRepository(k, row)
BY DEF hasReadAccess, canReadRepository, findCollaborator

\* Ids of the rows of dbOf that refer to others
LEMMA RowsApart ==
  ASSUME input \in AccessInput,
         NEW rows \in {db.relationships, db.projectRepositories, db.topicPullRequests,
                       db.projects, db.topics},
         NEW p \in rows, NEW q \in rows, p.id = q.id
  PROVE  p = q
<1>1. CASE rows = db.relationships BY <1>1 DEF db, dbOf
<1>2. CASE rows \in {db.projects, db.topics} BY <1>2 DEF db, dbOf
<1>3. CASE rows = db.projectRepositories
  <2>1. PICK x \in {"shared", "mine"}, r \in {"here", "elsewhere"} :
          p = [id |-> <<x, r>>, projectId |-> x, repositoryId |-> r]
    BY <1>3 DEF db, dbOf
  <2>2. PICK y \in {"shared", "mine"}, s \in {"here", "elsewhere"} :
          q = [id |-> <<y, s>>, projectId |-> y, repositoryId |-> s]
    BY <1>3 DEF db, dbOf
  <2>3. <<x, r>> = <<y, s>> BY <2>1, <2>2
  <2> QED BY <2>1, <2>2, <2>3
<1>4. CASE rows = db.topicPullRequests
  <2>1. PICK x \in {"shared", "mine"}, r \in {"here", "elsewhere"} :
          p = [id |-> <<x, r>>, topicId |-> x, pullRequestId |-> <<"pull", r>>]
    BY <1>4 DEF db, dbOf
  <2>2. PICK y \in {"shared", "mine"}, s \in {"here", "elsewhere"} :
          q = [id |-> <<y, s>>, topicId |-> y, pullRequestId |-> <<"pull", s>>]
    BY <1>4 DEF db, dbOf
  <2>3. <<x, r>> = <<y, s>> BY <2>1, <2>2
  <2> QED BY <2>1, <2>2, <2>3
<1> QED BY <1>1, <1>2, <1>3, <1>4

\* The rows of dbOf have ids of their own.
LEMMA RowsById ==
  ASSUME input \in AccessInput
  PROVE  /\ \A p \in db.pullRequests : ById(db.pullRequests, p.id) = p
         /\ \A p \in db.projects : ById(db.projects, p.id) = p
         /\ \A p \in db.topics : ById(db.topics, p.id) = p
         /\ \A p \in db.relationshipTypes : ById(db.relationshipTypes, p.id) = p
         /\ \A m \in db.projectRepositories : ById(db.projectRepositories, m.id) = m
         /\ \A m \in db.topicPullRequests : ById(db.topicPullRequests, m.id) = m
         /\ \A r \in db.repositories : ById(db.repositories, r.id) = r
<1>1. \A p, q \in db.pullRequests : p.id = q.id => p = q
  <2> SUFFICES ASSUME NEW p \in db.pullRequests, NEW q \in db.pullRequests, p.id = q.id
               PROVE  p = q
    OBVIOUS
  <2>1. PICK r \in {input.row, Elsewhere} :
          p = [id |-> <<"pull", r.id>>, repositoryId |-> r.id, authorId |-> r.ownerId,
               number |-> 1, state |-> "open"]
    BY DEF db, dbOf
  <2>2. PICK s \in {input.row, Elsewhere} :
          q = [id |-> <<"pull", s.id>>, repositoryId |-> s.id, authorId |-> s.ownerId,
               number |-> 1, state |-> "open"]
    BY DEF db, dbOf
  <2>3. r.id = s.id BY <2>1, <2>2
  <2>4. r = s BY <2>3, Rows
  <2> QED BY <2>1, <2>2, <2>4
<1>2. \A p, q \in db.projects : p.id = q.id => p = q BY DEF db, dbOf
<1>3. \A p, q \in db.topics : p.id = q.id => p = q BY DEF db, dbOf
<1>4. \A p, q \in db.relationshipTypes : p.id = q.id => p = q BY DEF db, dbOf
<1>5. \A p, q \in db.repositories : p.id = q.id => p = q BY Rows
<1>6. \A rows \in {db.projectRepositories, db.topicPullRequests} :
        \A p, q \in rows : p.id = q.id => p = q
  BY RowsApart
<1> QED BY <1>1, <1>2, <1>3, <1>4, <1>5, <1>6, ByIdIsTheRow

LEMMA Collaborators ==
  ASSUME input \in AccessInput, NEW r \in db.repositories
  PROVE  /\ \A user \in DOMAIN r.collaborators : r.collaborators[user] # NULL
         /\ NULL \notin {"write", "admin"}
<1>1. NULL \notin {"read", "write", "admin"} BY NullAssumption
<1>2. CASE r = Elsewhere BY <1>1, <1>2 DEF Elsewhere
<1>3. CASE r = input.row
  <2>1. r.collaborators \in {<<>>} \cup [{"u"} -> {"read", "write", "admin"}]
    BY <1>3, AccessShape DEF Here
  <2> QED BY <1>1, <2>1
<1> QED BY <1>1, <1>2, <1>3, Rows

LEMMA GuardsAreNested == input \in Inputs => AuthorityIsNested
<1> SUFFICES ASSUME input \in AccessInput, c # NULL PROVE AuthorityIsNested
  BY Families DEF AuthorityIsNested
<1> DEFINE row  == input.row
           made == [ownerId |-> c.user, organizationId |-> row.organizationId]
<1>1. /\ row \in db.repositories /\ row.id = "here" /\ row # NULL
      /\ row = ById(db.repositories, row.id)
  BY Rows
<1>2. /\ \A user \in DOMAIN row.collaborators : row.collaborators[user] # NULL
      /\ NULL \notin {"write", "admin"}
  BY <1>1, Collaborators
<1>3. /\ hasWriteAccess(db, row.id, c.user) => canWriteRepository(c, row)
      /\ canWriteRepository(c, row) => canReadRepository(c, row)
      /\ hasReadAccess(db, row.id, c.user) => canReadRepository(c, row)
  BY <1>1, <1>2, WritingIsReading, CommentingIsReading
<1>4. updateRepository(db, c, row.id) => hasWriteAccess(db, row.id, c.user)
  BY AdministeringIsWriting DEF updateRepository
<1>5. deleteRepository(db, c, row.id) => updateRepository(db, c, row.id)
  BY DEF deleteRepository, updateRepository, hasAdminAccess
<1>6. createPullRequest(db, c, row.id) => canWriteRepository(c, row)
  BY <1>3 DEF createPullRequest
<1>7. ById(db.pullRequests, <<"pull", "here">>).repositoryId = row.id
  <2> DEFINE pull == [id |-> <<"pull", row.id>>, repositoryId |-> row.id,
                      authorId |-> row.ownerId, number |-> 1, state |-> "open"]
  <2>1. pull \in db.pullRequests BY DEF db, dbOf
  <2>2. ById(db.pullRequests, pull.id) = pull BY <2>1, RowsById
  <2>3. pull.id = <<"pull", "here">> /\ pull.repositoryId = row.id BY <1>1
  <2> HIDE DEF pull
  <2> QED BY <2>2, <2>3
<1> HIDE DEF row
<1>8. \/ createPullRequestComment(db, c, <<"pull", "here">>, c.user)
      \/ createPullRequestReview(db, c, <<"pull", "here">>, c.user)
      => canReadRepository(c, row)
  BY <1>3, <1>7 DEF createPullRequestComment, createPullRequestReview
<1>9. \/ createRepositoryRelationship(db, c, row.id)
      \/ createTopicPullRequest(db, c, "mine", <<"pull", "here">>)
      \/ createProjectRepository(db, c, "mine", row.id)
      => canReadRepository(c, row)
  BY <1>3, <1>7
     DEF createRepositoryRelationship, createTopicPullRequest, createProjectRepository
<1>10. createProject(c, made.ownerId, made.organizationId) => canAdministerProject(made, c)
  BY DEF createProject, canCreateProject, canAdministerProject
<1> HIDE DEF made
<1> QED BY <1>3, <1>4, <1>5, <1>6, <1>8, <1>9, <1>10 DEF AuthorityIsNested, row, made

\* Whom a mirror that says what the claims say counts a member
LEMMA MirrorIsClaims ==
  ASSUME input \in AccessInput, c # NULL, input.mirrored <=> "g" \in DOMAIN c.organizations
  PROVE  /\ User = c.user /\ User # NULL
         /\ observerOrganizationIds(db, User) = DOMAIN c.organizations
<1>1. c \in Caller /\ c.user = "u" /\ User = "u"
  BY AccessShape DEF Caller, User
<1>2. User # NULL BY <1>1, NullAssumption
<1>3. c.organizations \in {<<>>} \cup [{"g"} -> {{"member"}, {"admin"}}] BY <1>1 DEF Caller
<1>4. DOMAIN c.organizations = IF "g" \in DOMAIN c.organizations THEN {"g"} ELSE {}
  BY <1>3
<1>5. db.organizationMembers = IF input.mirrored
                               THEN {[organizationId |-> "g", userId |-> "u"]} ELSE {}
  BY DEF db, dbOf
<1>6. observerOrganizationIds(db, User)
        = {m.organizationId : m \in {n \in db.organizationMembers : n.userId = "u"}}
  BY <1>1, <1>2 DEF observerOrganizationIds, Matches
<1>7. observerOrganizationIds(db, User) = IF input.mirrored THEN {"g"} ELSE {}
  <2>1. CASE input.mirrored
    <3>1. db.organizationMembers = {[organizationId |-> "g", userId |-> "u"]} BY <1>5, <2>1
    <3>2. \A m \in db.organizationMembers : m.userId = "u" /\ m.organizationId = "g"
      BY <3>1
    <3>3. \E m \in db.organizationMembers : m.userId = "u" /\ m.organizationId = "g"
      BY <3>1
    <3>4. observerOrganizationIds(db, User) = {"g"} BY <1>6, <3>2, <3>3
    <3> QED BY <2>1, <3>4
  <2>2. CASE ~input.mirrored
    <3>1. db.organizationMembers = {} BY <1>5, <2>2
    <3> QED BY <1>6, <2>2, <3>1
  <2> QED BY <2>1, <2>2
<1> QED BY <1>1, <1>2, <1>4, <1>7

\* What the wrappers put around each connection, one table at a time
LEMMA ShownTables ==
  ASSUME NEW d, NEW user
  PROVE  LET shown == RepositoryReadPlugin(d, user)
             ids   == visibleRepositoryIds(d, user)
         IN  /\ shown.repositories = scopeToVisible(d, user)
             /\ shown.pullRequests = scopeByRepository(d.pullRequests, direct, ids)
             /\ shown.stacks = scopeByRepository(d.stacks, direct, ids)
             /\ shown.changes = scopeByRepository(d.changes, direct, ids)
             /\ shown.pullRequestComments =
                  scopeByRepository(d.pullRequestComments, viaPullRequest,
                                    visiblePullRequestIds(d, user))
             /\ shown.pullRequestReviews =
                  scopeByRepository(d.pullRequestReviews, viaPullRequest,
                                    visiblePullRequestIds(d, user))
             /\ shown.externalDependencies =
                  scopeByRepository(d.externalDependencies, direct, ids)
             /\ shown.mergeBatches = scopeByRepository(d.mergeBatches, direct, ids)
             /\ shown.mergeQueueEntries = scopeByRepository(d.mergeQueueEntries, direct, ids)
             /\ shown.repositoryCollaborators =
                  scopeByRepository(d.repositoryCollaborators, direct, ids)
             /\ shown.verificationChecks =
                  scopeByRepository(d.verificationChecks, viaChange, visibleChangeIds(d, user))
             /\ shown.projects = scopeByRepository(d.projects, own, visibleProjectIds(d, user))
             /\ shown.projectRepositories =
                  scopeByRepository(d.projectRepositories, own, visibleMembershipIds(d, user))
             /\ shown.topics = scopeByRepository(d.topics, own, visibleTopicIds(d, user))
             /\ shown.topicPullRequests =
                  scopeByRepository(d.topicPullRequests, own, visibleTopicMembershipIds(d, user))
             /\ shown.relationships =
                  scopeByRepository(d.relationships, own, visibleRelationshipIds(d, user))
             /\ shown.relationshipMetadata =
                  scopeByRepository(d.relationshipMetadata, viaRelationship,
                                    visibleRelationshipIds(d, user))
             /\ shown.relationshipTypes = scopeRelationshipTypesToCaller(d, user)
             /\ shown.agents = scopeAgentsToCaller(d, user)
             /\ shown.organizations = scopeOrganizationsToCaller(d, user)
             /\ shown.organizationMembers =
                  scopeByRepository(d.organizationMembers, viaOrganization,
                                    observerOrganizationIds(d, user))
BY DEF RepositoryReadPlugin

\* A row selected by its id is the row its condition was asked of, where ids are
\* unique.
LEMMA SelectedById ==
  ASSUME NEW rows, NEW selected \in SUBSET rows, \A p, q \in rows : p.id = q.id => p = q
  PROVE  scopeByRepository(rows, own, Ids(selected)) = selected
<1>1. ASSUME NEW p \in scopeByRepository(rows, own, Ids(selected)) PROVE p \in selected
  <2>1. p \in rows /\ \E q \in selected : q.id = p.id
    BY <1>1 DEF scopeByRepository, own, Ids
  <2> QED BY <2>1
<1>2. ASSUME NEW p \in selected PROVE p \in scopeByRepository(rows, own, Ids(selected))
  BY DEF scopeByRepository, own, Ids
<1> QED BY <1>1, <1>2

\* Who administers a repository is shown it, whatever the mirror says.
LEMMA AdministratorsSee ==
  ASSUME NEW d, NEW user, NEW r \in d.repositories, user # NULL, NULL # "admin",
         ById(d.repositories, r.id) = r, hasAdminAccess(d, r.id, user)
  PROVE  r \in scopeToVisible(d, user)
BY DEF hasAdminAccess, scopeToVisible, Matches, findCollaborator

\* Who administers a project or topic is shown it, where the mirror says what the
\* claims say.
LEMMA StewardsSee ==
  ASSUME NEW d, NEW k, NEW table, NEW p \in table, k.user # NULL,
         observerOrganizationIds(d, k.user) = DOMAIN k.organizations,
         canAdministerProject(p, k)
  PROVE  p \in scopeByRepository(table, own, Ids(OwnedOrShared(d, table, k.user)))
<1>1. p \in OwnedOrShared(d, table, k.user)
  BY DEF canAdministerProject, OwnedOrShared, Matches, hasOrgAdminRole
<1>2. p.id \in Ids(OwnedOrShared(d, table, k.user)) BY <1>1 DEF Ids
<1> QED BY <1>2 DEF scopeByRepository, own

\* A membership is shown when both its ends may be seen.
LEMMA MembersShown ==
  ASSUME input \in AccessInput, NEW user
  PROVE  LET shown == RepositoryReadPlugin(db, user)
         IN  /\ \A m \in db.projectRepositories :
                  m \in shown.projectRepositories
                    <=> /\ m.projectId \in visibleProjectIds(db, user)
                        /\ m.repositoryId \in visibleRepositoryIds(db, user)
             /\ \A m \in db.topicPullRequests :
                  m \in shown.topicPullRequests
                    <=> /\ m.topicId \in visibleTopicIds(db, user)
                        /\ m.pullRequestId \in visiblePullRequestIds(db, user)
<1> DEFINE shown   == RepositoryReadPlugin(db, user)
           members == {m \in db.projectRepositories :
                         /\ m.projectId \in visibleProjectIds(db, user)
                         /\ m.repositoryId \in visibleRepositoryIds(db, user)}
           works   == {m \in db.topicPullRequests :
                         /\ m.topicId \in visibleTopicIds(db, user)
                         /\ m.pullRequestId \in visiblePullRequestIds(db, user)}
<1>1. shown.projectRepositories = members
  <2>1. shown.projectRepositories = scopeByRepository(db.projectRepositories, own, Ids(members))
    BY ShownTables DEF visibleMembershipIds
  <2>2. members \subseteq db.projectRepositories OBVIOUS
  <2>3. \A p, q \in db.projectRepositories : p.id = q.id => p = q BY RowsApart
  <2> HIDE DEF members, shown
  <2> QED BY <2>1, <2>2, <2>3, SelectedById
<1>2. shown.topicPullRequests = works
  <2>1. shown.topicPullRequests = scopeByRepository(db.topicPullRequests, own, Ids(works))
    BY ShownTables DEF visibleTopicMembershipIds
  <2>2. works \subseteq db.topicPullRequests OBVIOUS
  <2>3. \A p, q \in db.topicPullRequests : p.id = q.id => p = q BY RowsApart
  <2> HIDE DEF works, shown
  <2> QED BY <2>1, <2>2, <2>3, SelectedById
<1> QED BY <1>1, <1>2

LEMMA GuardsOpenTheShown == input \in Inputs => AdministeredIsShown
<1> SUFFICES ASSUME input \in AccessInput, c # NULL,
                    input.mirrored <=> "g" \in DOMAIN c.organizations
             PROVE  AdministeredIsShown
  BY Families DEF AdministeredIsShown
<1> DEFINE shown == RepositoryReadPlugin(db, User)
<1>1. /\ User = c.user /\ User # NULL
      /\ observerOrganizationIds(db, c.user) = DOMAIN c.organizations
  BY MirrorIsClaims
<1>2. ASSUME NEW r \in db.repositories, hasAdminAccess(db, r.id, c.user)
      PROVE  r \in shown.repositories
  <2>1. ById(db.repositories, r.id) = r BY RowsById
  <2>2. NULL # "admin" BY NullAssumption
  <2>3. r \in scopeToVisible(db, User) BY <1>1, <1>2, <2>1, <2>2, AdministratorsSee
  <2> QED BY <2>3, ShownTables
<1>3. ASSUME NEW r \in db.repositories,
             \/ updateRepository(db, c, r.id)
             \/ createRepositoryCollaborator(db, c, r.id, TRUE)
             \/ \E rule \in db.rules : rule.repositoryId = r.id
                                        /\ modifyBranchProtectionRule(db, c, rule)
      PROVE  r \in shown.repositories
  <2>1. hasAdminAccess(db, r.id, c.user)
    BY <1>3 DEF updateRepository, createRepositoryCollaborator, modifyBranchProtectionRule
  <2> QED BY <1>2, <2>1
<1>4. ASSUME NEW p \in db.pullRequests, p.authorId # c.user, updatePullRequest(db, c, p.id)
      PROVE  p \in shown.pullRequests
  <2>1. hasAdminAccess(db, p.repositoryId, c.user)
    BY <1>4, RowsById DEF updatePullRequest
  <2>2. PICK r \in db.repositories : r.id = p.repositoryId
    BY <2>1, ByIdFinds DEF hasAdminAccess
  <2>3. r \in scopeToVisible(db, User) BY <1>2, <2>1, <2>2, ShownTables
  <2>4. p.repositoryId \in visibleRepositoryIds(db, User)
    BY <2>2, <2>3 DEF visibleRepositoryIds, Ids
  <2>5. p \in scopeByRepository(db.pullRequests, direct, visibleRepositoryIds(db, User))
    BY <2>4 DEF scopeByRepository, direct
  <2> QED BY <2>5, ShownTables
<1>5. ASSUME NEW p \in db.projects, administerProject(db, c, p.id) PROVE p \in shown.projects
  <2>1. canAdministerProject(p, c) BY <1>5, RowsById DEF administerProject
  <2>2. p \in scopeByRepository(db.projects, own, visibleProjectIds(db, User))
    BY <1>1, <2>1, StewardsSee DEF visibleProjectIds
  <2> QED BY <2>2, ShownTables
<1>6. ASSUME NEW t \in db.topics, administerTopic(db, c, t.id) PROVE t \in shown.topics
  <2>1. canAdministerProject(t, c) BY <1>6, RowsById DEF administerTopic
  <2>2. t \in scopeByRepository(db.topics, own, visibleTopicIds(db, User))
    BY <1>1, <2>1, StewardsSee DEF visibleTopicIds
  <2> QED BY <2>2, ShownTables
<1>7. ASSUME NEW t \in db.relationshipTypes, modifyRelationshipType(db, c, t.id)
      PROVE  t \in shown.relationshipTypes
  <2>1. t.organizationId \in DOMAIN c.organizations
    BY <1>7, RowsById DEF modifyRelationshipType, createRelationshipType, hasOrgAdminRole
  <2>2. t \in scopeRelationshipTypesToCaller(db, User)
    BY <1>1, <2>1 DEF scopeRelationshipTypesToCaller
  <2> QED BY <2>2, ShownTables
<1>8. ASSUME NEW m \in db.projectRepositories, modifyProjectRepository(db, c, m.id)
      PROVE  m \in shown.projectRepositories <=> m.repositoryId \in Ids(shown.repositories)
  <2>1. administerProject(db, c, m.projectId)
    BY <1>8, RowsById DEF modifyProjectRepository
  <2>2. PICK p \in db.projects : p.id = m.projectId
    BY <2>1, ByIdFinds DEF administerProject
  <2>3. p \in shown.projects BY <1>5, <2>1, <2>2
  <2>4. m.projectId \in visibleProjectIds(db, User)
    BY <2>2, <2>3, ShownTables DEF scopeByRepository, own
  <2>5. m \in shown.projectRepositories <=> m.repositoryId \in visibleRepositoryIds(db, User)
    BY <2>4, MembersShown
  <2>6. Ids(shown.repositories) = visibleRepositoryIds(db, User)
    BY ShownTables DEF visibleRepositoryIds
  <2> QED BY <2>5, <2>6
<1>9. ASSUME NEW m \in db.topicPullRequests, modifyTopicPullRequest(db, c, m.id)
      PROVE  m \in shown.topicPullRequests <=> m.pullRequestId \in Ids(shown.pullRequests)
  <2>1. administerTopic(db, c, m.topicId)
    BY <1>9, RowsById DEF modifyTopicPullRequest
  <2>2. PICK t \in db.topics : t.id = m.topicId
    BY <2>1, ByIdFinds DEF administerTopic
  <2>3. t \in shown.topics BY <1>6, <2>1, <2>2
  <2>4. m.topicId \in visibleTopicIds(db, User)
    BY <2>2, <2>3, ShownTables DEF scopeByRepository, own
  <2>5. m \in shown.topicPullRequests
          <=> m.pullRequestId \in visiblePullRequestIds(db, User)
    BY <2>4, MembersShown
  <2>6. Ids(shown.pullRequests) = visiblePullRequestIds(db, User)
    BY ShownTables DEF visiblePullRequestIds
  <2> QED BY <2>5, <2>6
<1> HIDE DEF shown
<1> QED BY <1>3, <1>4, <1>5, <1>6, <1>7, <1>8, <1>9 DEF AdministeredIsShown, shown

\* The mutation guards are ordered by authority, and what a caller may administer he
\* is shown, but for memberships of repositories or pull requests he is not shown
\* (MCDecisions!AuthorityHoldsTogether).
THEOREM AuthorityIsOrdered == DecisionsSpec => []AuthorityHoldsTogether
<1>1. input \in Inputs => AuthorityHoldsTogether
  BY GuardsAreNested, GuardsOpenTheShown DEF AuthorityHoldsTogether
<1> QED BY <1>1, InputInvariant, PTL

-----------------------------------------------------------------------------
(* Reads, for any database *)

\* The organizations whose rows an observer sees by the mirror
LEMMA SharedByMirror ==
  ASSUME NEW d, NEW user, NEW o
  PROVE  o \in observerOrganizationIds(d, user)
           <=> \E m \in d.organizationMembers : m.organizationId = o /\ Matches(m.userId, user)
BY DEF observerOrganizationIds

\* The wrappers of GraphQL and the policies of the database filter the same rows, in
\* every table both filter.
LEMMA WrappersArePolicies ==
  ASSUME NEW d, NEW user
  PROVE  LET policies == readPolicies(d, user)
             wrapped  == RepositoryReadPlugin(d, user)
         IN  \A table \in DOMAIN policies : wrapped[table] = policies[table]
<1> DEFINE policies     == readPolicies(d, user)
           wrapped      == RepositoryReadPlugin(d, user)
           repositories == repositoryVisible(d, user)
           pullRequests == derivedFrom(d.pullRequests, direct, repositories)
           changes      == derivedFrom(d.changes, direct, repositories)
<1>1. scopeToVisible(d, user) = repositories
  BY SharedByMirror DEF scopeToVisible, repositoryVisible
<1>2. \A rows, column, parents :
        scopeByRepository(rows, column, Ids(parents)) = derivedFrom(rows, column, parents)
  BY DEF scopeByRepository, derivedFrom
<1>3. visibleRepositoryIds(d, user) = Ids(repositories) BY <1>1 DEF visibleRepositoryIds
<1>4. visiblePullRequestIds(d, user) = Ids(pullRequests)
  BY <1>2, <1>3 DEF visiblePullRequestIds
<1>5. visibleChangeIds(d, user) = Ids(changes) BY <1>2, <1>3 DEF visibleChangeIds
<1>6. scopeAgentsToCaller(d, user) = agentVisible(d, user)
  BY SharedByMirror DEF scopeAgentsToCaller, OwnedOrShared, agentVisible
<1>7. scopeOrganizationsToCaller(d, user) = organizationVisible(d, user)
  BY SharedByMirror DEF scopeOrganizationsToCaller, organizationVisible
<1>8. policies = [repositories        |-> repositories,
                  pullRequests        |-> pullRequests,
                  pullRequestComments |-> derivedFrom(d.pullRequestComments, viaPullRequest,
                                                      pullRequests),
                  pullRequestReviews  |-> derivedFrom(d.pullRequestReviews, viaPullRequest,
                                                      pullRequests),
                  stacks              |-> derivedFrom(d.stacks, direct, repositories),
                  changes             |-> changes,
                  verificationChecks  |-> derivedFrom(d.verificationChecks, viaChange, changes),
                  agents              |-> agentVisible(d, user),
                  organizations       |-> organizationVisible(d, user)]
  BY DEF readPolicies
<1> HIDE DEF policies, wrapped, repositories, pullRequests, changes
<1>9. /\ wrapped.repositories = policies.repositories
      /\ wrapped.pullRequests = policies.pullRequests
      /\ wrapped.pullRequestComments = policies.pullRequestComments
      /\ wrapped.pullRequestReviews = policies.pullRequestReviews
      /\ wrapped.stacks = policies.stacks
      /\ wrapped.changes = policies.changes
      /\ wrapped.verificationChecks = policies.verificationChecks
      /\ wrapped.agents = policies.agents
      /\ wrapped.organizations = policies.organizations
  BY <1>1, <1>2, <1>3, <1>4, <1>5, <1>6, <1>7, <1>8, ShownTables
     DEF wrapped, pullRequests, changes
<1>10. DOMAIN policies = {"repositories", "pullRequests", "pullRequestComments",
                          "pullRequestReviews", "stacks", "changes", "verificationChecks",
                          "agents", "organizations"}
  BY <1>8
<1> QED BY <1>9, <1>10 DEF policies, wrapped

\* Every row GraphQL shows is shown with the rows it is read by, in any database
\* whose relationships, memberships, projects and topics have ids of their own and
\* whose mirrored memberships are of organizations it holds.
LEMMA ParentsOfTheShown ==
  ASSUME NEW d, NEW user,
         \A rows \in {d.relationships, d.projectRepositories, d.topicPullRequests,
                      d.projects, d.topics} : \A p, q \in rows : p.id = q.id => p = q,
         \A m \in d.organizationMembers : \E o \in d.organizations : o.id = m.organizationId
  PROVE  LET shown == RepositoryReadPlugin(d, user)
             Stands(table, column, parent) ==
               \A row \in shown[table] : row[column] \in Ids(shown[parent])
         IN /\ \A table \in {"pullRequests", "stacks", "changes", "projectRepositories",
                             "externalDependencies", "mergeBatches", "mergeQueueEntries",
                             "repositoryCollaborators"} :
                 Stands(table, direct, "repositories")
            /\ Stands("pullRequestComments", viaPullRequest, "pullRequests")
            /\ Stands("pullRequestReviews", viaPullRequest, "pullRequests")
            /\ Stands("organizationMembers", viaOrganization, "organizations")
            /\ Stands("topicPullRequests", viaPullRequest, "pullRequests")
            /\ Stands("topicPullRequests", "topicId", "topics")
            /\ Stands("projectRepositories", "projectId", "projects")
            /\ Stands("verificationChecks", viaChange, "changes")
            /\ Stands("relationships", "source", "repositories")
            /\ Stands("relationships", "target", "repositories")
            /\ Stands("relationshipMetadata", viaRelationship, "relationships")
<1> DEFINE shown == RepositoryReadPlugin(d, user)
           ids   == visibleRepositoryIds(d, user)
           edges == {r \in d.relationships : r.source \in ids /\ r.target \in ids}
           members == {m \in d.projectRepositories :
                         m.projectId \in visibleProjectIds(d, user) /\ m.repositoryId \in ids}
           works == {m \in d.topicPullRequests :
                       /\ m.topicId \in visibleTopicIds(d, user)
                       /\ m.pullRequestId \in visiblePullRequestIds(d, user)}
<1>1. shown.relationships = edges
  <2>1. shown.relationships = scopeByRepository(d.relationships, own, Ids(edges))
    BY ShownTables DEF visibleRelationshipIds
  <2>2. edges \subseteq d.relationships OBVIOUS
  <2> HIDE DEF edges, shown
  <2> QED BY <2>1, <2>2, SelectedById
<1>2. shown.projectRepositories = members
  <2>1. shown.projectRepositories = scopeByRepository(d.projectRepositories, own, Ids(members))
    BY ShownTables DEF visibleMembershipIds
  <2>2. members \subseteq d.projectRepositories OBVIOUS
  <2> HIDE DEF members, shown
  <2> QED BY <2>1, <2>2, SelectedById
<1>3. shown.topicPullRequests = works
  <2>1. shown.topicPullRequests = scopeByRepository(d.topicPullRequests, own, Ids(works))
    BY ShownTables DEF visibleTopicMembershipIds
  <2>2. works \subseteq d.topicPullRequests OBVIOUS
  <2> HIDE DEF works, shown
  <2> QED BY <2>1, <2>2, SelectedById
<1>4. \A rows : OwnedOrShared(d, rows, user) \subseteq rows BY DEF OwnedOrShared
<1>5. shown.projects = OwnedOrShared(d, d.projects, user)
  BY <1>4, SelectedById, ShownTables DEF visibleProjectIds
<1>6. shown.topics = OwnedOrShared(d, d.topics, user)
  BY <1>4, SelectedById, ShownTables DEF visibleTopicIds
<1>7. /\ Ids(shown.repositories) = ids
      /\ Ids(shown.pullRequests) = visiblePullRequestIds(d, user)
      /\ Ids(shown.changes) = visibleChangeIds(d, user)
      /\ Ids(shown.projects) = visibleProjectIds(d, user)
      /\ Ids(shown.topics) = visibleTopicIds(d, user)
      /\ Ids(shown.relationships) = visibleRelationshipIds(d, user)
  <2>1. Ids(shown.repositories) = ids BY ShownTables DEF visibleRepositoryIds
  <2>2. Ids(shown.pullRequests) = visiblePullRequestIds(d, user)
    BY ShownTables DEF visiblePullRequestIds
  <2>3. Ids(shown.changes) = visibleChangeIds(d, user) BY ShownTables DEF visibleChangeIds
  <2>4. visibleRelationshipIds(d, user) = Ids(edges) BY DEF visibleRelationshipIds
  <2> HIDE DEF shown, ids, edges, members, works
  <2>5. Ids(shown.projects) = visibleProjectIds(d, user) BY <1>5 DEF visibleProjectIds
  <2>6. Ids(shown.topics) = visibleTopicIds(d, user) BY <1>6 DEF visibleTopicIds
  <2>7. Ids(shown.relationships) = visibleRelationshipIds(d, user) BY <1>1, <2>4
  <2> QED BY <2>1, <2>2, <2>3, <2>5, <2>6, <2>7
<1>8. \A rows, column, some : \A row \in scopeByRepository(rows, column, some) :
        row[column] \in some
  BY DEF scopeByRepository
<1>9. /\ shown.pullRequests = scopeByRepository(d.pullRequests, direct, ids)
      /\ shown.stacks = scopeByRepository(d.stacks, direct, ids)
      /\ shown.changes = scopeByRepository(d.changes, direct, ids)
      /\ shown.pullRequestComments =
           scopeByRepository(d.pullRequestComments, viaPullRequest,
                             visiblePullRequestIds(d, user))
      /\ shown.pullRequestReviews =
           scopeByRepository(d.pullRequestReviews, viaPullRequest,
                             visiblePullRequestIds(d, user))
      /\ shown.externalDependencies = scopeByRepository(d.externalDependencies, direct, ids)
      /\ shown.mergeBatches = scopeByRepository(d.mergeBatches, direct, ids)
      /\ shown.mergeQueueEntries = scopeByRepository(d.mergeQueueEntries, direct, ids)
      /\ shown.repositoryCollaborators =
           scopeByRepository(d.repositoryCollaborators, direct, ids)
      /\ shown.organizationMembers =
           scopeByRepository(d.organizationMembers, viaOrganization,
                             observerOrganizationIds(d, user))
      /\ shown.verificationChecks =
           scopeByRepository(d.verificationChecks, viaChange, visibleChangeIds(d, user))
      /\ shown.relationshipMetadata =
           scopeByRepository(d.relationshipMetadata, viaRelationship,
                             visibleRelationshipIds(d, user))
  BY ShownTables
<1>10. /\ \A row \in shown.projectRepositories : row[direct] \in ids
       /\ \A row \in shown.projectRepositories : row["projectId"] \in visibleProjectIds(d, user)
       /\ \A row \in shown.topicPullRequests : row["topicId"] \in visibleTopicIds(d, user)
       /\ \A row \in shown.topicPullRequests :
            row[viaPullRequest] \in visiblePullRequestIds(d, user)
       /\ \A row \in shown.relationships : row["source"] \in ids
       /\ \A row \in shown.relationships : row["target"] \in ids
  BY <1>1, <1>2, <1>3 DEF direct, viaPullRequest
<1>12. \A o \in observerOrganizationIds(d, user) : o \in Ids(shown.organizations)
  <2> SUFFICES ASSUME NEW m \in d.organizationMembers, Matches(m.userId, user)
               PROVE  m.organizationId \in Ids(shown.organizations)
    BY DEF observerOrganizationIds
  <2>1. PICK o \in d.organizations : o.id = m.organizationId OBVIOUS
  <2>2. o.id \in observerOrganizationIds(d, user) BY <2>1 DEF observerOrganizationIds
  <2>3. o \in scopeOrganizationsToCaller(d, user)
    BY <2>2 DEF scopeOrganizationsToCaller
  <2>4. o \in shown.organizations BY <2>3, ShownTables
  <2> QED BY <2>1, <2>4 DEF Ids
<1> HIDE DEF shown, ids, edges, members, works
<1>11. /\ \A row \in shown.pullRequests : row[direct] \in ids
       /\ \A row \in shown.stacks : row[direct] \in ids
       /\ \A row \in shown.changes : row[direct] \in ids
       /\ \A row \in shown.pullRequestComments :
            row[viaPullRequest] \in visiblePullRequestIds(d, user)
       /\ \A row \in shown.pullRequestReviews :
            row[viaPullRequest] \in visiblePullRequestIds(d, user)
       /\ \A row \in shown.externalDependencies : row[direct] \in ids
       /\ \A row \in shown.mergeBatches : row[direct] \in ids
       /\ \A row \in shown.mergeQueueEntries : row[direct] \in ids
       /\ \A row \in shown.repositoryCollaborators : row[direct] \in ids
       /\ \A row \in shown.organizationMembers :
            row[viaOrganization] \in observerOrganizationIds(d, user)
       /\ \A row \in shown.verificationChecks : row[viaChange] \in visibleChangeIds(d, user)
       /\ \A row \in shown.relationshipMetadata :
            row[viaRelationship] \in visibleRelationshipIds(d, user)
  BY <1>8, <1>9
<1> QED BY <1>7, <1>10, <1>11, <1>12 DEF shown

LEMMA ParentsStand == input \in Inputs => ParentsAreShown
<1> SUFFICES ASSUME input \in AccessInput PROVE ParentsAreShown
  BY Families DEF ParentsAreShown
<1>1. \A rows \in {db.relationships, db.projectRepositories, db.topicPullRequests,
                   db.projects, db.topics} : \A p, q \in rows : p.id = q.id => p = q
  BY RowsApart
<1>2. \A m \in db.organizationMembers : \E o \in db.organizations : o.id = m.organizationId
  <2>1. db.organizations = {[id |-> "g"]} BY DEF db, dbOf
  <2>2. \A m \in db.organizationMembers : m.organizationId = "g" BY DEF db, dbOf
  <2> QED BY <2>1, <2>2
<1> QED BY <1>1, <1>2, ParentsOfTheShown DEF ParentsAreShown

\* A caller reads by the routes what GraphQL shows him, for any row of any database.
LEMMA RoutesShowTheSame ==
  ASSUME NEW d, NEW r \in d.repositories, NEW k, NULL \notin DOMAIN r.collaborators,
         \A user \in DOMAIN r.collaborators : r.collaborators[user] # NULL,
         k # NULL => /\ k.user # NULL
                     /\ observerOrganizationIds(d, k.user) = DOMAIN k.organizations
  PROVE  canReadRepository(k, r)
           <=> r \in scopeToVisible(d, IF k = NULL THEN NULL ELSE k.user)
<1>1. CASE k = NULL
  <2>1. observerOrganizationIds(d, NULL) = {} BY DEF observerOrganizationIds, Matches
  <2> QED BY <1>1, <2>1 DEF canReadRepository, scopeToVisible, Matches
<1>2. CASE k # NULL
  BY <1>2 DEF canReadRepository, scopeToVisible, Matches, findCollaborator, isOrganizationMember
<1> QED BY <1>1, <1>2

LEMMA AnonymousRows ==
  ASSUME input \in AccessInput, NEW r \in db.repositories
  PROVE  NULL \notin DOMAIN r.collaborators
<1>1. CASE r = Elsewhere BY <1>1 DEF Elsewhere
<1>2. CASE r = input.row
  <2>1. r.collaborators \in {<<>>} \cup [{"u"} -> {"read", "write", "admin"}]
    BY <1>2, AccessShape DEF Here
  <2> QED BY <2>1, NullAssumption
<1> QED BY <1>1, <1>2, Rows

LEMMA ReadersAlwaysAgree == input \in Inputs => ReadersAgree
<1> SUFFICES ASSUME input \in AccessInput PROVE ReadersAgree
  BY Families DEF ReadersAgree
<1> DEFINE policies == readPolicies(db, User)
           wrapped  == RepositoryReadPlugin(db, User)
           query    == [kind |-> "query", fields |-> {"repositories"}]
           blocked  == isGitCallerBetaBlocked(input.gate, c)
<1>1. \A table \in DOMAIN policies : wrapped[table] = policies[table]
  BY WrappersArePolicies
<1>2. wrapped.repositories = scopeToVisible(db, User) BY ShownTables
<1>3. User # NULL => memberOrgIds(db, User) = observerOrganizationIds(db, User)
  BY DEF memberOrgIds, observerOrganizationIds, Matches
<1>4. blastRadiusRepositories(db, User) = scopeToVisible(db, User)
  <2>1. User = NULL => observerOrganizationIds(db, User) = {}
    BY DEF observerOrganizationIds, Matches
  <2> QED BY <1>3, <2>1, AnonymousRows DEF blastRadiusRepositories, scopeToVisible, Matches
<1>5. c # NULL => visibleMembers(db, User, {"here", "elsewhere"}) = Ids(scopeToVisible(db, User))
  <2> SUFFICES ASSUME c # NULL
               PROVE  visibleMembers(db, User, {"here", "elsewhere"})
                        = Ids(scopeToVisible(db, User))
    OBVIOUS
  <2>1. User # NULL BY AccessShape, NullAssumption DEF Caller, User
  <2>2. NULL \notin memberOrgIds(db, User)
    <3>1. \A m \in db.organizationMembers : m.organizationId = "g" BY DEF db, dbOf
    <3> QED BY <3>1, NullAssumption DEF memberOrgIds
  <2>3. \A r \in db.repositories : r.id \in {"here", "elsewhere"} BY Rows
  <2> QED BY <1>3, <2>1, <2>2, <2>3 DEF visibleMembers, scopeToVisible, Matches, Ids
<1>6. ASSUME input.request.scheme # "basic"
      PROVE  Executes(input.request, input.gate, query) <=> ~blocked
  <2>1. resolveUser(input.request) = c
    BY <1>6 DEF AccessInput, Request, resolveUser, c
  <2>2. ~selectionIsBetaSafe(query) BY DEF selectionIsBetaSafe, BETA_CARVE_OUT_FIELDS
  <2>3. ~operationExceedsScope(c, query) BY DEF operationExceedsScope
  <2> HIDE DEF query
  <2> QED BY <2>1, <2>2, <2>3 DEF Executes, betaGate, isGitCallerBetaBlocked
<1>7. ASSUME ~blocked,
             c # NULL => /\ ~Confined(c.scope)
                         /\ input.mirrored <=> "g" \in DOMAIN c.organizations
      PROVE  gateRead(input.request, input.row, input.gate, TRUE) = 200
               <=> input.row \in scopeToVisible(db, User)
  <2>1. /\ input.row \in db.repositories /\ input.row # NULL BY Rows
  <2>2. c # NULL => /\ c.user # NULL
                    /\ observerOrganizationIds(db, c.user) = DOMAIN c.organizations
    BY <1>7, MirrorIsClaims
  <2>3. canReadRepository(c, input.row) <=> input.row \in scopeToVisible(db, User)
    BY <2>1, <2>2, Collaborators, AnonymousRows, RoutesShowTheSame DEF User
  <2>4. authenticateGitRequest(input.request) = c
    BY DEF AccessInput, Request, authenticateGitRequest, extractToken, c
  <2>5. CASE c = NULL
    BY <1>7, <2>1, <2>3, <2>4, <2>5 DEF gateRead, AnswersAnonymous
  <2>6. CASE c # NULL
    <3>1. scopeAllowsRepository(c.scope, input.row.id)
      BY <1>7, <2>6 DEF scopeAllowsRepository
    <3> QED BY <1>7, <2>1, <2>3, <2>4, <2>6, <3>1 DEF gateRead
  <2> QED BY <2>5, <2>6
<1> HIDE DEF policies, wrapped, query, blocked
<1> QED BY <1>1, <1>2, <1>4, <1>5, <1>6, <1>7 DEF ReadersAgree, policies, wrapped, query, blocked

\* Every place that decides who may read agrees with the others, and no row is shown
\* without the row it is read by (MCDecisions!ReadersSeeAlike).
THEOREM ReadersAllSeeAlike == DecisionsSpec => []ReadersSeeAlike
<1>1. input \in Inputs => ReadersSeeAlike
  BY ReadersAlwaysAgree, ParentsStand DEF ReadersSeeAlike
<1> QED BY <1>1, InputInvariant, PTL

LEMMA LeastNumber ==
  ASSUME NEW S \in SUBSET Nat, S # {}
  PROVE  \E m \in S : \A n \in S : m <= n
<1>1. IsWellFoundedOn({p \in Nat \X Nat : p[1] < p[2]}, Nat)
  BY NatLessThanWellFounded DEF OpToRel
<1>2. PICK m \in S : \A n \in S : ~(<<n, m>> \in {p \in Nat \X Nat : p[1] < p[2]})
  BY <1>1, WFMin
<1>3. ASSUME NEW n \in S PROVE m <= n
  <2>1. n \in Nat /\ m \in Nat OBVIOUS
  <2>2. ~(n < m) BY <1>2, <2>1
  <2> QED BY <2>1, <2>2
<1> QED BY <1>3

-----------------------------------------------------------------------------
(***************************************************************************)
(* The blast radius, for any finite set of edges and any root: the walk    *)
(* computeBlastRadius takes, round by round.                               *)
(***************************************************************************)

NextRound(edges, root, k, last) ==
  LET visited == {root} \cup DOMAIN last.affected
      next    == dependents(edges, last.frontier) \ visited
  IN  [frontier |-> next,
       affected |-> [n \in next \cup DOMAIN last.affected |->
                       IF n \in next THEN k ELSE last.affected[n]]]

FirstRound(root) == [frontier |-> {root}, affected |-> <<>>]

IsWalk(edges, root, m, round) ==
  round = [k \in 0 .. m |-> IF k = 0 THEN FirstRound(root)
                                     ELSE NextRound(edges, root, k, round[k - 1])]

\* The first m rounds can be taken, whatever m is
LEMMA WalkExists ==
  ASSUME NEW edges, NEW root, NEW m \in Nat
  PROVE  \E round : IsWalk(edges, root, m, round)
<1> DEFINE stuck == {k \in Nat : \A round : ~IsWalk(edges, root, k, round)}
<1> SUFFICES ASSUME stuck # {} PROVE FALSE
  OBVIOUS
<1>1. PICK k \in stuck : \A j \in stuck : k <= j
  <2> HIDE DEF stuck
  <2> QED BY LeastNumber, stuck \subseteq Nat DEF stuck
<1>2. k \in Nat /\ \A round : ~IsWalk(edges, root, k, round) OBVIOUS
<1>3. CASE k = 0
  <2>1. IsWalk(edges, root, 0, [i \in 0 .. 0 |-> FirstRound(root)])
    BY DEF IsWalk
  <2> QED BY <1>2, <1>3, <2>1
<1>4. CASE k # 0
  <2>1. k - 1 \in Nat /\ k - 1 \notin stuck BY <1>1, <1>2, <1>4
  <2>2. PICK f : IsWalk(edges, root, k - 1, f) BY <2>1
  <2> DEFINE g == [i \in 0 .. k |-> IF i = k THEN NextRound(edges, root, k, f[k - 1]) ELSE f[i]]
  <2>3. \A i \in 0 .. k - 1 : f[i] = IF i = 0 THEN FirstRound(root)
                                              ELSE NextRound(edges, root, i, f[i - 1])
    BY <2>1, <2>2 DEF IsWalk
  <2>4. \A i \in 0 .. k : g[i] = IF i = 0 THEN FirstRound(root)
                                          ELSE NextRound(edges, root, i, g[i - 1])
    BY <1>2, <1>4, <2>3
  <2>5. IsWalk(edges, root, k, g)
    <3>1. g = [i \in 0 .. k |-> g[i]] OBVIOUS
    <3> HIDE DEF g
    <3> QED BY <2>4, <3>1 DEF IsWalk
  <2> QED BY <1>2, <2>5
<1> QED BY <1>3, <1>4

\* The rounds of computeBlastRadius
Rounds(edges, root) == CHOOSE round : IsWalk(edges, root, Cardinality(edges), round)

LEMMA RoundsAreTaken ==
  ASSUME NEW edges, NEW root, Cardinality(edges) \in Nat
  PROVE  /\ Rounds(edges, root)[0] = FirstRound(root)
         /\ \A k \in 1 .. Cardinality(edges) :
              Rounds(edges, root)[k] = NextRound(edges, root, k, Rounds(edges, root)[k - 1])
         /\ computeBlastRadius(edges, root) = Rounds(edges, root)[Cardinality(edges)].affected
<1> DEFINE n == Cardinality(edges)
           f == Rounds(edges, root)
<1>1. IsWalk(edges, root, n, f) BY WalkExists DEF Rounds
<1>2. computeBlastRadius(edges, root) = f[n].affected
  BY DEF computeBlastRadius, Rounds, IsWalk, FirstRound, NextRound
<1> HIDE DEF f
<1>3. f[0] = FirstRound(root) BY <1>1 DEF IsWalk
<1>4. \A k \in 1 .. n : f[k] = NextRound(edges, root, k, f[k - 1]) BY <1>1 DEF IsWalk
<1> QED BY <1>2, <1>3, <1>4 DEF f

Met(root, w) == {root} \cup DOMAIN w.affected

DepthIn(root, w, x) == IF x = root THEN 0 ELSE w.affected[x]

Sources(edges) == {e.source : e \in edges}

\* Every member of the radius is one step from a nearer one
Chained(edges, root, w) ==
  /\ root \notin DOMAIN w.affected /\ DOMAIN w.affected \subseteq Sources(edges)
  /\ \A x \in DOMAIN w.affected :
       \E e \in edges : /\ e.source = x /\ e.target \in Met(root, w)
                        /\ DepthIn(root, w, x) = DepthIn(root, w, e.target) + 1

\* What depends on a member nearer than k is a member one step farther at most
ClosedBelow(edges, root, k, w) ==
  \A e \in edges :
    e.target \in Met(root, w) /\ DepthIn(root, w, e.target) < k =>
      /\ e.source \in Met(root, w)
      /\ DepthIn(root, w, e.source) <= DepthIn(root, w, e.target) + 1

\* After k rounds: depths are at most k, the frontier is what is at k exactly, and
\* a walk that still has one met something new in every round.
RoundInv(edges, root, k, w) ==
  /\ Chained(edges, root, w)
  /\ ClosedBelow(edges, root, k, w)
  /\ \A x \in DOMAIN w.affected : w.affected[x] \in 1 .. k
  /\ w.frontier = {x \in Met(root, w) : DepthIn(root, w, x) = k}
  /\ w.frontier # {} => Cardinality(DOMAIN w.affected) >= k

LEMMA SourcesAreFinite ==
  ASSUME NEW edges, IsFiniteSet(edges)
  PROVE  /\ IsFiniteSet(Sources(edges))
         /\ Cardinality(edges) \in Nat /\ Cardinality(Sources(edges)) \in Nat
         /\ Cardinality(Sources(edges)) <= Cardinality(edges)
<1> DEFINE f == [e \in edges |-> e.source]
<1>1. f \in Surjection(edges, Sources(edges))
  <2>1. f \in [edges -> Sources(edges)] BY DEF Sources
  <2>2. \A s \in Sources(edges) : \E e \in edges : f[e] = s BY DEF Sources
  <2> HIDE DEF f
  <2> QED BY <2>1, <2>2 DEF Surjection
<1> HIDE DEF f
<1> QED BY <1>1, FS_Surjection, FS_CardinalityType

LEMMA FirstRoundHolds ==
  ASSUME NEW edges, NEW root PROVE RoundInv(edges, root, 0, FirstRound(root))
<1> DEFINE w == FirstRound(root)
<1>1. DOMAIN w.affected = {} /\ w.frontier = {root} BY DEF FirstRound
<1> HIDE DEF w
<1>2. Met(root, w) = {root} BY <1>1 DEF Met
<1>3. Cardinality(DOMAIN w.affected) >= 0 BY <1>1, FS_EmptySet
<1>4. Chained(edges, root, w) BY <1>1 DEF Chained
<1>5. ClosedBelow(edges, root, 0, w) BY <1>2 DEF ClosedBelow, DepthIn
<1>6. w.frontier = {x \in Met(root, w) : DepthIn(root, w, x) = 0} BY <1>1, <1>2 DEF DepthIn
<1>7. RoundInv(edges, root, 0, w) BY <1>1, <1>3, <1>4, <1>5, <1>6 DEF RoundInv
<1> QED BY <1>7 DEF w

LEMMA NextRoundHolds ==
  ASSUME NEW edges, IsFiniteSet(edges), NEW root, NEW k \in Nat, NEW w,
         RoundInv(edges, root, k, w)
  PROVE  RoundInv(edges, root, k + 1, NextRound(edges, root, k + 1, w))
<1> DEFINE v    == NextRound(edges, root, k + 1, w)
           next == dependents(edges, w.frontier) \ Met(root, w)
           a    == DOMAIN w.affected
<1>1. v.frontier = next /\ DOMAIN v.affected = next \cup a BY DEF NextRound, Met
<1>2. \A x \in next \cup a : v.affected[x] = IF x \in next THEN k + 1 ELSE w.affected[x]
  BY DEF NextRound, Met
<1> HIDE DEF v
<1>3. root \notin a /\ a \subseteq Sources(edges) /\ \A x \in a : w.affected[x] \in 1 .. k
  BY DEF RoundInv, Chained
<1>4. next \cap Met(root, w) = {} /\ root \notin next BY DEF Met
<1>5. \A x : x \in next <=> /\ x \notin Met(root, w)
                            /\ \E e \in edges : e.source = x /\ e.target \in w.frontier
  BY DEF dependents
<1>6. next \subseteq Sources(edges) BY <1>5 DEF Sources
<1> HIDE DEF next
<1>7. Met(root, v) = Met(root, w) \cup next BY <1>1 DEF Met
<1>8. \A x \in Met(root, w) : DepthIn(root, v, x) = DepthIn(root, w, x)
  BY <1>2, <1>4 DEF Met, DepthIn
<1>9. \A x \in next : DepthIn(root, v, x) = k + 1 BY <1>2, <1>4 DEF DepthIn
<1>10. \A x \in Met(root, w) : DepthIn(root, w, x) \in 0 .. k BY <1>3 DEF Met, DepthIn
<1>11. \A x : x \in w.frontier <=> x \in Met(root, w) /\ DepthIn(root, w, x) = k
  BY DEF RoundInv
<1>12. Chained(edges, root, v)
  <2>1. ASSUME NEW x \in a
        PROVE  \E e \in edges : /\ e.source = x /\ e.target \in Met(root, v)
                                /\ DepthIn(root, v, x) = DepthIn(root, v, e.target) + 1
    <3>1. x \in Met(root, w) BY DEF Met
    <3>2. PICK e \in edges : /\ e.source = x /\ e.target \in Met(root, w)
                             /\ DepthIn(root, w, x) = DepthIn(root, w, e.target) + 1
      BY DEF RoundInv, Chained
    <3> QED BY <1>7, <1>8, <3>1, <3>2
  <2>2. ASSUME NEW x \in next
        PROVE  \E e \in edges : /\ e.source = x /\ e.target \in Met(root, v)
                                /\ DepthIn(root, v, x) = DepthIn(root, v, e.target) + 1
    <3>1. PICK e \in edges : e.source = x /\ e.target \in w.frontier BY <1>5
    <3>2. e.target \in Met(root, w) /\ DepthIn(root, v, e.target) = k BY <1>8, <1>11, <3>1
    <3> QED BY <1>7, <1>9, <3>1, <3>2
  <2> QED BY <1>1, <1>3, <1>4, <1>6, <2>1, <2>2 DEF Chained
<1>13. ClosedBelow(edges, root, k + 1, v)
  <2> SUFFICES ASSUME NEW e \in edges, e.target \in Met(root, v), DepthIn(root, v, e.target) < k + 1
               PROVE  /\ e.source \in Met(root, v)
                      /\ DepthIn(root, v, e.source) <= DepthIn(root, v, e.target) + 1
    BY DEF ClosedBelow
  <2>1. e.target \in Met(root, w) BY <1>7, <1>9
  <2>2. DepthIn(root, v, e.target) = DepthIn(root, w, e.target) BY <1>8, <2>1
  <2>3. CASE DepthIn(root, w, e.target) < k
    <3>1. e.source \in Met(root, w) /\ DepthIn(root, w, e.source) <= DepthIn(root, w, e.target) + 1
      BY <2>1, <2>3 DEF RoundInv, ClosedBelow
    <3> QED BY <1>7, <1>8, <2>2, <3>1
  <2>4. CASE DepthIn(root, w, e.target) = k
    <3>1. e.target \in w.frontier BY <1>11, <2>1, <2>4
    <3>2. e.source \in Met(root, w) \/ e.source \in next BY <1>5, <3>1
    <3>3. DepthIn(root, v, e.source) <= k + 1
      <4>1. CASE e.source \in next BY <1>9, <4>1
      <4>2. CASE e.source \in Met(root, w)
        <5>1. DepthIn(root, w, e.source) <= k + 1 BY <1>10, <4>2
        <5> QED BY <1>8, <4>2, <5>1
      <4> QED BY <3>2, <4>1, <4>2
    <3> QED BY <1>7, <2>2, <2>4, <3>2, <3>3
  <2> QED BY <1>10, <2>1, <2>3, <2>4
<1>14. \A x \in DOMAIN v.affected : v.affected[x] \in 1 .. k + 1 BY <1>1, <1>2, <1>3
<1>15. v.frontier = {x \in Met(root, v) : DepthIn(root, v, x) = k + 1}
  <2>1. \A x \in Met(root, w) : DepthIn(root, v, x) # k + 1
    <3>1. \A i \in 0 .. k : i # k + 1 OBVIOUS
    <3> QED BY <1>8, <1>10, <3>1
  <2> QED BY <1>1, <1>7, <1>9, <2>1
<1>16. v.frontier # {} => Cardinality(DOMAIN v.affected) >= k + 1
  <2> SUFFICES ASSUME NEW x \in next PROVE Cardinality(next \cup a) >= k + 1
    BY <1>1
  <2>1. w.frontier # {} BY <1>5
  <2>2. Cardinality(a) >= k BY <2>1 DEF RoundInv
  <2>3. x \notin a BY <1>4 DEF Met
  <2>4. IsFiniteSet(next \cup a) BY <1>3, <1>6, SourcesAreFinite, FS_Subset
  <2>5. IsFiniteSet(a) BY <2>4, FS_Subset
  <2>6. Cardinality(a) \in Nat /\ Cardinality(next \cup a) \in Nat BY <2>4, <2>5, FS_CardinalityType
  <2>7. Cardinality(a \cup {x}) = Cardinality(a) + 1 BY <2>3, <2>5, FS_AddElement
  <2>8. Cardinality(a \cup {x}) <= Cardinality(next \cup a) BY <2>4, FS_Subset
  <2> HIDE DEF a
  <2> QED BY <2>2, <2>6, <2>7, <2>8
<1>17. RoundInv(edges, root, k + 1, v)
  BY <1>12, <1>13, <1>14, <1>15, <1>16 DEF RoundInv
<1> QED BY <1>17 DEF v

LEMMA EveryRoundHolds ==
  ASSUME NEW edges, IsFiniteSet(edges), NEW root, NEW k \in 0 .. Cardinality(edges)
  PROVE  RoundInv(edges, root, k, Rounds(edges, root)[k])
<1> DEFINE n == Cardinality(edges)
           f == Rounds(edges, root)
           broken == {i \in 0 .. n : ~RoundInv(edges, root, i, f[i])}
<1> SUFFICES ASSUME broken # {} PROVE FALSE
  OBVIOUS
<1>1. n \in Nat BY SourcesAreFinite
<1>2. f[0] = FirstRound(root) /\ \A i \in 1 .. n : f[i] = NextRound(edges, root, i, f[i - 1])
  BY <1>1, RoundsAreTaken
<1>3. broken \subseteq Nat BY <1>1
<1> HIDE DEF f
<1>4. PICK m \in broken : \A i \in broken : m <= i
  <2> HIDE DEF broken
  <2> QED BY <1>3, LeastNumber
<1>5. m \in 0 .. n /\ ~RoundInv(edges, root, m, f[m]) OBVIOUS
<1>6. m # 0 BY <1>2, <1>5, FirstRoundHolds
<1>7. m - 1 \in Nat /\ m \in 1 .. n /\ m - 1 \in 0 .. n /\ m = (m - 1) + 1 BY <1>1, <1>5, <1>6
<1>8. RoundInv(edges, root, m - 1, f[m - 1])
  <2>1. m - 1 \notin broken BY <1>1, <1>4, <1>7
  <2> QED BY <1>7, <2>1
<1>9. RoundInv(edges, root, (m - 1) + 1, NextRound(edges, root, (m - 1) + 1, f[m - 1]))
  BY <1>7, <1>8, NextRoundHolds
<1> QED BY <1>2, <1>5, <1>7, <1>9

\* The depths in a radius, with none for the root
DepthAt(radius, root, x) == IF x = root THEN 0 ELSE radius[x]

Shortest(edges, root, radius) ==
  /\ root \notin DOMAIN radius /\ DOMAIN radius \subseteq Sources(edges)
  /\ \A x \in DOMAIN radius : radius[x] \in Nat
  /\ \A x \in DOMAIN radius :
       \E e \in edges : /\ e.source = x /\ e.target \in {root} \cup DOMAIN radius
                        /\ DepthAt(radius, root, x) = DepthAt(radius, root, e.target) + 1
  /\ \A e \in edges :
       e.target \in {root} \cup DOMAIN radius =>
         /\ e.source \in {root} \cup DOMAIN radius
         /\ DepthAt(radius, root, e.source) <= DepthAt(radius, root, e.target) + 1

\* As many rounds as edges are enough: a round that met something new beyond them
\* would make more sources of edges than edges.
LEMMA RadiusIsShortest ==
  ASSUME NEW edges, IsFiniteSet(edges), NEW root
  PROVE  Shortest(edges, root, computeBlastRadius(edges, root))
<1> DEFINE n == Cardinality(edges)
           w == Rounds(edges, root)[n]
           radius == computeBlastRadius(edges, root)
<1>1. n \in Nat /\ Cardinality(Sources(edges)) \in Nat /\ Cardinality(Sources(edges)) <= n
      /\ IsFiniteSet(Sources(edges))
  BY SourcesAreFinite
<1>2. radius = w.affected BY <1>1, RoundsAreTaken
<1>3. RoundInv(edges, root, n, w) BY <1>1, EveryRoundHolds
<1> HIDE DEF w, radius
<1>4. Met(root, w) = {root} \cup DOMAIN radius /\ \A x : DepthAt(radius, root, x) = DepthIn(root, w, x)
  BY <1>2 DEF Met, DepthIn, DepthAt
<1>5. \A x \in Met(root, w) : DepthIn(root, w, x) \in 0 .. n
  BY <1>1, <1>3 DEF RoundInv, Chained, Met, DepthIn
<1>6. ASSUME NEW e \in edges, e.target \in Met(root, w)
      PROVE  /\ e.source \in Met(root, w)
             /\ DepthIn(root, w, e.source) <= DepthIn(root, w, e.target) + 1
  <2>1. CASE DepthIn(root, w, e.target) < n
    BY <1>3, <1>6, <2>1 DEF RoundInv, ClosedBelow
  <2>2. CASE DepthIn(root, w, e.target) = n
    <3> DEFINE a == DOMAIN w.affected
    <3>1. e.target \in w.frontier BY <1>3, <1>6, <2>2 DEF RoundInv
    <3>2. Cardinality(a) >= n /\ a \subseteq Sources(edges) BY <1>3, <3>1 DEF RoundInv, Chained
    <3>3. e.source \in a
      <4> SUFFICES ASSUME e.source \notin a PROVE FALSE OBVIOUS
      <4>1. a \cup {e.source} \subseteq Sources(edges) BY <3>2 DEF Sources
      <4>2. IsFiniteSet(a) BY <1>1, <3>2, FS_Subset
      <4>3. Cardinality(a) \in Nat BY <4>2, FS_CardinalityType
      <4>4. Cardinality(a \cup {e.source}) = Cardinality(a) + 1 BY <4>2, FS_AddElement
      <4>5. Cardinality(a \cup {e.source}) <= Cardinality(Sources(edges)) BY <1>1, <4>1, FS_Subset
      <4> HIDE DEF a
      <4> QED BY <1>1, <3>2, <4>3, <4>4, <4>5
    <3>4. e.source \in Met(root, w) BY <3>3 DEF Met
    <3>5. DepthIn(root, w, e.source) <= n + 1 BY <1>1, <1>5, <3>4
    <3> QED BY <2>2, <3>4, <3>5
  <2> QED BY <1>1, <1>5, <1>6, <2>1, <2>2
<1>7. Chained(edges, root, w) /\ \A x \in DOMAIN radius : radius[x] \in Nat
  BY <1>1, <1>2, <1>3 DEF RoundInv
<1>8. Shortest(edges, root, radius)
  BY <1>2, <1>4, <1>6, <1>7 DEF Shortest, Chained
<1> QED BY <1>8 DEF radius

\* More edges only add to a radius, and only shorten its depths.
LEMMA MoreEdgesOnlyAdd ==
  ASSUME NEW E, NEW F, E \subseteq F, NEW root, NEW less, NEW more,
         Shortest(E, root, less), Shortest(F, root, more), NEW x \in DOMAIN less
  PROVE  x \in DOMAIN more /\ more[x] <= less[x]
<1> DEFINE Kept(y) == y \in DOMAIN more /\ more[y] <= less[y]
           depths == {less[y] : y \in {z \in DOMAIN less : ~Kept(z)}}
<1> SUFFICES ASSUME ~Kept(x) PROVE FALSE
  OBVIOUS
<1>1. depths \subseteq Nat /\ depths # {} BY DEF Shortest
<1>2. \A d \in depths : \E y \in DOMAIN less : ~Kept(y) /\ less[y] = d OBVIOUS
<1>3. \A y \in DOMAIN less : ~Kept(y) => less[y] \in depths OBVIOUS
<1> HIDE DEF depths
<1>4. PICK d \in depths : \A i \in depths : d <= i BY <1>1, LeastNumber
<1>5. PICK y \in DOMAIN less : ~Kept(y) /\ less[y] = d BY <1>2
<1>6. y # root /\ less[y] \in Nat BY DEF Shortest
<1>7. PICK e \in E : /\ e.source = y /\ e.target \in {root} \cup DOMAIN less
                     /\ less[y] = DepthAt(less, root, e.target) + 1
  BY <1>6 DEF Shortest, DepthAt
<1>8. /\ e.target \in {root} \cup DOMAIN more
      /\ DepthAt(more, root, e.target) <= DepthAt(less, root, e.target)
      /\ DepthAt(more, root, e.target) \in Nat /\ DepthAt(less, root, e.target) \in Nat
  <2>1. CASE e.target = root BY <2>1 DEF DepthAt
  <2>2. CASE e.target # root
    <3>1. e.target \in DOMAIN less /\ less[e.target] \in Nat /\ less[y] = less[e.target] + 1
      BY <1>7, <2>2 DEF Shortest, DepthAt
    <3>2. ~(less[y] <= less[e.target]) BY <3>1
    <3>3. Kept(e.target) BY <1>3, <1>4, <1>5, <3>1, <3>2
    <3> QED BY <2>2, <3>1, <3>3 DEF DepthAt, Shortest
  <2> QED BY <2>1, <2>2
<1>9. y \in {root} \cup DOMAIN more /\ DepthAt(more, root, y) <= DepthAt(more, root, e.target) + 1
  BY <1>7, <1>8 DEF Shortest
<1>10. y \in DOMAIN more /\ more[y] <= DepthAt(more, root, e.target) + 1 /\ more[y] \in Nat
  BY <1>6, <1>9 DEF DepthAt, Shortest
<1>11. more[y] <= less[y] BY <1>6, <1>7, <1>8, <1>10
<1> QED BY <1>5, <1>10, <1>11

\* The graph the run asks about: the owner sees it all, "u" what is public.
LEMMA SeenOfTheGraph ==
  ASSUME NEW i \in GraphInput
  PROVE  LET d == [repositories |-> graphOf(i.seen), organizationMembers |-> {},
                   relationships |-> i.edges]
         IN  /\ Ids(blastRadiusRepositories(d, "u")) = i.seen
             /\ Ids(blastRadiusRepositories(d, "v")) = Node
<1> DEFINE d == [repositories |-> graphOf(i.seen), organizationMembers |-> {},
                 relationships |-> i.edges]
           rows == graphOf(i.seen)
<1>1. d.repositories = rows /\ d.organizationMembers = {} OBVIOUS
<1>2. \A r \in rows : /\ r.id \in Node /\ r.ownerId = "v" /\ DOMAIN r.collaborators = {}
                      /\ r.visibility = "public" <=> r.id \in i.seen
  BY DEF graphOf
<1>3. ASSUME NEW n \in Node PROVE \E r \in rows : r.id = n
  <2> DEFINE x == [id |-> n, visibility |-> IF n \in i.seen THEN "public" ELSE "private",
                   ownerId |-> "v", organizationId |-> NULL, collaborators |-> <<>>]
  <2>1. x \in rows /\ x.id = n BY DEF graphOf
  <2> HIDE DEF x, rows
  <2> QED BY <2>1
<1>4. i.seen \subseteq Node BY DEF GraphInput, Node
<1> HIDE DEF d, rows
<1>5. \A user : memberOrgIds(d, user) = {} BY <1>1 DEF memberOrgIds
<1>6. \A r : r \in blastRadiusRepositories(d, "u") <=> r \in rows /\ r.id \in i.seen
  BY <1>1, <1>2, <1>5, "u" # "v" DEF blastRadiusRepositories
<1>7. \A r : r \in blastRadiusRepositories(d, "v") <=> r \in rows
  BY <1>1, <1>2, <1>5, NullAssumption DEF blastRadiusRepositories
<1>8. \A n : n \in Ids(blastRadiusRepositories(d, "u")) <=> n \in i.seen
  BY <1>2, <1>3, <1>4, <1>6 DEF Ids
<1>9. \A n : n \in Ids(blastRadiusRepositories(d, "v")) <=> n \in Node
  BY <1>2, <1>3, <1>7 DEF Ids
<1>10. /\ Ids(blastRadiusRepositories(d, "u")) = i.seen
       /\ Ids(blastRadiusRepositories(d, "v")) = Node
  BY <1>8, <1>9
<1> QED BY <1>10 DEF d

LEMMA EdgesAreFinite == ASSUME NEW E \in SUBSET Edge PROVE IsFiniteSet(E)
<1>1. IsFiniteSet(Node)
  <2>1. Node = {"root"} \cup {"a"} \cup {"b"} \cup {"c"} BY DEF Node
  <2> QED BY <2>1, FS_Singleton, FS_Union
<1>2. IsFiniteSet(Node \X Node) BY <1>1, FS_Product
<1> DEFINE all == [source : Node, target : Node]
           f == [p \in Node \X Node |-> [source |-> p[1], target |-> p[2]]]
<1>3. f \in Surjection(Node \X Node, all)
  <2>1. f \in [Node \X Node -> all] OBVIOUS
  <2>2. ASSUME NEW e \in all PROVE \E p \in Node \X Node : f[p] = e
    <3>1. <<e.source, e.target>> \in Node \X Node /\ f[<<e.source, e.target>>] = e OBVIOUS
    <3> QED BY <3>1
  <2> HIDE DEF f, all
  <2> QED BY <2>1, <2>2 DEF Surjection
<1>4. IsFiniteSet(all)
  <2> HIDE DEF f, all
  <2> QED BY <1>2, <1>3, FS_Surjection
<1>5. E \subseteq all BY DEF Edge
<1> QED BY <1>4, <1>5, FS_Subset

EdgesWithin(E, seen) == {e \in E : {e.source, e.target} \subseteq seen}

\* What each of the two callers is told about the root
LEMMA RadiusOfTheGraph ==
  ASSUME input \in GraphInput
  PROVE  /\ "root" \notin input.seen => DOMAIN repositoryBlastRadius(Graph, "u", "root") = {}
         /\ "root" \in input.seen =>
              Shortest(EdgesWithin(input.edges, input.seen), "root",
                       repositoryBlastRadius(Graph, "u", "root"))
         /\ Shortest(EdgesWithin(input.edges, Node), "root",
                     repositoryBlastRadius(Graph, "v", "root"))
<1> DEFINE E == input.edges
           seen == input.seen
<1>1. Ids(blastRadiusRepositories(Graph, "u")) = seen /\ Ids(blastRadiusRepositories(Graph, "v")) = Node
  BY SeenOfTheGraph DEF Graph
<1>2. Graph.relationships = E BY DEF Graph
<1>3. E \in SUBSET Edge BY DEF GraphInput
<1>4. IsFiniteSet(EdgesWithin(E, seen)) /\ IsFiniteSet(EdgesWithin(E, Node))
  BY <1>3, EdgesAreFinite DEF EdgesWithin
<1>5. "root" \in Node BY DEF Node
<1>6. repositoryBlastRadius(Graph, "u", "root")
        = IF "root" \notin seen THEN <<>> ELSE computeBlastRadius(EdgesWithin(E, seen), "root")
  BY <1>1, <1>2 DEF repositoryBlastRadius, EdgesWithin
<1>7. repositoryBlastRadius(Graph, "v", "root") = computeBlastRadius(EdgesWithin(E, Node), "root")
  BY <1>1, <1>2, <1>5 DEF repositoryBlastRadius, EdgesWithin
<1>8. DOMAIN <<>> = {} OBVIOUS
<1> HIDE DEF E, seen
<1>9. "root" \notin seen => DOMAIN repositoryBlastRadius(Graph, "u", "root") = {}
  BY <1>6, <1>8
<1>10. "root" \in seen =>
         Shortest(EdgesWithin(E, seen), "root", repositoryBlastRadius(Graph, "u", "root"))
  BY <1>4, <1>6, RadiusIsShortest
<1>11. Shortest(EdgesWithin(E, Node), "root", repositoryBlastRadius(Graph, "v", "root"))
  BY <1>4, <1>7, RadiusIsShortest
<1> QED BY <1>9, <1>10, <1>11 DEF E, seen

LEMMA GraphIsShortest == input \in Inputs => BlastRadiusIsShortest
<1> DEFINE radius == repositoryBlastRadius(Graph, "u", "root")
           reached == DOMAIN radius \cup ({"root"} \cap input.seen)
           Depth(n) == IF n = "root" THEN 0 ELSE radius[n]
           edges == {e \in input.edges : {e.source, e.target} \subseteq input.seen}
<1> SUFFICES ASSUME input \in GraphInput
             PROVE  /\ DOMAIN radius \subseteq input.seen \ {"root"}
                    /\ \A n \in DOMAIN radius :
                         \E e \in edges : /\ e.source = n /\ e.target \in reached
                                          /\ Depth(n) = Depth(e.target) + 1
                    /\ \A e \in edges : e.target \in reached =>
                         e.source \in reached /\ Depth(e.source) <= Depth(e.target) + 1
  BY Families DEF BlastRadiusIsShortest
<1>1. "root" \notin input.seen => DOMAIN radius = {} BY RadiusOfTheGraph
<1>2. "root" \in input.seen => Shortest(edges, "root", radius)
  BY RadiusOfTheGraph DEF EdgesWithin
<1>3. \A n : DepthAt(radius, "root", n) = Depth(n) BY DEF DepthAt
<1>4. \A s \in Sources(edges) : s \in input.seen BY DEF Sources
<1> HIDE DEF radius, edges
<1>5. CASE "root" \notin input.seen BY <1>1, <1>5
<1>6. CASE "root" \in input.seen
  <2>1. reached = {"root"} \cup DOMAIN radius BY <1>6
  <2> QED BY <1>2, <1>3, <1>4, <1>6, <2>1 DEF Shortest
<1> QED BY <1>5, <1>6

LEMMA GraphOnlyAdds ==
  ASSUME input \in GraphInput, NEW n \in DOMAIN repositoryBlastRadius(Graph, "u", "root")
  PROVE  /\ n \in DOMAIN repositoryBlastRadius(Graph, "v", "root")
         /\ repositoryBlastRadius(Graph, "v", "root")[n]
              <= repositoryBlastRadius(Graph, "u", "root")[n]
<1>1. EdgesWithin(input.edges, input.seen) \subseteq EdgesWithin(input.edges, Node)
  <2>1. input.seen \subseteq Node BY DEF GraphInput, Node
  <2> QED BY <2>1 DEF EdgesWithin
<1> DEFINE less == repositoryBlastRadius(Graph, "u", "root")
           more == repositoryBlastRadius(Graph, "v", "root")
           E == EdgesWithin(input.edges, input.seen)
           F == EdgesWithin(input.edges, Node)
<1>2. Shortest(E, "root", less) /\ Shortest(F, "root", more) /\ n \in DOMAIN less
  BY RadiusOfTheGraph
<1>3. E \subseteq F BY <1>1
<1> HIDE DEF E, F, less, more
<1>4. n \in DOMAIN more /\ more[n] <= less[n]
  BY <1>2, <1>3, MoreEdgesOnlyAdd
<1> QED BY <1>4 DEF less, more

-----------------------------------------------------------------------------
(* Version drift and topic readiness *)

\* More rows only add to the drift: two versions of a package stay two.
LEMMA MoreRowsDrift ==
  ASSUME NEW few, NEW many, few \subseteq many, IsFiniteSet(many)
  PROVE  computeVersionDrift(few) \subseteq computeVersionDrift(many)
<1> SUFFICES ASSUME NEW row \in computeVersionDrift(few) PROVE row \in computeVersionDrift(many)
  OBVIOUS
<1> DEFINE same == {s \in many : s.package = row.package}
           some == {r.versionConstraint : r \in {s \in few : s.package = row.package}}
           all == {r.versionConstraint : r \in same}
           f == [r \in same |-> r.versionConstraint]
<1>1. row \in many /\ Cardinality(some) >= 2 BY DEF computeVersionDrift
<1>2. some \subseteq all OBVIOUS
<1>3. IsFiniteSet(same) BY FS_Subset
<1>4. f \in Surjection(same, all)
  <2>1. f \in [same -> all] OBVIOUS
  <2>2. \A v \in all : \E r \in same : f[r] = v OBVIOUS
  <2> HIDE DEF f, all, same
  <2> QED BY <2>1, <2>2 DEF Surjection
<1>5. IsFiniteSet(all)
  <2> HIDE DEF f, all, same
  <2> QED BY <1>3, <1>4, FS_Surjection
<1>6. Cardinality(all) >= 2
  <2> HIDE DEF some, all
  <2>1. IsFiniteSet(some) /\ Cardinality(some) <= Cardinality(all) BY <1>2, <1>5, FS_Subset
  <2>2. Cardinality(some) \in Nat /\ Cardinality(all) \in Nat BY <1>5, <2>1, FS_CardinalityType
  <2> QED BY <1>1, <2>1, <2>2
<1> QED BY <1>1, <1>6 DEF computeVersionDrift

\* The owner of every repository sees as many members of a project as anybody.
LEMMA OwnerSeesMembers ==
  ASSUME NEW d, NEW user, NEW owner, \A r \in d.repositories : r.ownerId = owner, NEW ids
  PROVE  visibleMembers(d, user, ids) \subseteq visibleMembers(d, owner, ids)
BY DEF visibleMembers, Ids

LEMMA ProjectRows ==
  ASSUME NEW i \in ProjectInput
  PROVE  /\ \A r \in projectOf(i).repositories : r.ownerId = "v"
         /\ IsFiniteSet(projectOf(i).externalDependencies)
<1>1. projectOf(i).repositories = graphOf(i.seen) BY DEF projectOf
<1>2. \A r \in graphOf(i.seen) : r.ownerId = "v" BY DEF graphOf
<1> DEFINE S == {m \in DOMAIN i.constraint : i.constraint[m] # "none"}
           rows == {[repositoryId |-> n, package |-> "lib", versionConstraint |-> i.constraint[n]] :
                      n \in S}
           f == [n \in S |-> [repositoryId |-> n, package |-> "lib",
                              versionConstraint |-> i.constraint[n]]]
<1>3. IsFiniteSet(S)
  <2>1. S \subseteq {"a"} \cup {"b"} \cup {"c"} BY DEF ProjectInput, Node
  <2>2. IsFiniteSet({"a"} \cup {"b"} \cup {"c"}) BY FS_Singleton, FS_Union
  <2> QED BY <2>1, <2>2, FS_Subset
<1>4. projectOf(i).externalDependencies = rows BY DEF projectOf
<1>5. f \in Surjection(S, rows)
  <2> HIDE DEF S
  <2>1. f \in [S -> rows] OBVIOUS
  <2>2. \A v \in rows : \E r \in S : f[r] = v OBVIOUS
  <2> HIDE DEF f, rows
  <2> QED BY <2>1, <2>2 DEF Surjection
<1>6. IsFiniteSet(rows)
  <2> HIDE DEF f, rows, S
  <2> QED BY <1>3, <1>5, FS_Surjection
<1> HIDE DEF rows
<1> QED BY <1>1, <1>2, <1>4, <1>6

\* A member of the organization of a project is told a part of what its owner is.
LEMMA OwnerIsToldMore ==
  ASSUME NEW d, NEW user, NEW owner, user # NULL, owner # NULL, NEW row, row # NULL,
         \A r \in d.repositories : r.ownerId = owner, row.ownerId = owner
  PROVE  /\ IsFiniteSet(d.externalDependencies) =>
              projectVersionDrift(d, user, row) \subseteq projectVersionDrift(d, owner, row)
         /\ topicReadiness(d, user, row).blocking \subseteq topicReadiness(d, owner, row).blocking
<1>1. Reaches(d, owner, row) BY DEF Reaches
<1>2. \A ids : visibleMembers(d, user, ids) \subseteq visibleMembers(d, owner, ids)
  BY OwnerSeesMembers
<1>3. ASSUME IsFiniteSet(d.externalDependencies)
      PROVE  projectVersionDrift(d, user, row) \subseteq projectVersionDrift(d, owner, row)
  <2> DEFINE ids == {m.repositoryId : m \in {n \in d.projectRepositories : n.projectId = row.id}}
             Seen(w) == {e \in d.externalDependencies : e.repositoryId \in visibleMembers(d, w, ids)}
  <2>1. \A w : w # NULL /\ Reaches(d, w, row) =>
                 projectVersionDrift(d, w, row) = computeVersionDrift(Seen(w))
    BY DEF projectVersionDrift
  <2>2. ~Reaches(d, user, row) => projectVersionDrift(d, user, row) = {}
    BY DEF projectVersionDrift
  <2>3. Seen(user) \subseteq Seen(owner) BY <1>2
  <2>4. IsFiniteSet(Seen(owner)) BY <1>3, FS_Subset
  <2>5. computeVersionDrift(Seen(user)) \subseteq computeVersionDrift(Seen(owner))
    <3> HIDE DEF Seen
    <3> QED BY <2>3, <2>4, MoreRowsDrift
  <2> HIDE DEF Seen
  <2> QED BY <1>1, <2>1, <2>2, <2>5
<1>4. topicReadiness(d, user, row).blocking \subseteq topicReadiness(d, owner, row).blocking
  <2> DEFINE ids == {m.pullRequestId : m \in {n \in d.topicPullRequests : n.topicId = row.id}}
             Pulls(w) == {p \in d.pullRequests :
                            p.id \in ids /\ visibleMembers(d, w, {p.repositoryId}) # {}}
             Members(w) == {[pullRequestId |-> p.id, state |-> p.state,
                             mergeable |-> p.state = "open"] : p \in Pulls(w)}
  <2>1. \A w : w # NULL /\ Reaches(d, w, row) =>
                 topicReadiness(d, w, row) = evaluateTopicReadiness(Members(w))
    BY DEF topicReadiness
  <2>2. ~Reaches(d, user, row) => topicReadiness(d, user, row).blocking = {}
    BY DEF topicReadiness
  <2>3. Pulls(user) \subseteq Pulls(owner) BY <1>2
  <2>4. Members(user) \subseteq Members(owner)
    <3> HIDE DEF Pulls
    <3> QED BY <2>3
  <2> HIDE DEF Members
  <2>5. evaluateTopicReadiness(Members(user)).blocking
          \subseteq evaluateTopicReadiness(Members(owner)).blocking
    BY <2>4 DEF evaluateTopicReadiness
  <2> QED BY <1>1, <2>1, <2>2, <2>5
<1> QED BY <1>3, <1>4

LEMMA OwnersAreToldMore == input \in Inputs => SeeingMoreOnlyAdds
<1> SUFFICES ASSUME input \in Inputs PROVE SeeingMoreOnlyAdds OBVIOUS
<1>1. input.family = "graph" => input \in GraphInput BY Families
<1>2. input.family = "project" => input \in ProjectInput BY Families
<1>3. ASSUME input \in ProjectInput
      PROVE  LET project == projectOf(input)
             IN /\ projectVersionDrift(project, "u", Owned("p"))
                     \subseteq projectVersionDrift(project, "v", Owned("p"))
                /\ topicReadiness(project, "u", Owned("t")).blocking
                     \subseteq topicReadiness(project, "v", Owned("t")).blocking
  <2> DEFINE d == projectOf(input)
  <2>1. (\A r \in d.repositories : r.ownerId = "v") /\ IsFiniteSet(d.externalDependencies)
    BY <1>3, ProjectRows
  <2>2. "u" # NULL /\ "v" # NULL BY NullAssumption
  <2>3. \A k \in {"p", "t"} : Owned(k) # NULL /\ Owned(k).ownerId = "v"
    BY NullAssumption DEF Owned
  <2> HIDE DEF d
  <2>4. /\ projectVersionDrift(d, "u", Owned("p")) \subseteq projectVersionDrift(d, "v", Owned("p"))
        /\ topicReadiness(d, "u", Owned("t")).blocking \subseteq topicReadiness(d, "v", Owned("t")).blocking
    BY <2>1, <2>2, <2>3, OwnerIsToldMore
  <2> QED BY <2>4 DEF d
<1> QED BY <1>1, <1>2, <1>3, GraphOnlyAdds DEF SeeingMoreOnlyAdds

-----------------------------------------------------------------------------
(* Paid plans *)

LEMMA MoreIsHigher ==
  ASSUME NEW T \in SUBSET Nat, IsFiniteSet(T), NEW S \in SUBSET T, S # {}
  PROVE  Max(S) \in Nat /\ Max(T) \in Nat /\ Max(S) <= Max(T)
<1>1. IsFiniteSet(S) /\ T # {} BY FS_Subset
<1>2. Max(S) \in S /\ \A x \in S : Max(S) >= x
  <2>1. PICK m \in S : \A x \in S : x <= m BY <1>1, LargestExists
  <2>2. \A x \in S : m >= x BY <2>1
  <2> QED BY <2>2 DEF Max
<1>3. Max(T) \in T /\ \A x \in T : Max(T) >= x
  <2>1. PICK m \in T : \A x \in T : x <= m BY <1>1, LargestExists
  <2>2. \A x \in T : m >= x BY <2>1
  <2> QED BY <2>2 DEF Max
<1> QED BY <1>2, <1>3

LEMMA LevelsAreNumbers ==
  ASSUME NEW plans \in [{"g", "h"} -> Plan], NEW o \in {"g", "h"}
  PROVE  getOrganizationGraphLevel(plans, o) \in Nat
<1>1. plans[o] \in Plan OBVIOUS
<1>2. plans[o].explicit \in {NULL, 0, 1, 2} BY <1>1 DEF Plan
<1>3. \A tier \in DOMAIN DEFAULT_LIMITS : DEFAULT_LIMITS[tier] \in Nat BY DEF DEFAULT_LIMITS
<1>4. DEFAULT_LIMITS.team \in Nat BY DEF DEFAULT_LIMITS
<1> QED BY <1>2, <1>3, <1>4 DEF getOrganizationGraphLevel

MembersOf(os) == [organizationMembers |-> {[organizationId |-> o, userId |-> "u"] : o \in os}]

\* The organizations a user of no others is in, as both queries read them
LEMMA Memberships ==
  ASSUME NEW os PROVE observerOrganizationIds(MembersOf(os), "u") = os
<1> DEFINE rows == {[organizationId |-> o, userId |-> "u"] : o \in os}
<1>1. MembersOf(os).organizationMembers = rows BY DEF MembersOf
<1>2. \A m \in rows : m.userId = "u" /\ m.organizationId \in os OBVIOUS
<1>3. ASSUME NEW o \in os PROVE \E m \in rows : m.organizationId = o
  <2> DEFINE x == [organizationId |-> o, userId |-> "u"]
  <2>1. x \in rows /\ x.organizationId = o OBVIOUS
  <2> HIDE DEF x, rows
  <2> QED BY <2>1
<1> HIDE DEF rows
<1>4. \A m \in rows : Matches(m.userId, "u") BY <1>2, NullAssumption DEF Matches
<1> QED BY <1>1, <1>2, <1>3, <1>4 DEF observerOrganizationIds

\* A further membership leaves the highest level where it is, or raises it.
LEMMA JoiningOnlyRaises ==
  ASSUME NEW plans \in [{"g", "h"} -> Plan], NEW many \in SUBSET {"g", "h"}, NEW few \in SUBSET many
  PROVE  /\ getUserMaxGraphLevel(MembersOf(few), plans, "u") \in Nat
         /\ getUserMaxGraphLevel(MembersOf(many), plans, "u") \in Nat
         /\ getUserMaxGraphLevel(MembersOf(few), plans, "u")
              <= getUserMaxGraphLevel(MembersOf(many), plans, "u")
<1> DEFINE Levels(os) == {GRAPH_LEVEL.BASIC} \cup {getOrganizationGraphLevel(plans, o) : o \in os}
<1>1. \A os : getUserMaxGraphLevel(MembersOf(os), plans, "u") = Max(Levels(os))
  BY Memberships DEF getUserMaxGraphLevel
<1>2. GRAPH_LEVEL.BASIC \in Nat BY DEF GRAPH_LEVEL
<1>3. Levels(many) \in SUBSET Nat BY <1>2, LevelsAreNumbers
<1>4. IsFiniteSet(Levels(many))
  <2> DEFINE L == {getOrganizationGraphLevel(plans, o) : o \in many}
             g == getOrganizationGraphLevel(plans, "g")
             h == getOrganizationGraphLevel(plans, "h")
  <2>1. L \subseteq {g} \cup {h} OBVIOUS
  <2>2. Levels(many) \subseteq {GRAPH_LEVEL.BASIC} \cup {g} \cup {h} BY <2>1
  <2> HIDE DEF L, g, h, Levels
  <2>3. IsFiniteSet({GRAPH_LEVEL.BASIC} \cup {g} \cup {h}) BY FS_Singleton, FS_Union
  <2> QED BY <2>2, <2>3, FS_Subset
<1>5. Levels(few) \in SUBSET Levels(many) /\ Levels(few) # {} OBVIOUS
<1> HIDE DEF Levels
<1> QED BY <1>1, <1>3, <1>4, <1>5, MoreIsHigher

LEMMA JoiningOnlyAdds == input \in Inputs => PlansOnlyAdd
<1> SUFFICES ASSUME input \in PlanInput,
                    NEW few \in SUBSET {"g", "h"}, NEW many \in SUBSET {"g", "h"}, few \subseteq many
             PROVE  /\ polyrepoGraphAccess(MembersOf(few), input.plans, "u")
                         => polyrepoGraphAccess(MembersOf(many), input.plans, "u")
                    /\ BlastRadiusIsPaid(MembersOf(few), input.plans,
                                         [ownerId |-> "u", organizationId |-> NULL])
                         => BlastRadiusIsPaid(MembersOf(many), input.plans,
                                              [ownerId |-> "u", organizationId |-> NULL])
  BY Families DEF PlansOnlyAdd, MembersOf
<1> DEFINE a == getUserMaxGraphLevel(MembersOf(few), input.plans, "u")
           b == getUserMaxGraphLevel(MembersOf(many), input.plans, "u")
           row == [ownerId |-> "u", organizationId |-> NULL]
<1>1. input.plans \in [{"g", "h"} -> Plan] BY DEF PlanInput
<1>2. a \in Nat /\ b \in Nat /\ a <= b BY <1>1, JoiningOnlyRaises
<1>3. GRAPH_LEVEL.ORG \in Nat /\ GRAPH_LEVEL.BLAST_RADIUS \in Nat BY DEF GRAPH_LEVEL
<1>4. row.ownerId = "u" /\ row.organizationId = NULL OBVIOUS
<1> HIDE DEF row
<1>5. \A os : BlastRadiusIsPaid(MembersOf(os), input.plans, row)
                <=> GRAPH_LEVEL.BLAST_RADIUS
                      <= getUserMaxGraphLevel(MembersOf(os), input.plans, "u")
  BY <1>4 DEF BlastRadiusIsPaid, requireUserGraphLevel
<1>6. \A os : polyrepoGraphAccess(MembersOf(os), input.plans, "u")
                <=> GRAPH_LEVEL.ORG <= getUserMaxGraphLevel(MembersOf(os), input.plans, "u")
  BY NullAssumption DEF polyrepoGraphAccess, requireUserGraphLevel
<1> HIDE DEF a, b
<1>7. /\ GRAPH_LEVEL.ORG <= a => GRAPH_LEVEL.ORG <= b
      /\ GRAPH_LEVEL.BLAST_RADIUS <= a => GRAPH_LEVEL.BLAST_RADIUS <= b
  BY <1>2, <1>3
<1>8. /\ polyrepoGraphAccess(MembersOf(few), input.plans, "u")
           => polyrepoGraphAccess(MembersOf(many), input.plans, "u")
      /\ BlastRadiusIsPaid(MembersOf(few), input.plans, row)
           => BlastRadiusIsPaid(MembersOf(many), input.plans, row)
  BY <1>5, <1>6, <1>7 DEF a, b
<1> QED BY <1>8 DEF row

\* The dependency graph (MCDecisions!GraphViewsHold): a radius is made of shortest
\* chains, for any finite set of edges; who sees more is told more; and joining an
\* organization takes no paid view away, whatever the plans.
THEOREM GraphViewsAlwaysHold == DecisionsSpec => []GraphViewsHold
<1>1. input \in Inputs => GraphViewsHold
  BY GraphIsShortest, OwnersAreToldMore, JoiningOnlyAdds DEF GraphViewsHold
<1> QED BY <1>1, InputInvariant, PTL

-----------------------------------------------------------------------------
(* Git histories, for any store                                            *)

\* A commit is in its own history,
LEMMA HistoryHasTheCommit ==
  ASSUME NEW s, NEW k \in Git!Commits(s)
  PROVE  k \in Git!History(s, k)
BY DEF Git!History

\* the parents of what is there are there,
LEMMA HistoryHasParents ==
  ASSUME NEW s, NEW k, NEW d \in Git!History(s, k),
         NEW p \in Git!ToSet(s.parents[d]), p \in Git!Commits(s)
  PROVE  p \in Git!History(s, k)
BY DEF Git!History

\* and nothing else is.
LEMMA HistoryIsLeast ==
  ASSUME NEW s, NEW k, NEW known \in SUBSET Git!Commits(s), k \in known,
         \A d \in known : Git!ToSet(s.parents[d]) \subseteq known
  PROVE  Git!History(s, k) \subseteq known
BY DEF Git!History

-----------------------------------------------------------------------------
(* The log, for any store whose commits are at times of their own          *)

\* What is newer than a commit of a set of commits at these times
Newer(H, time, k) == {d \in H : time[d] > time[k]}

\* Of a finite set of things at times of their own, exactly one has a given number
\* of newer ones, and who has fewer newer ones is newer.
LEMMA RanksCount ==
  ASSUME NEW H, IsFiniteSet(H), NEW time, \A k \in H : time[k] \in Nat,
         \A k, d \in H : time[k] = time[d] => k = d
  PROVE  /\ \A k \in H : Cardinality(Newer(H, time, k)) \in 0 .. Cardinality(H) - 1
         /\ \A k, d \in H : time[k] > time[d] =>
              Cardinality(Newer(H, time, k)) < Cardinality(Newer(H, time, d))
         /\ \A i \in 1 .. Cardinality(H) : \E k \in H : Cardinality(Newer(H, time, k)) = i - 1
<1> DEFINE Rank(k) == Cardinality(Newer(H, time, k))
           n == Cardinality(H)
<1>1. n \in Nat BY FS_CardinalityType
<1>2. \A k \in H : Newer(H, time, k) \in SUBSET H /\ IsFiniteSet(Newer(H, time, k)) /\ Rank(k) \in Nat
  BY FS_Subset, FS_CardinalityType DEF Newer
<1>3. ASSUME NEW k \in H, NEW U \in SUBSET H, Newer(H, time, k) \subseteq U, k \in U
      PROVE  Rank(k) < Cardinality(U)
  <2>1. IsFiniteSet(U) /\ Cardinality(U) \in Nat BY <1>3, FS_Subset, FS_CardinalityType
  <2>2. k \notin Newer(H, time, k) BY DEF Newer
  <2>3. Newer(H, time, k) \in SUBSET U /\ Newer(H, time, k) # U BY <1>3, <2>2
  <2>4. Rank(k) <= Cardinality(U) /\ Rank(k) # Cardinality(U)
    BY <2>1, <2>3, FS_Subset
  <2> QED BY <1>2, <2>1, <2>4
<1>4. \A k \in H : Rank(k) \in 0 .. n - 1
  <2> SUFFICES ASSUME NEW k \in H PROVE Rank(k) \in 0 .. n - 1
    OBVIOUS
  <2>1. Rank(k) < n BY <1>2, <1>3
  <2>2. Rank(k) \in Nat BY <1>2
  <2> HIDE DEF Rank, n
  <2> QED BY <1>1, <2>1, <2>2
<1>5. \A k, d \in H : time[k] > time[d] => Rank(k) < Rank(d)
  <2> SUFFICES ASSUME NEW k \in H, NEW d \in H, time[k] > time[d] PROVE Rank(k) < Rank(d)
    OBVIOUS
  <2>1. Newer(H, time, k) \subseteq Newer(H, time, d) /\ k \in Newer(H, time, d)
    BY DEF Newer
  <2> QED BY <1>2, <1>3, <2>1
<1> DEFINE f == [k \in H |-> Rank(k) + 1]
<1>6. f \in Injection(H, 1 .. n)
  <2>1. \A k \in H : Rank(k) + 1 \in 1 .. n
    <3> HIDE DEF Rank, n
    <3> QED BY <1>1, <1>4
  <2>2. f \in [H -> 1 .. n]
    <3> HIDE DEF Rank, n
    <3> QED BY <2>1
  <2>3. ASSUME NEW k \in H, NEW d \in H, k # d PROVE f[k] # f[d]
    <3>1. Rank(k) \in Nat /\ Rank(d) \in Nat BY <1>2
    <3>2. time[k] > time[d] \/ time[d] > time[k] BY <2>3
    <3>3. Rank(k) # Rank(d)
      <4> HIDE DEF Rank
      <4> QED BY <1>5, <3>1, <3>2
    <3> HIDE DEF Rank
    <3> QED BY <3>1, <3>3
  <2> HIDE DEF f
  <2> QED BY <2>2, <2>3 DEF Injection, IsInjective
<1>7. f \in Surjection(H, 1 .. n)
  <2>1. IsFiniteSet(1 .. n) /\ Cardinality(1 .. n) = n
    <3> HIDE DEF n
    <3> QED BY <1>1, FS_Interval
  <2> HIDE DEF f
  <2> QED BY <1>6, <2>1, FS_Injection
<1>8. \A i \in 1 .. n : \E k \in H : Rank(k) = i - 1
  <2>1. \A i \in 1 .. n : \E k \in H : f[k] = i
    <3> HIDE DEF f
    <3> QED BY <1>7 DEF Surjection
  <2> HIDE DEF Rank, n
  <2> QED BY <1>4, <2>1
<1> QED BY <1>4, <1>5, <1>8

\* Commits are at times of their own.
Dated(s, H) ==
  /\ IsFiniteSet(H)
  /\ \A k \in H : s.time[k] \in Nat
  /\ \A k, d \in H : s.time[k] = s.time[d] => k = d

\* The log of a commit is its history, once, newest first: for every store whose
\* commits are at times of their own.
THEOREM LogIsTheHistory ==
  ASSUME NEW s, NEW ref, Git!resolveRef(s, ref) # NULL,
         Dated(s, Git!History(s, Git!resolveRef(s, ref)))
  PROVE  LET log == Git!NewestFirst(s, ref)
             H   == Git!History(s, Git!resolveRef(s, ref))
         IN  /\ log \in Seq(H)
             /\ Len(log) = Cardinality(H)
             /\ DOMAIN log = 1 .. Cardinality(H)
             /\ \A k \in H : \E i \in 1 .. Len(log) : log[i] = k
             /\ \A i, j \in 1 .. Len(log) : i < j => s.time[log[i]] > s.time[log[j]]
<1> DEFINE H   == Git!History(s, Git!resolveRef(s, ref))
           log == Git!NewestFirst(s, ref)
           Rank(k) == Cardinality(Newer(H, s.time, k))
           n == Cardinality(H)
<1>1. /\ \A k \in H : Rank(k) \in 0 .. n - 1
      /\ \A k, d \in H : s.time[k] > s.time[d] => Rank(k) < Rank(d)
      /\ \A i \in 1 .. n : \E k \in H : Rank(k) = i - 1
  <2>1. /\ IsFiniteSet(H) /\ \A k \in H : s.time[k] \in Nat
        /\ \A k, d \in H : s.time[k] = s.time[d] => k = d
    BY DEF Dated
  <2> HIDE DEF H
  <2> QED BY <2>1, RanksCount
<1>2. log = [i \in 1 .. n |-> CHOOSE k \in H : Rank(k) = i - 1]
  BY DEF Git!NewestFirst, Newer, Git!Cardinality, Cardinality, Git!IsFiniteSet, IsFiniteSet
<1>3. n \in Nat BY FS_CardinalityType DEF Dated
<1>4. \A k \in H : s.time[k] \in Nat BY DEF Dated
<1>5. \A k, d \in H : s.time[k] = s.time[d] => k = d BY DEF Dated
<1> HIDE DEF H, log, Rank, n
<1>6. \A i \in 1 .. n : log[i] \in H /\ Rank(log[i]) = i - 1
  BY <1>1, <1>2
<1>7. DOMAIN log = 1 .. n /\ log \in [1 .. n -> H] BY <1>2, <1>6
<1>8. log \in Seq(H) /\ Len(log) = n BY <1>3, <1>7
<1>9. \A k, d \in H : Rank(k) = Rank(d) => k = d
  <2> SUFFICES ASSUME NEW k \in H, NEW d \in H, Rank(k) = Rank(d), k # d PROVE FALSE
    OBVIOUS
  <2>1. s.time[k] > s.time[d] \/ s.time[d] > s.time[k] BY <1>4, <1>5
  <2>2. Rank(k) \in Nat /\ Rank(d) \in Nat BY <1>1, <1>3
  <2> QED BY <1>1, <2>1, <2>2
<1>10. ASSUME NEW k \in H PROVE \E i \in 1 .. n : log[i] = k
  <2>1. Rank(k) \in 0 .. n - 1 BY <1>1
  <2>2. PICK i \in 1 .. n : i - 1 = Rank(k) BY <1>3, <2>1
  <2>3. log[i] \in H /\ Rank(log[i]) = Rank(k) BY <1>6, <2>2
  <2> QED BY <1>9, <2>3
<1>11. ASSUME NEW i \in 1 .. n, NEW j \in 1 .. n, i < j
       PROVE  s.time[log[i]] > s.time[log[j]]
  <2>1. /\ log[i] \in H /\ log[j] \in H
        /\ Rank(log[i]) = i - 1 /\ Rank(log[j]) = j - 1
    BY <1>6
  <2>2. ~(Rank(log[j]) < Rank(log[i])) BY <1>3, <1>11, <2>1
  <2>3. log[i] # log[j] BY <1>3, <1>11, <2>1
  <2>4. s.time[log[i]] # s.time[log[j]] BY <1>5, <2>1, <2>3
  <2>5. ~(s.time[log[j]] > s.time[log[i]]) BY <1>1, <2>1, <2>2
  <2> QED BY <1>4, <2>1, <2>4, <2>5
<1> QED BY <1>7, <1>8, <1>10, <1>11 DEF H, log, n

-----------------------------------------------------------------------------
(* Pages of any log *)

\* The least of two numbers
LEMMA Lesser ==
  ASSUME NEW a \in Nat, NEW b \in Nat
  PROVE  Git!Min({a, b}) = IF a <= b THEN a ELSE b
<1>1. CASE a <= b
  <2>1. \A x \in {a, b} : a <= x BY <1>1
  <2>2. \A x \in {a, b} : (\A y \in {a, b} : x <= y) => x = a BY <1>1
  <2> QED BY <1>1, <2>1, <2>2 DEF Git!Min
<1>2. CASE ~(a <= b)
  <2>1. \A x \in {a, b} : b <= x BY <1>2
  <2>2. \A x \in {a, b} : (\A y \in {a, b} : x <= y) => x = b BY <1>2
  <2> QED BY <1>2, <2>1, <2>2 DEF Git!Min
<1> QED BY <1>1, <1>2

\* The beginning of a log, or all of it
First(log, n) == SubSeq(log, 1, IF n <= Len(log) THEN n ELSE Len(log))

\* A page put after what comes before it makes as much as both: for any log, size
\* of a page and number of commits skipped.
THEOREM PagesAddUp ==
  ASSUME NEW s, NEW ref, NEW S, Git!NewestFirst(s, ref) \in Seq(S),
         NEW depth \in Nat, NEW skip \in Nat
  PROVE  LET log == Git!NewestFirst(s, ref)
         IN  First(log, skip) \o Git!getLog(s, ref, depth, skip) = First(log, skip + depth)
<1> DEFINE log == Git!NewestFirst(s, ref)
           n   == Len(log)
           m   == IF skip + depth <= n THEN skip + depth ELSE n
           read == SubSeq(log, 1, m)
           page == SubSeq(read, skip + 1, Len(read))
<1>1. log \in Seq(S) /\ n \in Nat BY LenProperties
<1>2. Git!getLog(s, ref, depth, skip) = page
  <2>1. skip + depth = depth + skip /\ depth + skip \in Nat OBVIOUS
  <2>2. Git!Min({depth + skip, n}) = m BY <1>1, <2>1, Lesser
  <2> QED BY <2>2 DEF Git!getLog
<1> HIDE DEF log
<1>3. m \in Nat /\ m <= n BY <1>1
<1> HIDE DEF n, m
<1>4. read \in Seq(S) /\ Len(read) = m /\ \A i \in 1 .. m : read[i] = log[i]
  <2>1. \A i \in 1 .. m : log[i] \in S BY <1>1, <1>3, ElementOfSeq DEF n
  <2> QED BY <1>3, <2>1, SubSeqProperties
<1> HIDE DEF read
<1>5. ASSUME skip <= m PROVE First(log, skip) \o page = First(log, skip + depth)
  <2>1. First(log, skip) = SubSeq(log, 1, skip) BY <1>1, <1>3, <1>5 DEF First, n
  <2>2. SubSeq(log, 1, skip) = SubSeq(read, 1, skip)
    <3> DEFINE a == SubSeq(log, 1, skip)
               b == SubSeq(read, 1, skip)
    <3>1. \A i \in 1 .. skip : log[i] \in S /\ read[i] \in S
      BY <1>1, <1>3, <1>4, <1>5, ElementOfSeq DEF n
    <3>2. a \in Seq(S) /\ Len(a) = skip /\ \A i \in 1 .. skip : a[i] = log[i]
      BY <3>1, SubSeqProperties
    <3>3. b \in Seq(S) /\ Len(b) = skip /\ \A i \in 1 .. skip : b[i] = read[i]
      BY <3>1, SubSeqProperties
    <3>4. \A i \in 1 .. skip : a[i] = b[i] BY <1>3, <1>4, <1>5, <3>2, <3>3
    <3> HIDE DEF a, b
    <3>5. a = b BY <3>2, <3>3, <3>4, SeqEqual
    <3> QED BY <3>5 DEF a, b
  <2>3. SubSeq(read, 1, skip) \o page = SubSeq(read, 1, m)
    BY <1>3, <1>4, <1>5, ConcatAdjacentSubSeq
  <2>4. SubSeq(read, 1, m) = read BY <1>4, SubSeqFull
  <2> QED BY <2>1, <2>2, <2>3, <2>4 DEF First, read, m, n
<1>6. ASSUME skip > m PROVE First(log, skip) \o page = First(log, skip + depth)
  <2>1. m = n /\ n < skip BY <1>1, <1>3, <1>6 DEF m
  <2>2. page = <<>> BY <1>3, <1>4, <1>6, SubSeqEmpty
  <2>3. First(log, skip) = log /\ First(log, skip + depth) = log
    BY <1>1, <2>1, SubSeqFull DEF First, n
  <2> QED BY <1>1, <2>2, <2>3, ConcatEmptySeq
<1>7. skip <= m \/ skip > m BY <1>3
<1> QED BY <1>2, <1>5, <1>6, <1>7 DEF log

-----------------------------------------------------------------------------
(* Trees, for any two of them *)

Files(old, new) == DOMAIN old \cup DOMAIN new

\* Trees with files of which none has the name of a directory, nor none at all
Apart(old, new) ==
  /\ \A p \in Files(old, new) : p # <<>> /\ ~\E q \in Files(old, new) : Git!IsStrictPrefix(p, q)
  /\ \A p \in DOMAIN old : old[p].oid # NULL
  /\ \A p \in DOMAIN new : new[p].oid # NULL

\* What is read of a file of one of two trees
LEMMA WhatIsStored ==
  ASSUME NEW old, NEW new, Apart(old, new), NEW p \in Files(old, new)
  PROVE  /\ p \in DOMAIN old => Git!entryOid(old, p) = old[p].oid /\ old[p].oid # NULL
         /\ p \notin DOMAIN old => Git!entryOid(old, p) = NULL
         /\ p \in DOMAIN new => Git!entryOid(new, p) = new[p].oid /\ new[p].oid # NULL
         /\ p \notin DOMAIN new => Git!entryOid(new, p) = NULL
BY DEF Apart, Git!entryOid

\* The changed paths of such trees are the files stored differently.
LEMMA ChangedPaths ==
  ASSUME NEW old, NEW new, Apart(old, new)
  PROVE  Git!collectChangedPaths(old, new)
           = {p \in Files(old, new) : Git!entryOid(old, p) # Git!entryOid(new, p)}
<1>1. NULL # "tree" BY NullAssumption
<1>2. \A p \in Files(old, new) : Git!entryType(old, p) # "tree" /\ Git!entryType(new, p) # "tree"
  BY <1>1 DEF Apart, Files, Git!entryType
<1> QED BY <1>2 DEF Git!collectChangedPaths, Files

\* What is stored below a path differs just where a path below it is changed.
LEMMA UnderDiffers ==
  ASSUME NEW old, NEW new, Apart(old, new), NEW path
  PROVE  Git!Under(old, path) # Git!Under(new, path)
           <=> \E p \in Git!collectChangedPaths(old, new) : Git!IsPrefix(path, p)
<1> DEFINE a == {p \in DOMAIN old : Git!IsPrefix(path, p)}
           b == {p \in DOMAIN new : Git!IsPrefix(path, p)}
           below == {p \in Files(old, new) : Git!IsPrefix(path, p)}
<1>1. /\ Git!Under(old, path) = [p \in a |-> old[p].oid]
      /\ Git!Under(new, path) = [p \in b |-> new[p].oid]
  BY DEF Git!Under
<1>2. below = a \cup b BY DEF Files
<1>3. \A p \in below : /\ p \in a <=> p \in DOMAIN old
                       /\ p \in b <=> p \in DOMAIN new
  OBVIOUS
<1>4. below \subseteq Files(old, new) OBVIOUS
<1>5. (\E p \in Git!collectChangedPaths(old, new) : Git!IsPrefix(path, p))
        <=> \E p \in below : Git!entryOid(old, p) # Git!entryOid(new, p)
  BY ChangedPaths
<1> HIDE DEF a, b, below
<1>6. ASSUME \A p \in below : Git!entryOid(old, p) = Git!entryOid(new, p)
      PROVE  Git!Under(old, path) = Git!Under(new, path)
  <2>1. a = b BY <1>2, <1>3, <1>4, <1>6, WhatIsStored
  <2>2. \A p \in a : old[p].oid = new[p].oid BY <1>2, <1>3, <1>4, <1>6, <2>1, WhatIsStored
  <2> QED BY <1>1, <2>1, <2>2
<1>7. ASSUME NEW p \in below, Git!entryOid(old, p) # Git!entryOid(new, p)
      PROVE  Git!Under(old, path) # Git!Under(new, path)
  <2>1. CASE p \in a /\ p \in b
    <3>1. old[p].oid # new[p].oid BY <1>3, <1>4, <1>7, <2>1, WhatIsStored
    <3> QED BY <1>1, <2>1, <3>1
  <2>2. CASE ~(p \in a /\ p \in b)
    <3>1. a # b BY <1>2, <1>3, <1>4, <1>7, <2>2, WhatIsStored
    <3>2. DOMAIN Git!Under(old, path) = a /\ DOMAIN Git!Under(new, path) = b BY <1>1
    <3> QED BY <3>1, <3>2
  <2> QED BY <2>1, <2>2
<1> QED BY <1>5, <1>6, <1>7

-----------------------------------------------------------------------------
(* Differences of any two trees *)

Blobs(tree) == {<<p, tree[p].oid>> : p \in DOMAIN tree}

\* A root commit is compared with no files.
LEMMA NoFilesInTheEmptyTree == DOMAIN Git!EmptyTree = {}
BY DEF Git!EmptyTree

\* What getChangedFiles says of the files it lists
LEMMA ListedFiles ==
  ASSUME NEW s, NEW base, NEW head,
         Apart(Git!treeOf(s, base), Git!treeOf(s, head)),
         NEW f \in Git!getChangedFiles(s, base, head)
  PROVE  LET old == Git!treeOf(s, base)
             new == Git!treeOf(s, head)
         IN  /\ f.path \in Files(old, new)
             /\ Git!entryOid(old, f.path) # Git!entryOid(new, f.path)
             /\ f.newOid = Git!entryOid(new, f.path)
             /\ f.isBinary = Git!isBinaryContent(s, IF Git!entryOid(new, f.path) # NULL
                                                    THEN Git!entryOid(new, f.path)
                                                    ELSE Git!entryOid(old, f.path))
             /\ f.status = "ADDED" <=> Git!entryOid(old, f.path) = NULL
             /\ f.status = "DELETED" <=> Git!entryOid(old, f.path) # NULL
                                         /\ Git!entryOid(new, f.path) = NULL
<1> DEFINE old == Git!treeOf(s, base)
           new == Git!treeOf(s, head)
           o(p) == Git!entryOid(old, p)
           n(p) == Git!entryOid(new, p)
           Status(p) == IF o(p) = NULL THEN "ADDED"
                        ELSE IF n(p) = NULL THEN "DELETED"
                        ELSE IF old[p].mode # new[p].mode THEN "TYPE_CHANGED" ELSE "MODIFIED"
           Binary(p) == Git!isBinaryContent(s, IF n(p) # NULL THEN n(p) ELSE o(p))
           Changed == Git!collectChangedPaths(old, new)
<1>1. PICK p \in Changed : f = [path |-> p, status |-> Status(p), oldOid |-> o(p),
                                newOid |-> n(p), isBinary |-> Binary(p)]
  BY DEF Git!getChangedFiles
<1>2. p \in Files(old, new) /\ o(p) # n(p) BY ChangedPaths
<1>3. /\ Status(p) = "ADDED" <=> o(p) = NULL
      /\ Status(p) = "DELETED" <=> o(p) # NULL /\ n(p) = NULL
  OBVIOUS
<1> HIDE DEF Status, Binary, o, n, old, new
<1>4. f.path = p /\ f.status = Status(p) /\ f.newOid = n(p) /\ f.isBinary = Binary(p) BY <1>1
<1>5. /\ f.path \in Files(old, new) /\ o(f.path) # n(f.path)
      /\ f.newOid = n(f.path) /\ f.isBinary = Binary(f.path)
      /\ f.status = "ADDED" <=> o(f.path) = NULL
      /\ f.status = "DELETED" <=> o(f.path) # NULL /\ n(f.path) = NULL
  BY <1>2, <1>3, <1>4
<1> QED BY <1>5 DEF o, n, old, new, Binary

\* The list has one file for each changed path.
LEMMA ListedPaths ==
  ASSUME NEW s, NEW base, NEW head
  PROVE  {f.path : f \in Git!getChangedFiles(s, base, head)}
           = Git!collectChangedPaths(Git!treeOf(s, base), Git!treeOf(s, head))
<1> DEFINE old == Git!treeOf(s, base)
           new == Git!treeOf(s, head)
           o(p) == Git!entryOid(old, p)
           n(p) == Git!entryOid(new, p)
           Status(p) == IF o(p) = NULL THEN "ADDED"
                        ELSE IF n(p) = NULL THEN "DELETED"
                        ELSE IF old[p].mode # new[p].mode THEN "TYPE_CHANGED" ELSE "MODIFIED"
           Binary(p) == Git!isBinaryContent(s, IF n(p) # NULL THEN n(p) ELSE o(p))
           Listed(p) == [path |-> p, status |-> Status(p), oldOid |-> o(p), newOid |-> n(p),
                         isBinary |-> Binary(p)]
           Changed == Git!collectChangedPaths(old, new)
<1>1. Git!getChangedFiles(s, base, head) = {Listed(p) : p \in Changed}
  BY DEF Git!getChangedFiles
<1>2. \A p : Listed(p).path = p OBVIOUS
<1> HIDE DEF Listed, Changed
<1>3. {f.path : f \in Git!getChangedFiles(s, base, head)} = Changed BY <1>1, <1>2
<1> QED BY <1>3 DEF Changed

\* The files listed, put in the place of what they were, make the head: for any two
\* trees without a file that is a directory of the other.
THEOREM DifferenceIsWhole ==
  ASSUME NEW s, NEW base, NEW head,
         Apart(Git!treeOf(s, base), Git!treeOf(s, head))
  PROVE  LET files == Git!getChangedFiles(s, base, head)
         IN  Blobs(Git!treeOf(s, head))
               = {b \in Blobs(Git!treeOf(s, base)) : b[1] \notin {f.path : f \in files}}
                 \cup {<<f.path, f.newOid>> : f \in {g \in files : g.newOid # NULL}}
<1> DEFINE old == Git!treeOf(s, base)
           new == Git!treeOf(s, head)
           files == Git!getChangedFiles(s, base, head)
           listed == {f.path : f \in files}
           kept == {b \in Blobs(old) : b[1] \notin listed}
           put  == {<<f.path, f.newOid>> : f \in {g \in files : g.newOid # NULL}}
<1>1. Apart(old, new) OBVIOUS
<1>2. listed = {p \in Files(old, new) : Git!entryOid(old, p) # Git!entryOid(new, p)}
  BY <1>1, ListedPaths, ChangedPaths
<1>3. \A f \in files : /\ f.path \in listed
                       /\ f.newOid = Git!entryOid(new, f.path)
  BY <1>1, ListedFiles
<1>4. \A p \in listed : \E f \in files : f.path = p OBVIOUS
<1> HIDE DEF old, new, files, listed
<1>5. \A b : b \in kept <=> \E p \in DOMAIN old : p \notin listed /\ b = <<p, old[p].oid>>
  BY DEF Blobs
<1>6. \A b : b \in put <=> \E p \in listed : /\ Git!entryOid(new, p) # NULL
                                             /\ b = <<p, Git!entryOid(new, p)>>
  BY <1>3, <1>4
<1>7. \A b : b \in Blobs(new) <=> \E p \in DOMAIN new : b = <<p, new[p].oid>>
  BY DEF Blobs
<1> HIDE DEF kept, put
<1>8. DOMAIN old \subseteq Files(old, new) /\ DOMAIN new \subseteq Files(old, new) BY DEF Files
<1>9. ASSUME NEW p \in DOMAIN new PROVE <<p, new[p].oid>> \in kept \cup put
  <2>1. Git!entryOid(new, p) = new[p].oid /\ new[p].oid # NULL BY <1>1, <1>8, WhatIsStored
  <2>2. CASE p \in listed BY <1>6, <2>1, <2>2
  <2>3. CASE p \notin listed
    <3>1. Git!entryOid(old, p) = new[p].oid BY <1>2, <1>8, <2>1, <2>3
    <3>2. p \in DOMAIN old /\ old[p].oid = new[p].oid BY <1>1, <1>8, <2>1, <3>1, WhatIsStored
    <3> QED BY <1>5, <2>3, <3>2
  <2> QED BY <2>2, <2>3
<1>10. ASSUME NEW p \in DOMAIN old, p \notin listed PROVE p \in DOMAIN new /\ new[p].oid = old[p].oid
  <2>1. Git!entryOid(old, p) = old[p].oid /\ old[p].oid # NULL BY <1>1, <1>8, WhatIsStored
  <2>2. Git!entryOid(new, p) = old[p].oid BY <1>2, <1>8, <1>10, <2>1
  <2> QED BY <1>1, <1>8, <2>1, <2>2, WhatIsStored
<1>11. ASSUME NEW p \in listed, Git!entryOid(new, p) # NULL
       PROVE  p \in DOMAIN new /\ new[p].oid = Git!entryOid(new, p)
  BY <1>1, <1>2, <1>11, WhatIsStored
<1>12. Blobs(new) = kept \cup put
  BY <1>5, <1>6, <1>7, <1>9, <1>10, <1>11
<1> QED BY <1>12 DEF old, new, files, listed, kept, put

\* A commit's tree is found by the commit.
LEMMA CommitsAreRefs ==
  ASSUME NEW s, NEW k \in Git!Commits(s), k # NULL
  PROVE  Git!resolveRef(s, k) = k /\ Git!treeOf(s, k) = s.tree[k]
BY DEF Git!resolveRef, Git!treeOf

\* What is read of a file at a commit, or at none
LEMMA FilesRead ==
  ASSUME NEW s, NEW ref, ref = NULL \/ ref \in Git!Commits(s), NULL \notin Git!Commits(s),
         NEW p, p # <<>>
  PROVE  (IF ref = NULL THEN NULL ELSE Git!getFileRaw(s, ref, p))
           = Git!entryOid(Git!treeOf(s, ref), p)
<1>1. CASE ref = NULL
  BY <1>1, NoFilesInTheEmptyTree DEF Git!treeOf, Git!entryOid
<1>2. CASE ref # NULL
  BY <1>2, CommitsAreRefs DEF Git!getFileRaw
<1> QED BY <1>1, <1>2

Difference(Text) ==
  [status : {"ADDED", "DELETED", "MODIFIED"}, isBinary : BOOLEAN, oldText : Text, newText : Text]

\* The difference of a file listed is there, and agrees with the list.
LEMMA FilesAgreeWithTheirList ==
  ASSUME NEW s, NULL \notin Git!Commits(s),
         NEW base, base = NULL \/ base \in Git!Commits(s),
         NEW head \in Git!Commits(s),
         Apart(Git!treeOf(s, base), Git!treeOf(s, head)),
         NEW f \in Git!getChangedFiles(s, base, head),
         NEW Text, NULL \in Text,
         Git!entryOid(Git!treeOf(s, base), f.path) \in Text,
         Git!entryOid(Git!treeOf(s, head), f.path) \in Text
  PROVE  LET diff == Git!getFileDiffContent(s, base, head, f.path)
         IN  /\ f.path # <<>>
             /\ diff \in Difference(Text)
             /\ diff.isBinary = f.isBinary
             /\ {diff.status, f.status} \cap {"ADDED", "DELETED"} # {} => diff.status = f.status
<1> DEFINE old == Git!entryOid(Git!treeOf(s, base), f.path)
           new == Git!entryOid(Git!treeOf(s, head), f.path)
           diff == Git!getFileDiffContent(s, base, head, f.path)
           binary == Git!isBinaryContent(s, IF new # NULL THEN new ELSE old)
<1>1. /\ f.path \in Files(Git!treeOf(s, base), Git!treeOf(s, head))
      /\ old # new
      /\ f.isBinary = binary
      /\ f.status = "ADDED" <=> old = NULL
      /\ f.status = "DELETED" <=> old # NULL /\ new = NULL
  BY ListedFiles
<1>2. f.path # <<>> BY <1>1 DEF Apart
<1>3. Git!getFileRaw(s, head, f.path) = new
  BY <1>2, FilesRead
<1>4. (IF base = NULL THEN NULL ELSE Git!getFileRaw(s, base, f.path)) = old
  BY <1>2, FilesRead
<1> HIDE DEF old, new
<1>5. diff = [status   |-> IF old = NULL THEN "ADDED"
                           ELSE IF new = NULL THEN "DELETED" ELSE "MODIFIED",
              isBinary |-> binary,
              oldText  |-> IF binary THEN NULL ELSE old,
              newText  |-> IF binary THEN NULL ELSE new]
  BY <1>1, <1>3, <1>4 DEF Git!getFileDiffContent
<1>6. diff.isBinary = binary
      /\ diff.status = IF old = NULL THEN "ADDED" ELSE IF new = NULL THEN "DELETED" ELSE "MODIFIED"
  BY <1>5
<1>7. diff \in Difference(Text)
  <2>1. binary \in BOOLEAN BY DEF Git!isBinaryContent
  <2>2. old \in Text /\ new \in Text BY DEF old, new
  <2> HIDE DEF diff, binary
  <2> QED BY <1>5, <2>1, <2>2 DEF Difference
<1> HIDE DEF diff
<1>8. {diff.status, f.status} \cap {"ADDED", "DELETED"} # {} => diff.status = f.status
  BY <1>1, <1>6
<1> QED BY <1>1, <1>2, <1>6, <1>7, <1>8 DEF diff

-----------------------------------------------------------------------------
(* Entries and the commit each is shown with, for any store of commits     *)
(* younger than their parents                                              *)

\* What begins another begins like it.
LEMMA PrefixesBegin ==
  ASSUME NEW S, NEW p \in Seq(S), NEW q \in Seq(S), Git!IsPrefix(p, q)
  PROVE  Len(p) <= Len(q) /\ \A i \in 1 .. Len(p) : p[i] = q[i]
<1>1. Len(p) <= Len(q) /\ SubSeq(p, 1, Len(p)) = SubSeq(q, 1, Len(p)) BY DEF Git!IsPrefix
<1>2. Len(p) \in Nat /\ Len(q) \in Nat BY LenProperties
<1>3. \A i \in 1 .. Len(p) : p[i] \in S /\ q[i] \in S BY <1>1, <1>2, ElementOfSeq
<1>4. \A i \in 1 .. Len(p) : SubSeq(p, 1, Len(p))[i] = p[i] BY <1>2, <1>3, SubSeqProperties
<1>5. \A i \in 1 .. Len(p) : SubSeq(q, 1, Len(p))[i] = q[i] BY <1>2, <1>3, SubSeqProperties
<1> QED BY <1>1, <1>4, <1>5

\* The first step from a path to one it begins is a path that begins it as well.
LEMMA FirstStep ==
  ASSUME NEW S, NEW dir \in Seq(S), NEW f \in Seq(S), Git!IsStrictPrefix(dir, f)
  PROVE  /\ Append(dir, f[Len(dir) + 1]) = SubSeq(f, 1, Len(dir) + 1)
         /\ Git!IsPrefix(Append(dir, f[Len(dir) + 1]), f)
<1> DEFINE n == Len(dir)
           step == Append(dir, f[n + 1])
           begun == SubSeq(f, 1, n + 1)
<1>1. n <= Len(f) /\ \A j \in 1 .. n : dir[j] = f[j]
  BY PrefixesBegin DEF Git!IsStrictPrefix
<1>2. n \in Nat /\ Len(f) \in Nat BY LenProperties
<1>3. n + 1 <= Len(f)
  <2> SUFFICES ASSUME n = Len(f) PROVE FALSE
    BY <1>1, <1>2
  <2>1. dir = f BY <1>1, SeqEqual
  <2> QED BY <2>1 DEF Git!IsStrictPrefix
<1>4. \A j \in 1 .. n + 1 : f[j] \in S BY <1>2, <1>3, ElementOfSeq
<1> HIDE DEF n
<1>5. begun \in Seq(S) /\ Len(begun) = n + 1 /\ \A j \in 1 .. n + 1 : begun[j] = f[j]
  BY <1>2, <1>3, <1>4, SubSeqProperties
<1>6. /\ step \in Seq(S) /\ Len(step) = n + 1
      /\ \A j \in 1 .. n : step[j] = dir[j]
      /\ step[n + 1] = f[n + 1]
  <2>1. f[n + 1] \in S BY <1>2, <1>4
  <2> QED BY <2>1, AppendProperties DEF n
<1> HIDE DEF step, begun
<1>7. \A j \in 1 .. n + 1 : step[j] = begun[j] BY <1>1, <1>2, <1>5, <1>6
<1>8. step = begun BY <1>5, <1>6, <1>7, SeqEqual
<1>9. SubSeq(step, 1, Len(step)) = step BY <1>6, SubSeqFull
<1>10. Git!IsPrefix(step, f) BY <1>3, <1>6, <1>8, <1>9 DEF Git!IsPrefix, begun
<1> QED BY <1>8, <1>10 DEF step, begun, n

\* Of the commits of a log picked by their places, the one at the least place is the
\* newest.
LEMMA LeastPlaceIsNewest ==
  ASSUME NEW s, NEW ref, Git!resolveRef(s, ref) # NULL,
         Dated(s, Git!History(s, Git!resolveRef(s, ref))),
         NEW T, T \in SUBSET Git!History(s, Git!resolveRef(s, ref)), T # {}
  PROVE  LET log == Git!NewestFirst(s, ref)
             at  == {j \in DOMAIN log : log[j] \in T}
         IN  /\ at # {}
             /\ log[Git!Min(at)] \in T
             /\ \A k \in T : s.time[k] <= s.time[log[Git!Min(at)]]
<1> DEFINE log == Git!NewestFirst(s, ref)
           H   == Git!History(s, Git!resolveRef(s, ref))
           at  == {j \in DOMAIN log : log[j] \in T}
           m   == Git!Min(at)
<1>1. /\ DOMAIN log = 1 .. Cardinality(H) /\ Len(log) = Cardinality(H)
      /\ \A k \in H : \E j \in 1 .. Len(log) : log[j] = k
      /\ \A i, j \in 1 .. Len(log) : i < j => s.time[log[i]] > s.time[log[j]]
  BY LogIsTheHistory
<1>2. \A k \in H : s.time[k] \in Nat BY DEF Dated
<1>3. T \subseteq H OBVIOUS
<1> HIDE DEF log, H
<1>4. \A k \in T : \E j \in at : log[j] = k BY <1>1, <1>3
<1>5. at \in SUBSET Nat /\ at # {} BY <1>1, <1>4
<1>6. m \in at /\ \A j \in at : m <= j
  <2>1. PICK l \in at : \A j \in at : l <= j BY <1>5, LeastNumber
  <2> HIDE DEF at
  <2> QED BY <2>1 DEF Git!Min
<1>7. log[m] \in T BY <1>6
<1>8. ASSUME NEW k \in T PROVE s.time[k] <= s.time[log[m]]
  <2>1. PICK j \in at : log[j] = k BY <1>4
  <2>2. m <= j /\ m \in 1 .. Len(log) /\ j \in 1 .. Len(log) BY <1>1, <1>6
  <2>3. s.time[log[m]] \in Nat /\ s.time[k] \in Nat BY <1>2, <1>3, <1>7
  <2> HIDE DEF m, at
  <2>4. CASE m = j BY <2>1, <2>3, <2>4
  <2>5. CASE m # j
    <3>1. m < j BY <2>2, <2>5
    <3>2. s.time[log[m]] > s.time[k] BY <1>1, <2>1, <2>2, <3>1
    <3> QED BY <2>3, <3>2
  <2> QED BY <2>4, <2>5
<1> QED BY <1>5, <1>7, <1>8 DEF log

\* Parents are commits, and older.
Grown(s) ==
  /\ NULL \notin Git!Commits(s)
  /\ \A k \in Git!Commits(s) :
       /\ s.time[k] \in Nat
       /\ s.parents[k] \in Seq(Git!Commits(s))
       /\ \A p \in Git!ToSet(s.parents[k]) : p \in Git!Commits(s) /\ s.time[p] < s.time[k]

\* No path begins another: no file is a directory, in any commit of these paths
NoneBegins(paths) == \A p \in paths : p # <<>> /\ ~\E q \in paths : Git!IsStrictPrefix(p, q)

\* The files of every commit are at these paths.
FiledAt(s, paths) ==
  /\ NoneBegins(paths)
  /\ \A k \in Git!Commits(s) : /\ DOMAIN s.tree[k] \subseteq paths
                               /\ \A p \in DOMAIN s.tree[k] : s.tree[k][p].oid # NULL

\* What is stored below a path at a commit, or at none
At(s, commit, path) == Git!Under(Git!treeOf(s, commit), path)

\* A commit leaves something else there than its first parent had.
Alters(s, commit, path) == At(s, Git!FirstParent(s, commit), path) # At(s, commit, path)

\* Where a merge leaves what its first parent has, another parent has the same, or none
\* of its commits that the first has not changed it.
MergesAreClean(s, tip, path) ==
  \A k \in Git!History(s, tip) : ~Alters(s, k, path) =>
    \A p \in Git!ToSet(s.parents[k]) :
      \/ At(s, p, path) = At(s, k, path)
      \/ \A d \in Git!History(s, p) \ Git!History(s, Git!FirstParent(s, k)) : ~Alters(s, d, path)

\* The first parent is one of the parents, if there are any.
LEMMA FirstParents ==
  ASSUME NEW s, Grown(s), NEW k \in Git!Commits(s)
  PROVE  /\ s.parents[k] = <<>> => Git!FirstParent(s, k) = NULL
         /\ s.parents[k] # <<>> => Git!FirstParent(s, k) \in Git!ToSet(s.parents[k])
         /\ Git!FirstParent(s, k) # NULL =>
              /\ Git!FirstParent(s, k) \in Git!Commits(s)
              /\ s.time[Git!FirstParent(s, k)] < s.time[k]
<1> DEFINE parents == s.parents[k]
<1>1. parents \in Seq(Git!Commits(s)) BY DEF Grown
<1>2. ASSUME parents # <<>> PROVE Head(parents) \in Git!ToSet(parents)
  <2>1. Len(parents) \in Nat /\ Len(parents) # 0 BY <1>1, <1>2, EmptySeq, LenProperties
  <2>2. 1 \in DOMAIN parents /\ Head(parents) = parents[1]
    BY <1>1, <1>2, <2>1, HeadTailProperties
  <2> QED BY <2>2 DEF Git!ToSet
<1>3. \A p \in Git!ToSet(parents) : p \in Git!Commits(s) /\ s.time[p] < s.time[k]
  BY DEF Grown
<1> HIDE DEF parents
<1> QED BY <1>2, <1>3 DEF Git!FirstParent, parents

\* What is in the history of a commit is older, or the commit.
LEMMA HistoriesAreOlder ==
  ASSUME NEW s, Grown(s), NEW k \in Git!Commits(s), NEW d \in Git!History(s, k), d # k
  PROVE  s.time[d] < s.time[k] /\ s.parents[k] # <<>>
<1> DEFINE older == {x \in Git!Commits(s) : x = k \/ s.time[x] < s.time[k]}
<1>1. \A x \in older : Git!ToSet(s.parents[x]) \subseteq older
  <2> SUFFICES ASSUME NEW x \in older, NEW p \in Git!ToSet(s.parents[x]) PROVE p \in older
    OBVIOUS
  <2>1. p \in Git!Commits(s) /\ s.time[p] < s.time[x] BY DEF Grown
  <2>2. s.time[p] \in Nat /\ s.time[x] \in Nat /\ s.time[k] \in Nat BY <2>1 DEF Grown
  <2> QED BY <2>1, <2>2
<1>2. d \in older BY <1>1, HistoryIsLeast
<1>3. ASSUME s.parents[k] = <<>> PROVE FALSE
  <2>1. Git!ToSet(s.parents[k]) = {} BY <1>3 DEF Git!ToSet
  <2>2. {k} \in SUBSET Git!Commits(s) /\ \A x \in {k} : Git!ToSet(s.parents[x]) \subseteq {k}
    BY <2>1
  <2>3. Git!History(s, k) \subseteq {k} BY <2>2, HistoryIsLeast
  <2> QED BY <2>3
<1> QED BY <1>2, <1>3

\* Of any commits some is the oldest.
LEMMA SomeAreOldest ==
  ASSUME NEW s, Grown(s), NEW Q \in SUBSET Git!Commits(s), Q # {}
  PROVE  \E k \in Q : \A d \in Q : s.time[k] <= s.time[d]
<1> DEFINE times == {s.time[d] : d \in Q}
<1>1. times \in SUBSET Nat /\ times # {} BY DEF Grown
<1>2. PICK t \in times : \A u \in times : t <= u
  <2> HIDE DEF times
  <2> QED BY <1>1, LeastNumber
<1> QED BY <1>2

\* Of commits of one history some is the newest.
LEMMA SomeAreNewest ==
  ASSUME NEW s, Grown(s), NEW tip \in Git!Commits(s), NEW Q \in SUBSET Git!History(s, tip), Q # {}
  PROVE  \E k \in Q : \A d \in Q : s.time[d] <= s.time[k]
<1> DEFINE ages == {s.time[tip] - s.time[d] : d \in Q}
<1>1. Q \subseteq Git!Commits(s) BY DEF Git!History
<1>2. \A d \in Git!Commits(s) : s.time[d] \in Nat BY DEF Grown
<1>3. ASSUME NEW d \in Q PROVE s.time[d] <= s.time[tip]
  <2>1. CASE d = tip BY <1>2, <2>1
  <2>2. CASE d # tip
    <3>1. s.time[d] < s.time[tip] BY <2>2, HistoriesAreOlder
    <3> QED BY <1>1, <1>2, <3>1
  <2> QED BY <2>1, <2>2
<1>4. ages \in SUBSET Nat /\ ages # {}
  <2>1. \A d \in Q : s.time[tip] - s.time[d] \in Nat BY <1>1, <1>2, <1>3
  <2> QED BY <2>1
<1>5. PICK n \in ages : \A o \in ages : n <= o
  <2> HIDE DEF ages
  <2> QED BY <1>4, LeastNumber
<1>6. PICK k \in Q : n = s.time[tip] - s.time[k] BY <1>5
<1>7. ASSUME NEW d \in Q PROVE s.time[d] <= s.time[k]
  <2>1. s.time[tip] - s.time[k] <= s.time[tip] - s.time[d] BY <1>5, <1>6
  <2>2. s.time[tip] \in Nat /\ s.time[k] \in Nat /\ s.time[d] \in Nat BY <1>1, <1>2
  <2> QED BY <2>1, <2>2
<1> QED BY <1>7

\* Whatever is in the history of a commit came through one of its parents.
LEMMA HistoriesComeFromParents ==
  ASSUME NEW s, Grown(s), NEW k \in Git!Commits(s), NEW d \in Git!History(s, k), d # k
  PROVE  \E p \in Git!ToSet(s.parents[k]) : d \in Git!History(s, p)
<1> DEFINE brought == UNION {Git!History(s, p) : p \in Git!ToSet(s.parents[k])}
           known == {k} \cup brought
<1>1. known \in SUBSET Git!Commits(s) BY DEF Git!History
<1>2. ASSUME NEW x \in known, NEW q \in Git!ToSet(s.parents[x]) PROVE q \in known
  <2>1. q \in Git!Commits(s) BY <1>1 DEF Grown
  <2>2. CASE x = k
    <3>1. q \in Git!History(s, q) BY <2>1, HistoryHasTheCommit
    <3> QED BY <2>2, <3>1
  <2>3. CASE x \in brought
    <3>1. PICK p \in Git!ToSet(s.parents[k]) : x \in Git!History(s, p) BY <2>3
    <3>2. q \in Git!History(s, p) BY <2>1, <3>1, HistoryHasParents
    <3> QED BY <3>2
  <2> QED BY <2>2, <2>3
<1>3. Git!History(s, k) \subseteq known
  <2>1. k \in known OBVIOUS
  <2> HIDE DEF known
  <2> QED BY <1>1, <1>2, <2>1, HistoryIsLeast
<1> QED BY <1>3

\* What the newest commit to change a path left there is there at the tip: over any
\* history whose merges are clean.
THEOREM NewestChangeIsAtTheTip ==
  ASSUME NEW s, Grown(s), NEW tip \in Git!Commits(s), NEW path, MergesAreClean(s, tip, path),
         NEW m \in Git!History(s, tip), Alters(s, m, path),
         \A k \in Git!History(s, tip) : Alters(s, k, path) => s.time[k] <= s.time[m]
  PROVE  At(s, m, path) = At(s, tip, path)
<1> DEFINE H == Git!History(s, tip)
           P(k) == Git!FirstParent(s, k)
           Q == {k \in H : m \in Git!History(s, k) /\ At(s, k, path) = At(s, tip, path)}
<1>1. H \subseteq Git!Commits(s) /\ tip \in Q BY HistoryHasTheCommit DEF Git!History
<1>2. \A k \in Git!Commits(s) : s.time[k] \in Nat BY DEF Grown
<1>3. PICK k \in Q : \A d \in Q : s.time[k] <= s.time[d] BY <1>1, SomeAreOldest
<1>4. CASE k = m BY <1>4
<1>5. CASE k # m
  <2>1. k \in Git!Commits(s) /\ m \in Git!History(s, k) /\ k \in H BY <1>1
  <2>2. s.time[m] < s.time[k] /\ s.parents[k] # <<>> BY <1>5, <2>1, HistoriesAreOlder
  <2>3. \A p \in Git!ToSet(s.parents[k]) : p \in Git!Commits(s) /\ s.time[p] < s.time[k]
    BY <2>1 DEF Grown
  <2>4. P(k) \in Git!ToSet(s.parents[k]) BY <2>1, <2>2, FirstParents
  <2>5. ~Alters(s, k, path)
    <3>1. s.time[m] \in Nat /\ s.time[k] \in Nat BY <1>1, <1>2, <2>1
    <3> QED BY <2>1, <2>2, <3>1
  <2>6. At(s, k, path) = At(s, tip, path) /\ At(s, P(k), path) = At(s, k, path)
    BY <2>5 DEF Alters
  <2>7. PICK p \in Git!ToSet(s.parents[k]) :
          m \in Git!History(s, p) /\ At(s, p, path) = At(s, k, path)
    <3>1. PICK q \in Git!ToSet(s.parents[k]) : m \in Git!History(s, q)
      BY <1>5, <2>1, HistoriesComeFromParents
    <3>2. CASE m \in Git!History(s, P(k)) BY <2>4, <2>6, <3>2
    <3>3. CASE m \notin Git!History(s, P(k))
      <4>1. At(s, q, path) = At(s, k, path) BY <2>1, <2>5, <3>1, <3>3 DEF MergesAreClean
      <4> QED BY <3>1, <4>1
    <3> QED BY <3>2, <3>3
  <2>8. p \in H BY <2>1, <2>3, <2>7, HistoryHasParents
  <2>9. p \in Q BY <2>6, <2>7, <2>8
  <2>10. s.time[k] <= s.time[p] BY <1>3, <2>9
  <2> QED BY <1>2, <2>1, <2>3, <2>7, <2>10
<1> QED BY <1>4, <1>5

\* A path that begins a file is touched by the changes below it.
LEMMA TouchedBelow ==
  ASSUME NEW S, NEW paths \in SUBSET Seq(S), NoneBegins(paths),
         NEW tree, DOMAIN tree \subseteq paths, NEW f \in DOMAIN tree,
         NEW path, Git!IsPrefix(path, f), NEW changed \in SUBSET paths
  PROVE  Git!touched(changed, path, Git!entryType(tree, path))
           <=> \E p \in changed : Git!IsPrefix(path, p)
<1>1. f \in paths OBVIOUS
<1>2. CASE path \in DOMAIN tree
  <2>1. path \in paths BY <1>2
  <2>2. Git!entryType(tree, path) = "blob" BY <1>2 DEF Git!entryType
  <2>3. Git!IsPrefix(path, path)
    <3>1. Len(path) \in Nat BY <2>1, LenProperties
    <3> QED BY <3>1 DEF Git!IsPrefix
  <2>4. \A p \in changed : Git!IsPrefix(path, p) => p = path
    BY <2>1 DEF NoneBegins, Git!IsStrictPrefix
  <2> QED BY <2>2, <2>3, <2>4 DEF Git!touched
<1>3. CASE path \notin DOMAIN tree
  <2>1. Git!IsStrictPrefix(path, f) BY <1>3 DEF Git!IsStrictPrefix
  <2>2. Git!entryType(tree, path) = "tree" BY <1>3, <2>1 DEF Git!entryType
  <2>3. path \notin paths BY <1>1, <2>1 DEF NoneBegins
  <2>4. \A p \in changed : Git!IsPrefix(path, p) <=> Git!IsStrictPrefix(path, p)
    BY <2>3 DEF Git!IsStrictPrefix
  <2> QED BY <2>2, <2>4 DEF Git!touched
<1> QED BY <1>2, <1>3

\* A commit and its first parent, or none
LEMMA ParentsApart ==
  ASSUME NEW s, Grown(s), NEW paths, FiledAt(s, paths), NEW k \in Git!Commits(s)
  PROVE  LET old == Git!treeOf(s, Git!FirstParent(s, k))
             new == s.tree[k]
         IN  Git!treeOf(s, k) = new /\ Apart(old, new) /\ Files(old, new) \subseteq paths
<1> DEFINE parent == Git!FirstParent(s, k)
           old == Git!treeOf(s, parent)
           new == s.tree[k]
<1>1. \A d \in Git!Commits(s) : Git!treeOf(s, d) = s.tree[d]
  BY CommitsAreRefs DEF Grown
<1>2. parent = NULL \/ parent \in Git!Commits(s) BY FirstParents
<1>3. DOMAIN old \subseteq paths /\ \A p \in DOMAIN old : old[p].oid # NULL
  <2>1. CASE parent = NULL BY <2>1, NoFilesInTheEmptyTree DEF Git!treeOf
  <2>2. CASE parent \in Git!Commits(s) BY <1>1, <2>2 DEF FiledAt
  <2> QED BY <1>2, <2>1, <2>2
<1>4. DOMAIN new \subseteq paths /\ \A p \in DOMAIN new : new[p].oid # NULL BY DEF FiledAt
<1>5. NoneBegins(paths) BY DEF FiledAt
<1> HIDE DEF old, new
<1>6. Files(old, new) \subseteq paths BY <1>3, <1>4 DEF Files
<1>7. Apart(old, new) BY <1>3, <1>4, <1>5, <1>6 DEF Apart, NoneBegins
<1> QED BY <1>1, <1>6, <1>7 DEF old, new

\* Some commit brought what is at the tip.
LEMMA SomethingAltersIt ==
  ASSUME NEW s, Grown(s), NEW tip \in Git!Commits(s), NEW path,
         At(s, tip, path) # At(s, NULL, path)
  PROVE  \E k \in Git!History(s, tip) : Alters(s, k, path)
<1> DEFINE H == Git!History(s, tip)
           Q == {k \in H : At(s, k, path) = At(s, tip, path)}
<1>1. Q \subseteq H /\ H \subseteq Git!Commits(s) /\ tip \in Q
  BY HistoryHasTheCommit DEF Git!History
<1>2. PICK k \in Q : \A d \in Q : s.time[k] <= s.time[d] BY <1>1, SomeAreOldest
<1>3. ASSUME ~Alters(s, k, path) PROVE FALSE
  <2> DEFINE parent == Git!FirstParent(s, k)
  <2>1. At(s, parent, path) = At(s, tip, path) /\ parent # NULL BY <1>3 DEF Alters
  <2>2. k \in H /\ k \in Git!Commits(s) BY <1>1
  <2>3. /\ parent \in Git!ToSet(s.parents[k]) /\ parent \in Git!Commits(s)
        /\ s.time[parent] < s.time[k]
    BY <2>1, <2>2, FirstParents
  <2>4. parent \in H BY <2>2, <2>3, HistoryHasParents
  <2>5. s.time[k] <= s.time[parent] BY <1>2, <2>1, <2>4
  <2>6. s.time[k] \in Nat /\ s.time[parent] \in Nat BY <2>2, <2>3 DEF Grown
  <2> HIDE DEF parent
  <2> QED BY <2>3, <2>5, <2>6
<1> QED BY <1>1, <1>3

\* The file browser names, for every entry of any directory, a commit that changed it
\* and left it as it is at the tip: over any trees and any history of clean merges.
THEOREM EntriesAreShownAsTheyCame ==
  ASSUME NEW s, Grown(s), NEW S, NEW paths \in SUBSET Seq(S), FiledAt(s, paths),
         NEW ref, Git!resolveRef(s, ref) \in Git!Commits(s),
         Dated(s, Git!History(s, Git!resolveRef(s, ref))),
         NEW directory \in Seq(S), NEW entry \in Git!getTree(s, ref, directory),
         MergesAreClean(s, Git!resolveRef(s, ref), Append(directory, entry.path))
  PROVE  \E last \in Git!getTreeLastCommits(s, ref, directory) :
           LET path == Append(directory, entry.path)
           IN /\ last.path = entry.path
              /\ At(s, last.commitOid, path) = At(s, Git!resolveRef(s, ref), path)
              /\ Alters(s, last.commitOid, path)
<1> DEFINE tip == Git!resolveRef(s, ref)
           path == Append(directory, entry.path)
           H    == Git!History(s, tip)
           T    == {k \in H : Alters(s, k, path)}
           tree == s.tree[tip]
           log  == Git!NewestFirst(s, ref)
           Changed(k) == Git!collectChangedPaths(Git!treeOf(s, Git!FirstParent(s, k)), s.tree[k])
           touching == {j \in DOMAIN log : Git!touched(Changed(log[j]), path, entry.type)}
<1>1. tip \in Git!Commits(s) /\ tip # NULL BY DEF Grown
<1>2. \A k \in Git!Commits(s) : Git!treeOf(s, k) = s.tree[k] /\ DOMAIN s.tree[k] \subseteq paths
  BY CommitsAreRefs DEF FiledAt, Grown
<1>3. NoneBegins(paths) BY DEF FiledAt
<1>4. PICK f \in DOMAIN tree :
        /\ Git!IsStrictPrefix(directory, f)
        /\ entry = [path |-> f[Len(directory) + 1],
                    type |-> Git!entryType(tree, SubSeq(f, 1, Len(directory) + 1))]
  BY <1>1 DEF Git!getTree
<1>5. /\ Git!IsPrefix(path, f)
      /\ entry.type = Git!entryType(tree, path)
  <2>1. f \in Seq(S) BY <1>1, <1>2
  <2>2. /\ entry.path = f[Len(directory) + 1]
        /\ entry.type = Git!entryType(tree, SubSeq(f, 1, Len(directory) + 1))
    BY <1>4
  <2> HIDE DEF tree
  <2> QED BY <1>4, <2>1, <2>2, FirstStep
<1> HIDE DEF path, tip
<1>6. H \subseteq Git!Commits(s) BY DEF Git!History
<1>7. At(s, tip, path) # At(s, NULL, path)
  <2>1. f \in DOMAIN At(s, tip, path) BY <1>1, <1>2, <1>5 DEF At, Git!Under
  <2>2. DOMAIN At(s, NULL, path) = {} BY NoFilesInTheEmptyTree DEF At, Git!Under, Git!treeOf
  <2> QED BY <2>1, <2>2
<1>8. T # {} BY <1>1, <1>7, SomethingAltersIt
<1>9. \A k \in H : Git!touched(Changed(k), path, entry.type) <=> k \in T
  <2> SUFFICES ASSUME NEW k \in H
               PROVE  Git!touched(Changed(k), path, entry.type) <=> k \in T
    OBVIOUS
  <2> DEFINE old == Git!treeOf(s, Git!FirstParent(s, k))
             new == s.tree[k]
  <2>1. k \in Git!Commits(s) BY <1>6
  <2>2. Apart(old, new) /\ Files(old, new) \subseteq paths /\ Git!treeOf(s, k) = new
    BY <2>1, ParentsApart
  <2>3. Changed(k) \in SUBSET paths BY <2>2, ChangedPaths
  <2>4. Git!touched(Changed(k), path, entry.type)
          <=> \E p \in Changed(k) : Git!IsPrefix(path, p)
    <3>1. DOMAIN tree \subseteq paths BY <1>1, <1>2
    <3> HIDE DEF Changed, tree
    <3> QED BY <1>3, <1>5, <2>3, <3>1, TouchedBelow
  <2>5. (\E p \in Changed(k) : Git!IsPrefix(path, p))
          <=> Git!Under(old, path) # Git!Under(new, path)
    BY <2>2, UnderDiffers
  <2>6. k \in T <=> Git!Under(old, path) # Git!Under(new, path) BY <2>2 DEF Alters, At
  <2> QED BY <2>4, <2>5, <2>6
<1>10. T \in SUBSET H /\ Git!resolveRef(s, ref) = tip BY DEF tip
<1>11. \A k \in T : k \in H /\ Alters(s, k, path) OBVIOUS
<1>12. \A k \in H : Alters(s, k, path) => k \in T OBVIOUS
<1>13. Dated(s, H) BY DEF tip
<1> HIDE DEF Changed, T
<1> DEFINE at == {j \in DOMAIN log : log[j] \in T}
<1>14. /\ at # {} /\ log[Git!Min(at)] \in T
       /\ \A k \in T : s.time[k] <= s.time[log[Git!Min(at)]]
  BY <1>1, <1>8, <1>10, <1>13, LeastPlaceIsNewest
<1>15. touching = at
  <2>1. \A j \in DOMAIN log : log[j] \in H
    <3>1. log \in Seq(H) /\ DOMAIN log = 1 .. Cardinality(H) /\ Len(log) = Cardinality(H)
      BY <1>1, <1>10, <1>13, LogIsTheHistory
    <3> HIDE DEF log, H
    <3> QED BY <3>1, ElementOfSeq
  <2> QED BY <1>9, <2>1
<1> DEFINE last == [path |-> entry.path, commitOid |-> log[Git!Min(touching)]]
<1>16. last \in Git!getTreeLastCommits(s, ref, directory)
  <2>1. touching # {} BY <1>14, <1>15
  <2> QED BY <2>1 DEF Git!getTreeLastCommits, Changed, path
<1> HIDE DEF log, touching, at
<1>17. /\ last.commitOid \in T /\ last.path = entry.path
       /\ \A k \in T : s.time[k] <= s.time[last.commitOid]
  <2>1. last.commitOid = log[Git!Min(touching)] /\ last.path = entry.path OBVIOUS
  <2> HIDE DEF last
  <2> QED BY <1>14, <1>15, <2>1
<1> HIDE DEF last
<1>18. Alters(s, last.commitOid, path) /\ last.commitOid \in H BY <1>11, <1>17
<1>19. MergesAreClean(s, tip, path) BY DEF tip, path
<1>20. \A k \in Git!History(s, tip) : Alters(s, k, path) => s.time[k] <= s.time[last.commitOid]
  BY <1>12, <1>17
<1>21. At(s, last.commitOid, path) = At(s, tip, path)
  BY <1>1, <1>18, <1>19, <1>20, NewestChangeIsAtTheTip
<1> QED BY <1>16, <1>17, <1>18, <1>21 DEF path, tip

-----------------------------------------------------------------------------
(* Pull requests, for any store of commits younger than their parents      *)

\* A commit, its first parent, the first parent of that, and so on
Line(s, commit) ==
  {k \in Git!Commits(s) :
     \A known \in SUBSET Git!Commits(s) :
       /\ commit \in known
       /\ \A d \in known : Git!FirstParent(s, d) # NULL => Git!FirstParent(s, d) \in known
       => k \in known}

\* The line of a commit is part of its history, and goes on with its first parent's.
LEMMA LinesGoOn ==
  ASSUME NEW s, Grown(s), NEW k \in Git!Commits(s)
  PROVE  /\ k \in Line(s, k)
         /\ Line(s, k) \subseteq Git!History(s, k)
         /\ \A d \in Line(s, k) : Git!FirstParent(s, d) # NULL => Git!FirstParent(s, d) \in Line(s, k)
         /\ \A d \in Line(s, k) : d # k => /\ Git!FirstParent(s, k) # NULL
                                           /\ d \in Line(s, Git!FirstParent(s, k))
<1> DEFINE P(d) == Git!FirstParent(s, d)
           H == Git!History(s, k)
<1>1. \A d \in Git!Commits(s) : P(d) # NULL =>
        P(d) \in Git!Commits(s) /\ P(d) \in Git!ToSet(s.parents[d])
  BY FirstParents
<1>2. \A known \in SUBSET Git!Commits(s) : k \in known /\ (\A d \in known : P(d) # NULL => P(d) \in known)
        => Line(s, k) \subseteq known
  BY DEF Line
<1>3. \A x : Line(s, x) \subseteq Git!Commits(s) BY DEF Line
<1>4. k \in Line(s, k) BY DEF Line
<1>5. \A x : \A d \in Line(s, x) : P(d) # NULL => P(d) \in Line(s, x)
  <2> SUFFICES ASSUME NEW x, NEW d \in Line(s, x), P(d) # NULL PROVE P(d) \in Line(s, x)
    OBVIOUS
  <2>1. P(d) \in Git!Commits(s) BY <1>1, <1>3
  <2> QED BY <2>1 DEF Line
<1>6. Line(s, k) \subseteq H
  <2>1. H \in SUBSET Git!Commits(s) /\ k \in H BY HistoryHasTheCommit DEF Git!History
  <2>2. \A d \in H : P(d) # NULL => P(d) \in H BY <1>1, <2>1, HistoryHasParents
  <2> HIDE DEF H, P
  <2> QED BY <1>2, <2>1, <2>2
<1>7. ASSUME P(k) = NULL PROVE Line(s, k) \subseteq {k}
  <2> HIDE DEF P
  <2> QED BY <1>2, <1>7
<1>8. ASSUME P(k) # NULL PROVE Line(s, k) \subseteq {k} \cup Line(s, P(k))
  <2> DEFINE known == {k} \cup Line(s, P(k))
  <2>1. P(k) \in Line(s, P(k)) BY <1>1, <1>8 DEF Line
  <2>2. known \in SUBSET Git!Commits(s) BY <1>3
  <2>3. \A d \in known : P(d) # NULL => P(d) \in known BY <1>5, <2>1
  <2> HIDE DEF P, known
  <2>4. k \in known BY DEF known
  <2> QED BY <1>2, <2>2, <2>3, <2>4 DEF known
<1> QED BY <1>4, <1>5, <1>6, <1>7, <1>8

\* The merge base of two commits is the newest of what both have in their history.
LEMMA MergeBasesAreNewest ==
  ASSUME NEW s, Grown(s), NEW a, NEW b,
         Git!resolveRef(s, a) \in Git!Commits(s), Git!resolveRef(s, b) \in Git!Commits(s)
  PROVE  LET base == Git!getMergeBase(s, a, b)
             common == Git!History(s, Git!resolveRef(s, a)) \cap Git!History(s, Git!resolveRef(s, b))
         IN  IF common = {} THEN base = NULL
             ELSE base \in common /\ \A d \in common : s.time[d] <= s.time[base]
<1> DEFINE x == Git!resolveRef(s, a)
           y == Git!resolveRef(s, b)
           common == Git!History(s, x) \cap Git!History(s, y)
           base == Git!getMergeBase(s, a, b)
<1>1. /\ x # NULL /\ y # NULL /\ x \in Git!Commits(s)
      /\ common \subseteq Git!History(s, x) /\ Git!History(s, x) \subseteq Git!Commits(s)
  BY DEF Grown, Git!History
<1>2. /\ common = {} => base = NULL
      /\ common # {} => base = CHOOSE k \in common : \A d \in common : s.time[d] <= s.time[k]
  <2>1. x # NULL /\ y # NULL BY <1>1
  <2>2. common = {} => base = NULL BY <2>1 DEF Git!getMergeBase
  <2>3. common # {} => base = CHOOSE k \in common : \A d \in common : s.time[d] <= s.time[k]
    BY <2>1 DEF Git!getMergeBase
  <2> QED BY <2>2, <2>3
<1> HIDE DEF x, y, common, base
<1>3. ASSUME common # {} PROVE \E k \in common : \A d \in common : s.time[d] <= s.time[k]
  BY <1>1, <1>3, SomeAreNewest
<1>4. IF common = {} THEN base = NULL
      ELSE base \in common /\ \A d \in common : s.time[d] <= s.time[base]
  BY <1>2, <1>3
<1> QED BY <1>4 DEF base, common, x, y

\* Any two commits
LEMMA CommitsApart ==
  ASSUME NEW s, Grown(s), NEW paths, FiledAt(s, paths),
         NEW a \in Git!Commits(s), NEW b \in Git!Commits(s)
  PROVE  LET old == Git!treeOf(s, a)
             new == Git!treeOf(s, b)
         IN  Apart(old, new) /\ Files(old, new) \subseteq paths
<1> DEFINE old == Git!treeOf(s, a)
           new == Git!treeOf(s, b)
<1>1. /\ DOMAIN old \subseteq paths /\ DOMAIN new \subseteq paths
      /\ \A p \in DOMAIN old : old[p].oid # NULL
      /\ \A p \in DOMAIN new : new[p].oid # NULL
      /\ NoneBegins(paths)
  BY CommitsAreRefs DEF FiledAt, Grown
<1> HIDE DEF old, new
<1>2. Files(old, new) \subseteq paths BY <1>1 DEF Files
<1>3. Apart(old, new) BY <1>1, <1>2 DEF Apart, NoneBegins, Files
<1> QED BY <1>2, <1>3 DEF old, new

\* A pull request compares its source with where it parted from its target.
LEMMA PullRequestsCompare ==
  ASSUME NEW s, Grown(s), NEW pull, NEW f \in Git!pullRequestChangedFiles(s, pull),
         NEW head \in Git!Commits(s), NEW base \in Git!Commits(s),
         head = Git!resolveRef(s, <<"refs/heads/", pull.sourceBranch>>),
         base = Git!getMergeBase(s, <<"refs/heads/", pull.targetBranch>>,
                                    <<"refs/heads/", pull.sourceBranch>>)
  PROVE  f \in Git!getChangedFiles(s, base, head)
<1> DEFINE refs == Git!resolvePrRefs(s, pull)
<1>1. refs # NULL /\ f \in Git!getChangedFiles(s, refs.base, refs.head)
  BY DEF Git!pullRequestChangedFiles
<1>2. base # NULL BY DEF Grown
<1>3. refs = [base |-> base, head |-> head] BY <1>1, <1>2 DEF Git!resolvePrRefs
<1>4. refs.base = base /\ refs.head = head BY <1>3
<1> QED BY <1>1, <1>4

\* Every file a pull request lists was changed by a commit its source has and its
\* target has not, whatever landed on the target: over any histories, if where the
\* source parted is on its own line, one that did not merge the target in.
THEOREM PullRequestsShowTheirWork ==
  ASSUME NEW s, Grown(s), NEW paths, FiledAt(s, paths), NEW pull,
         Git!resolveRef(s, <<"refs/heads/", pull.sourceBranch>>) \in Git!Commits(s),
         Git!resolveRef(s, <<"refs/heads/", pull.targetBranch>>) \in Git!Commits(s),
         Git!getMergeBase(s, <<"refs/heads/", pull.targetBranch>>,
                             <<"refs/heads/", pull.sourceBranch>>)
           \in Line(s, Git!resolveRef(s, <<"refs/heads/", pull.sourceBranch>>)),
         NEW f \in Git!pullRequestChangedFiles(s, pull)
  PROVE  \E k \in Git!History(s, Git!resolveRef(s, <<"refs/heads/", pull.sourceBranch>>))
                   \ Git!History(s, Git!resolveRef(s, <<"refs/heads/", pull.targetBranch>>)) :
           f.path \in {g.path : g \in Git!commitChangedFiles(s, k)}
<1> DEFINE a == <<"refs/heads/", pull.targetBranch>>
           b == <<"refs/heads/", pull.sourceBranch>>
           tip == Git!resolveRef(s, a)
           head == Git!resolveRef(s, b)
           base == Git!getMergeBase(s, a, b)
           common == Git!History(s, tip) \cap Git!History(s, head)
           Oid(k) == Git!entryOid(Git!treeOf(s, k), f.path)
           P(k) == Git!FirstParent(s, k)
<1>1. /\ tip \in Git!Commits(s) /\ head \in Git!Commits(s) /\ head # NULL
      /\ base \in Line(s, head) /\ NULL \notin Git!Commits(s)
  BY DEF Grown
<1>2. base \in Git!Commits(s) /\ base # NULL BY <1>1 DEF Line
<1>3. base \in common /\ \A d \in common : s.time[d] <= s.time[base]
  BY <1>1, <1>2, MergeBasesAreNewest
<1>4. f \in Git!getChangedFiles(s, base, head) BY <1>1, <1>2, PullRequestsCompare
<1> HIDE DEF base, head, tip
<1>5. Apart(Git!treeOf(s, base), Git!treeOf(s, head)) BY <1>1, <1>2, CommitsApart
<1>6. Oid(base) # Oid(head) BY <1>4, <1>5, ListedFiles
<1> DEFINE Q == {k \in Line(s, head) : base \in Line(s, k) /\ Oid(k) = Oid(head)}
<1>7. Q \in SUBSET Git!Commits(s) /\ Q # {}
  <2>1. head \in Q BY <1>1, LinesGoOn
  <2> QED BY <2>1 DEF Line
<1>8. PICK k \in Q : \A d \in Q : s.time[k] <= s.time[d] BY <1>7, SomeAreOldest
<1>9. k \in Git!Commits(s) /\ k \in Line(s, head) /\ base \in Line(s, k) /\ k # base
  BY <1>6, <1>7, <1>8
<1>10. P(k) # NULL /\ base \in Line(s, P(k)) /\ P(k) \in Line(s, head)
  BY <1>1, <1>9, LinesGoOn
<1>11. Oid(P(k)) # Oid(k)
  <2> SUFFICES ASSUME Oid(P(k)) = Oid(k) PROVE FALSE
    OBVIOUS
  <2>1. P(k) \in Q BY <1>8, <1>10
  <2>2. s.time[k] <= s.time[P(k)] BY <1>8, <2>1
  <2>3. s.time[P(k)] < s.time[k] /\ P(k) \in Git!Commits(s) BY <1>9, <1>10, FirstParents
  <2>4. s.time[P(k)] \in Nat /\ s.time[k] \in Nat BY <1>9, <2>3 DEF Grown
  <2> HIDE DEF P
  <2> QED BY <2>2, <2>3, <2>4
<1>12. f.path \in {g.path : g \in Git!commitChangedFiles(s, k)}
  <2> DEFINE old == Git!treeOf(s, P(k))
             new == Git!treeOf(s, k)
  <2>1. Apart(old, new) BY <1>9, ParentsApart
  <2>2. f.path \in Files(old, new) BY <1>11 DEF Files, Git!entryOid
  <2>3. f.path \in Git!collectChangedPaths(old, new) BY <1>11, <2>1, <2>2, ChangedPaths
  <2> QED BY <2>3, ListedPaths DEF Git!commitChangedFiles
<1>13. k \in Git!History(s, head) BY <1>1, <1>9, LinesGoOn
<1>14. k \notin Git!History(s, tip)
  <2>1. base \in Git!History(s, k) BY <1>9, LinesGoOn
  <2>2. s.time[base] < s.time[k] BY <1>9, <2>1, HistoriesAreOlder
  <2>3. s.time[base] \in Nat /\ s.time[k] \in Nat BY <1>2, <1>9 DEF Grown
  <2>4. k \notin common BY <1>3, <2>2, <2>3
  <2> QED BY <1>13, <2>4
<1> QED BY <1>12, <1>13, <1>14 DEF head, tip

\* What is in the history of a commit has its own in it.
LEMMA HistoriesNest ==
  ASSUME NEW s, Grown(s), NEW k \in Git!Commits(s), NEW d \in Git!History(s, k)
  PROVE  d \in Git!Commits(s) /\ Git!History(s, d) \subseteq Git!History(s, k)
<1> DEFINE H == Git!History(s, k)
<1>1. H \in SUBSET Git!Commits(s) BY DEF Git!History
<1>2. \A x \in H : Git!ToSet(s.parents[x]) \subseteq H
  <2> SUFFICES ASSUME NEW x \in H, NEW p \in Git!ToSet(s.parents[x]) PROVE p \in H
    OBVIOUS
  <2>1. p \in Git!Commits(s) BY <1>1 DEF Grown
  <2> QED BY <2>1, HistoryHasParents
<1> QED BY <1>1, <1>2, HistoryIsLeast

\* What two commits have at a path is the same unless a commit changed it that only one
\* of them has in its history: over any history whose merges are clean.
LEMMA SameUnlessAltered ==
  ASSUME NEW s, Grown(s), NEW path, NEW u \in Git!Commits(s), NEW v \in Git!Commits(s),
         MergesAreClean(s, u, path), MergesAreClean(s, v, path),
         \A d : Alters(s, d, path) => (d \in Git!History(s, u) <=> d \in Git!History(s, v))
  PROVE  At(s, u, path) = At(s, v, path)
<1> DEFINE changes == {d \in Git!History(s, u) : Alters(s, d, path)}
<1>1. changes = {d \in Git!History(s, v) : Alters(s, d, path)} OBVIOUS
<1>2. CASE changes = {}
  <2>1. At(s, u, path) = At(s, NULL, path) BY <1>2, SomethingAltersIt
  <2>2. At(s, v, path) = At(s, NULL, path) BY <1>1, <1>2, SomethingAltersIt
  <2> QED BY <2>1, <2>2
<1>3. CASE changes # {}
  <2>1. PICK m \in changes : \A d \in changes : s.time[d] <= s.time[m]
    BY <1>3, SomeAreNewest
  <2>2. At(s, m, path) = At(s, u, path) BY <2>1, NewestChangeIsAtTheTip
  <2>3. /\ m \in Git!History(s, v) /\ Alters(s, m, path)
        /\ \A d \in Git!History(s, v) : Alters(s, d, path) => s.time[d] <= s.time[m]
    BY <1>1, <2>1
  <2>4. At(s, m, path) = At(s, v, path) BY <2>3, NewestChangeIsAtTheTip
  <2> QED BY <2>2, <2>4
<1> QED BY <1>2, <1>3

\* The same of a pull request whose source merged its target in, if what both have is
\* all in the history of the merge base: every file it lists was changed by a commit
\* its source has and its target has not.
THEOREM UpdatedPullRequestsShowTheirWork ==
  ASSUME NEW s, Grown(s), NEW S, NEW paths \in SUBSET Seq(S), FiledAt(s, paths), NEW pull,
         NEW head \in Git!Commits(s), NEW tip \in Git!Commits(s), NEW base \in Git!Commits(s),
         head = Git!resolveRef(s, <<"refs/heads/", pull.sourceBranch>>),
         tip = Git!resolveRef(s, <<"refs/heads/", pull.targetBranch>>),
         base = Git!getMergeBase(s, <<"refs/heads/", pull.targetBranch>>,
                                    <<"refs/heads/", pull.sourceBranch>>),
         Git!History(s, tip) \cap Git!History(s, head) \subseteq Git!History(s, base),
         NEW f \in Git!pullRequestChangedFiles(s, pull), MergesAreClean(s, head, f.path)
  PROVE  \E k \in Git!History(s, head) \ Git!History(s, tip) :
           f.path \in {g.path : g \in Git!commitChangedFiles(s, k)}
<1> DEFINE old == Git!treeOf(s, base)
           new == Git!treeOf(s, head)
           p == f.path
<1>1. f \in Git!getChangedFiles(s, base, head) BY PullRequestsCompare
<1>2. Apart(old, new) /\ Files(old, new) \subseteq paths BY CommitsApart
<1>3. p \in Git!collectChangedPaths(old, new) /\ p \in paths
  <2>1. p \in Git!collectChangedPaths(old, new) BY <1>1, ListedPaths
  <2> QED BY <1>2, <2>1, ChangedPaths
<1>4. At(s, base, p) # At(s, head, p)
  <2>1. Len(p) \in Nat BY <1>3, LenProperties
  <2>2. Git!IsPrefix(p, p) BY <2>1 DEF Git!IsPrefix
  <2> HIDE DEF old, new
  <2>3. Git!Under(old, p) # Git!Under(new, p) BY <1>2, <1>3, <2>2, UnderDiffers
  <2> QED BY <2>3 DEF At, old, new
<1>5. /\ base \in Git!History(s, tip) /\ base \in Git!History(s, head)
      /\ Git!History(s, base) \subseteq Git!History(s, head)
  <2>1. base \in Git!History(s, tip) /\ base \in Git!History(s, head)
    BY MergeBasesAreNewest DEF Grown
  <2> QED BY <2>1, HistoriesNest
<1>6. PICK k \in Git!History(s, head) \ Git!History(s, tip) : Alters(s, k, p)
  <2> SUFFICES ASSUME \A k \in Git!History(s, head) \ Git!History(s, tip) : ~Alters(s, k, p)
               PROVE  FALSE
    OBVIOUS
  <2>1. MergesAreClean(s, base, p) BY <1>5 DEF MergesAreClean
  <2>2. \A d : Alters(s, d, p) => (d \in Git!History(s, base) <=> d \in Git!History(s, head))
    BY <1>5
  <2> QED BY <1>4, <2>1, <2>2, SameUnlessAltered
<1>7. p \in {g.path : g \in Git!commitChangedFiles(s, k)}
  <2> DEFINE was == Git!treeOf(s, Git!FirstParent(s, k))
             is == Git!treeOf(s, k)
  <2>1. k \in Git!Commits(s) BY DEF Git!History
  <2>2. Apart(was, is) /\ Files(was, is) \subseteq paths BY <2>1, ParentsApart
  <2>3. PICK q \in Git!collectChangedPaths(was, is) : Git!IsPrefix(p, q)
    <3>1. Git!Under(was, p) # Git!Under(is, p) BY <1>6 DEF Alters, At
    <3> HIDE DEF was, is
    <3> QED BY <2>2, <3>1, UnderDiffers
  <2>4. q \in paths BY <2>2, ChangedPaths
  <2>5. q = p BY <1>3, <2>3, <2>4 DEF FiledAt, NoneBegins, Git!IsStrictPrefix
  <2> QED BY <2>3, <2>5, ListedPaths DEF Git!commitChangedFiles
<1> QED BY <1>6, <1>7

-----------------------------------------------------------------------------
(* The trees and stores that are enumerated *)

Text == {"1", "2", "bin"}

IsTree(tree) == DOMAIN tree \subseteq Paths /\ \A p \in DOMAIN tree : tree[p].oid \in Text

\* The blob of a file is one of those it is made of.
LEMMA FilesHaveText == \A oids, modes : \A f \in File(oids, modes) : f.oid \in oids
BY DEF File

\* The trees enumerated are over the paths of the run,
LEMMA TreesAreTrees == ASSUME NEW tree \in Trees PROVE IsTree(tree)
<1>1. PICK paths \in SUBSET Paths :
        /\ tree \in [paths -> UNION {Content(p) : p \in paths}]
        /\ \A p \in paths : tree[p] \in Content(p)
  BY DEF Trees
<1>2. \A p \in Paths : \A f \in Content(p) : f.oid \in Text
  <2> SUFFICES ASSUME NEW p \in Paths, NEW f \in Content(p) PROVE f.oid \in Text
    OBVIOUS
  <2>1. \/ f \in File({"1", "2"}, {"644"})
        \/ f \in File({"bin"}, {"755"})
        \/ f \in File({"1"}, {"644"})
    <3>1. CASE p = <<"f">> BY <3>1 DEF Content
    <3>2. CASE p = <<"d", "a">>
      <4>1. p # <<"f">> BY <3>2
      <4> QED BY <3>2, <4>1 DEF Content
    <3>3. CASE p = <<"d", "b">>
      <4>1. p # <<"f">> /\ p # <<"d", "a">> BY <3>3
      <4> QED BY <3>3, <4>1 DEF Content
    <3> QED BY <3>1, <3>2, <3>3 DEF Paths
  <2> QED BY <2>1, FilesHaveText DEF Text
<1> QED BY <1>1, <1>2 DEF IsTree

\* so are their merges,
LEMMA MergesAreTrees ==
  ASSUME NEW base, NEW ours, NEW theirs, IsTree(base), IsTree(ours), IsTree(theirs)
  PROVE  IsTree(MergeTree(base, ours, theirs))
<1> DEFINE merged == MergeTree(base, ours, theirs)
<1>1. DOMAIN merged \subseteq DOMAIN ours \cup DOMAIN theirs BY DEF MergeTree
<1>2. ASSUME NEW p \in DOMAIN merged PROVE merged[p].oid \in Text
  <2>1. CASE p \in Changes(base, theirs)
    <3>1. p \in DOMAIN theirs /\ merged[p] = theirs[p] BY <2>1 DEF MergeTree
    <3> QED BY <3>1 DEF IsTree
  <2>2. CASE p \notin Changes(base, theirs)
    <3>1. p \in DOMAIN ours /\ merged[p] = ours[p] BY <2>2 DEF MergeTree
    <3> QED BY <3>1 DEF IsTree
  <2> QED BY <2>1, <2>2
<1> QED BY <1>1, <1>2 DEF IsTree

\* No path of the run begins another:
LEMMA PathsApart ==
  ASSUME NEW p \in Paths, NEW q \in Paths
  PROVE  p # <<>> /\ p \in Seq({"d", "a", "b", "f"}) /\ ~Git!IsStrictPrefix(p, q)
<1>1. \A r \in Paths : /\ r \in Seq({"d", "a", "b", "f"})
                       /\ \/ r = <<"f">> /\ Len(r) = 1 /\ r[1] = "f"
                          \/ r = <<"d", "a">> /\ Len(r) = 2 /\ r[1] = "d" /\ r[2] = "a"
                          \/ r = <<"d", "b">> /\ Len(r) = 2 /\ r[1] = "d" /\ r[2] = "b"
  <2>1. <<"f">> \in Seq({"d", "a", "b", "f"}) /\ Len(<<"f">>) = 1 /\ <<"f">>[1] = "f" OBVIOUS
  <2>2. /\ <<"d", "a">> \in Seq({"d", "a", "b", "f"})
        /\ Len(<<"d", "a">>) = 2 /\ <<"d", "a">>[1] = "d" /\ <<"d", "a">>[2] = "a"
    OBVIOUS
  <2>3. /\ <<"d", "b">> \in Seq({"d", "a", "b", "f"})
        /\ Len(<<"d", "b">>) = 2 /\ <<"d", "b">>[1] = "d" /\ <<"d", "b">>[2] = "b"
    OBVIOUS
  <2> DEFINE f == <<"f">>
             a == <<"d", "a">>
             b == <<"d", "b">>
  <2>4. Paths = {f, a, b} BY DEF Paths
  <2> HIDE DEF f, a, b
  <2> QED BY <2>1, <2>2, <2>3, <2>4 DEF f, a, b
<1>2. p # <<>>
  BY <1>1, EmptySeq
<1>3. ASSUME Git!IsStrictPrefix(p, q) PROVE FALSE
  <2>1. p # q /\ Git!IsPrefix(p, q) BY <1>3 DEF Git!IsStrictPrefix
  <2>2. Len(p) <= Len(q) /\ \A i \in 1 .. Len(p) : p[i] = q[i] BY <1>1, <2>1, PrefixesBegin
  <2>3. Len(p) \in 1 .. 2 BY <1>1
  <2>4. 1 \in 1 .. Len(p) /\ (Len(p) = 2 => 2 \in 1 .. Len(p)) BY <2>3
  <2>5. p[1] = q[1] /\ (Len(p) = 2 => p[2] = q[2]) BY <2>2, <2>4
  <2>6. p[1] = "f" => p = <<"f">> /\ q = <<"f">> BY <1>1, <2>5
  <2>7. p[1] # "f" => Len(p) = 2 /\ q[1] # "f" BY <1>1, <2>5
  <2> QED BY <1>1, <2>1, <2>5, <2>6, <2>7
<1> QED BY <1>1, <1>2, <1>3

\* no file of its trees is a directory of another.
LEMMA TreesApart ==
  ASSUME NEW old, NEW new, IsTree(old), IsTree(new)
  PROVE  Apart(old, new) /\ Files(old, new) \subseteq Paths
<1>1. NULL \notin Text BY NullAssumption DEF Text
<1> QED BY <1>1, PathsApart DEF IsTree, Apart, Files

\* and the tree of no files.
LEMMA EmptyTreeIsATree == IsTree(Git!EmptyTree)
BY NoFilesInTheEmptyTree DEF IsTree

-----------------------------------------------------------------------------
(* The stores: a chain, a fork, the merge of a fork *)

\* The tips of the two branches, and what a merge of them was made of
Joined(i) == i.shape \in {"merge", "update"}

Onto(i) == IF i.shape = "merge" THEN c4 ELSE c2

From(i) == IF i.shape = "update" THEN c4 ELSE c3

Ours(i) == IF i.shape = "update" THEN c3 ELSE c2

Theirs(i) == IF i.shape = "update" THEN c2 ELSE c3

Merged(i) == IF i.shape = "update" THEN MergeTree(i.x, i.z, i.y) ELSE MergeTree(i.x, i.y, i.z)

\* What a store has, by the shape of its history
LEMMA StoresAre ==
  ASSUME NEW i
  PROVE  LET s == storeOf(i)
         IN  /\ Git!Commits(s) = {c1, c2, c3} \cup IF Joined(i) THEN {c4} ELSE {}
             /\ s.tree[c1] = i.x /\ s.tree[c2] = i.y /\ s.tree[c3] = i.z
             /\ Joined(i) => s.tree[c4] = Merged(i)
             /\ s.parents[c1] = <<>> /\ s.parents[c2] = <<c1>>
             /\ s.parents[c3] = IF i.shape = "chain" THEN <<c2>> ELSE <<c1>>
             /\ Joined(i) => s.parents[c4] = <<Ours(i), Theirs(i)>>
             /\ s.time[c1] = 1 /\ s.time[c2] = 2 /\ s.time[c3] = 3
             /\ Joined(i) => s.time[c4] = 4
             /\ DOMAIN s.heads = {"main", "feature"}
             /\ s.heads["feature"] = From(i)
             /\ s.heads["main"] = Onto(i)
<1> DEFINE s == storeOf(i)
           commits == {c1, c2, c3} \cup IF Joined(i) THEN {c4} ELSE {}
           Tree(k) == CASE k = c1 -> i.x
                        [] k = c2 -> i.y
                        [] k = c3 -> i.z
                        [] k = c4 -> Merged(i)
           Parents(k) == CASE k = c1 -> <<>>
                           [] k = c2 -> <<c1>>
                           [] k = c3 -> IF i.shape = "chain" THEN <<c2>> ELSE <<c1>>
                           [] k = c4 -> IF i.shape = "update" THEN <<c3, c2>> ELSE <<c2, c3>>
           Time(k) == CASE k = c1 -> 1 [] k = c2 -> 2 [] k = c3 -> 3 [] k = c4 -> 4
           Branch_(b) == IF b = "feature" THEN From(i) ELSE Onto(i)
<1>1. /\ s.tree = [k \in commits |-> Tree(k)]
      /\ s.parents = [k \in commits |-> Parents(k)]
      /\ s.time = [k \in commits |-> Time(k)]
      /\ s.heads = [b \in {"main", "feature"} |-> Branch_(b)]
  BY DEF storeOf, Joined, From, Onto, Merged
<1>2. /\ Tree(c1) = i.x /\ Tree(c2) = i.y /\ Tree(c3) = i.z
      /\ Tree(c4) = Merged(i)
  BY CommitAssumption
<1>3. /\ Parents(c1) = <<>> /\ Parents(c2) = <<c1>>
      /\ Parents(c3) = IF i.shape = "chain" THEN <<c2>> ELSE <<c1>>
      /\ Parents(c4) = <<Ours(i), Theirs(i)>>
  BY CommitAssumption DEF Ours, Theirs
<1>4. Time(c1) = 1 /\ Time(c2) = 2 /\ Time(c3) = 3 /\ Time(c4) = 4
  BY CommitAssumption
<1>5. Branch_("feature") = From(i) /\ Branch_("main") = Onto(i)
  OBVIOUS
<1>6. {c1, c2, c3} \subseteq commits /\ (Joined(i) => c4 \in commits) OBVIOUS
<1> HIDE DEF s, Tree, Parents, Time, Branch_, commits
<1>7. Git!Commits(s) = commits BY <1>1 DEF Git!Commits
<1>8. /\ s.tree[c1] = i.x /\ s.tree[c2] = i.y /\ s.tree[c3] = i.z
      /\ Joined(i) => s.tree[c4] = Merged(i)
  BY <1>1, <1>2, <1>6
<1>9. /\ s.parents[c1] = <<>> /\ s.parents[c2] = <<c1>>
      /\ s.parents[c3] = IF i.shape = "chain" THEN <<c2>> ELSE <<c1>>
      /\ Joined(i) => s.parents[c4] = <<Ours(i), Theirs(i)>>
  BY <1>1, <1>3, <1>6
<1>10. /\ s.time[c1] = 1 /\ s.time[c2] = 2 /\ s.time[c3] = 3
       /\ Joined(i) => s.time[c4] = 4
  BY <1>1, <1>4, <1>6
<1>11. /\ DOMAIN s.heads = {"main", "feature"}
       /\ s.heads["feature"] = From(i)
       /\ s.heads["main"] = Onto(i)
  BY <1>1, <1>5
<1> QED BY <1>7, <1>8, <1>9, <1>10, <1>11 DEF s, commits

\* What a commit has for parents
LEMMA ParentsAre ==
  ASSUME NEW s, NEW k
  PROVE  /\ s.parents[k] = <<>> => Git!ToSet(s.parents[k]) = {} /\ Git!FirstParent(s, k) = NULL
         /\ \A p : s.parents[k] = <<p>> => /\ Git!ToSet(s.parents[k]) = {p}
                                           /\ Git!FirstParent(s, k) = p
         /\ \A p, q : s.parents[k] = <<p, q>> => /\ Git!ToSet(s.parents[k]) = {p, q}
                                                 /\ Git!FirstParent(s, k) = p
<1>1. ASSUME s.parents[k] = <<>>
      PROVE  Git!ToSet(s.parents[k]) = {} /\ Git!FirstParent(s, k) = NULL
  BY <1>1 DEF Git!ToSet, Git!FirstParent
<1>2. ASSUME NEW p, s.parents[k] = <<p>>
      PROVE  Git!ToSet(s.parents[k]) = {p} /\ Git!FirstParent(s, k) = p
  BY <1>2 DEF Git!ToSet, Git!FirstParent
<1>3. ASSUME NEW p, NEW q, s.parents[k] = <<p, q>>
      PROVE  Git!ToSet(s.parents[k]) = {p, q} /\ Git!FirstParent(s, k) = p
  BY <1>3 DEF Git!ToSet, Git!FirstParent
<1> QED BY <1>1, <1>2, <1>3

\* The history of each of its commits
LEMMA HistoriesAre ==
  ASSUME NEW i
  PROVE  LET s == storeOf(i)
         IN  /\ Git!History(s, c1) = {c1}
             /\ Git!History(s, c2) = {c1, c2}
             /\ Git!History(s, c3) = IF i.shape = "chain" THEN {c1, c2, c3} ELSE {c1, c3}
             /\ Joined(i) => Git!History(s, c4) = {c1, c2, c3, c4}
<1> DEFINE s == storeOf(i)
           commits == Git!Commits(s)
           Parents(k) == Git!ToSet(s.parents[k])
<1>1. /\ {c1, c2, c3} \subseteq commits
      /\ Joined(i) => c4 \in commits
      /\ Parents(c1) = {} /\ Parents(c2) = {c1}
      /\ Parents(c3) = IF i.shape = "chain" THEN {c2} ELSE {c1}
      /\ Joined(i) => Parents(c4) = {c2, c3}
  <2>1. /\ {c1, c2, c3} \subseteq commits
        /\ Joined(i) => c4 \in commits
        /\ s.parents[c1] = <<>> /\ s.parents[c2] = <<c1>>
        /\ s.parents[c3] = IF i.shape = "chain" THEN <<c2>> ELSE <<c1>>
        /\ Joined(i) => s.parents[c4] = <<Ours(i), Theirs(i)>>
    BY StoresAre
  <2> HIDE DEF s, commits
  <2>2. {Ours(i), Theirs(i)} = {c2, c3} BY DEF Ours, Theirs
  <2> QED BY <2>1, <2>2, ParentsAre
<1>2. \A k \in commits : k \in Git!History(s, k) BY HistoryHasTheCommit
<1>3. \A k : \A d \in Git!History(s, k) : Parents(d) \cap commits \subseteq Git!History(s, k)
  BY HistoryHasParents
<1>4. \A k : \A known \in SUBSET commits :
        k \in known /\ (\A d \in known : Parents(d) \subseteq known)
        => Git!History(s, k) \subseteq known
  BY HistoryIsLeast
<1> HIDE DEF s, commits, Parents
<1>5. Git!History(s, c1) = {c1}
  <2>1. Git!History(s, c1) \subseteq {c1} BY <1>1, <1>4
  <2> QED BY <1>1, <1>2, <2>1
<1>6. Git!History(s, c2) = {c1, c2}
  <2>1. Git!History(s, c2) \subseteq {c1, c2}
    <3>1. {c1, c2} \in SUBSET commits /\ c2 \in {c1, c2} BY <1>1
    <3>2. \A d \in {c1, c2} : Parents(d) \subseteq {c1, c2} BY <1>1
    <3> QED BY <1>4, <3>1, <3>2
  <2> QED BY <1>1, <1>2, <1>3, <2>1
<1>7. Git!History(s, c3) = IF i.shape = "chain" THEN {c1, c2, c3} ELSE {c1, c3}
  <2>1. CASE i.shape = "chain"
    <3>1. Git!History(s, c3) \subseteq {c1, c2, c3}
      <4>1. {c1, c2, c3} \in SUBSET commits /\ c3 \in {c1, c2, c3} BY <1>1, <2>1
      <4>2. \A d \in {c1, c2, c3} : Parents(d) \subseteq {c1, c2, c3} BY <1>1, <2>1
      <4> QED BY <1>4, <4>1, <4>2
    <3>2. c3 \in Git!History(s, c3) /\ c2 \in Git!History(s, c3) BY <1>1, <1>2, <1>3, <2>1
    <3>3. c1 \in Git!History(s, c3) BY <1>1, <1>3, <3>2
    <3> QED BY <2>1, <3>1, <3>2, <3>3
  <2>2. CASE i.shape # "chain"
    <3>1. Git!History(s, c3) \subseteq {c1, c3}
      <4>1. {c1, c3} \in SUBSET commits /\ c3 \in {c1, c3} BY <1>1, <2>2
      <4>2. \A d \in {c1, c3} : Parents(d) \subseteq {c1, c3} BY <1>1, <2>2
      <4> QED BY <1>4, <4>1, <4>2
    <3>2. c3 \in Git!History(s, c3) /\ c1 \in Git!History(s, c3) BY <1>1, <1>2, <1>3, <2>2
    <3> QED BY <2>2, <3>1, <3>2
  <2> QED BY <2>1, <2>2
<1>8. ASSUME Joined(i) PROVE Git!History(s, c4) = {c1, c2, c3, c4}
  <2>1. Parents(c3) = {c1} BY <1>1, <1>8 DEF Joined
  <2>2. Git!History(s, c4) \subseteq {c1, c2, c3, c4}
    <3>1. {c1, c2, c3, c4} \in SUBSET commits /\ c4 \in {c1, c2, c3, c4} BY <1>1, <1>8, <2>1
    <3>2. \A d \in {c1, c2, c3, c4} : Parents(d) \subseteq {c1, c2, c3, c4} BY <1>1, <1>8, <2>1
    <3> QED BY <1>4, <3>1, <3>2
  <2>3. /\ c4 \in Git!History(s, c4) /\ c2 \in Git!History(s, c4)
        /\ c3 \in Git!History(s, c4)
    BY <1>1, <1>2, <1>3, <1>8
  <2>4. c1 \in Git!History(s, c4) BY <1>1, <1>3, <2>3
  <2> QED BY <2>2, <2>3, <2>4
<1> QED BY <1>5, <1>6, <1>7, <1>8 DEF s

\* The histories enumerated, and what a clean merge needs
LEMMA GitInputs ==
  ASSUME NEW i \in GitInput
  PROVE  /\ i.shape \in {"chain", "fork", "merge", "update"}
         /\ IsTree(i.x) /\ IsTree(i.y) /\ IsTree(i.z)
         /\ Joined(i) => Changes(i.x, i.y) \cap Changes(i.x, i.z) = {}
BY TreesAreTrees DEF GitInput, Joined

\* Every commit has a tree, its first parent is none or a commit.
LEMMA CommitsHaveTrees ==
  ASSUME NEW i \in GitInput, NEW k \in Git!Commits(storeOf(i))
  PROVE  LET s == storeOf(i)
             parent == Git!FirstParent(s, k)
         IN  /\ k # NULL /\ NULL \notin Git!Commits(s)
             /\ parent = NULL \/ parent \in Git!Commits(s)
             /\ Git!treeOf(s, k) = s.tree[k]
             /\ IsTree(s.tree[k])
             /\ IsTree(Git!treeOf(s, parent))
<1> DEFINE s == storeOf(i)
           commits == Git!Commits(s)
<1>1. /\ commits = {c1, c2, c3} \cup IF Joined(i) THEN {c4} ELSE {}
      /\ s.tree[c1] = i.x /\ s.tree[c2] = i.y /\ s.tree[c3] = i.z
      /\ Joined(i) => s.tree[c4] = Merged(i)
      /\ s.parents[c1] = <<>> /\ s.parents[c2] = <<c1>>
      /\ s.parents[c3] = IF i.shape = "chain" THEN <<c2>> ELSE <<c1>>
      /\ Joined(i) => s.parents[c4] = <<Ours(i), Theirs(i)>>
  BY StoresAre
<1>2. NULL \notin commits
  <2>1. NULL \notin {c1, c2, c3, c4} BY CommitAssumption
  <2> QED BY <1>1, <2>1
<1> HIDE DEF s
<1>3. /\ Git!FirstParent(s, c1) = NULL
      /\ Git!FirstParent(s, c2) = c1
      /\ Git!FirstParent(s, c3) = IF i.shape = "chain" THEN c2 ELSE c1
      /\ Joined(i) => Git!FirstParent(s, c4) = Ours(i)
  BY <1>1, ParentsAre
<1>4. \A d \in commits : IsTree(s.tree[d])
  <2>1. IsTree(i.x) /\ IsTree(i.y) /\ IsTree(i.z) BY GitInputs
  <2>2. IsTree(Merged(i)) BY <2>1, MergesAreTrees DEF Merged
  <2> QED BY <1>1, <2>1, <2>2
<1>5. \A d \in commits : Git!treeOf(s, d) = s.tree[d] BY <1>2, CommitsAreRefs
<1>6. \A d \in commits : Git!FirstParent(s, d) = NULL \/ Git!FirstParent(s, d) \in commits
  BY <1>1, <1>3 DEF Ours
<1>7. IsTree(Git!treeOf(s, NULL)) BY EmptyTreeIsATree DEF Git!treeOf
<1>8. k \in commits BY DEF s
<1>9. IsTree(Git!treeOf(s, Git!FirstParent(s, k))) BY <1>4, <1>5, <1>6, <1>7, <1>8
<1> QED BY <1>2, <1>4, <1>5, <1>6, <1>8, <1>9 DEF s

\* What is read of a file of such a tree
LEMMA TextsAre ==
  ASSUME NEW tree, IsTree(tree), NEW p
  PROVE  Git!entryOid(tree, p) \in {NULL, "1", "2", "bin"}
BY DEF Git!entryOid, IsTree, Text

\* Every commit is rebuilt from its first parent and the list of what it changed.
LEMMA CommitsRebuild ==
  ASSUME NEW i \in GitInput, NEW k \in Git!Commits(storeOf(i))
  PROVE  LET s     == storeOf(i)
             base  == Git!FirstParent(s, k)
             files == Git!commitChangedFiles(s, k)
         IN  /\ Blobs(Git!treeOf(s, k))
                  = {b \in Blobs(Git!treeOf(s, base)) : b[1] \notin {f.path : f \in files}}
                    \cup {<<f.path, f.newOid>> : f \in {g \in files : g.newOid # NULL}}
             /\ \A f \in files :
                  LET diff == Git!commitFileDiff(s, k, f.path)
                  IN /\ diff # NULL
                     /\ diff.isBinary = f.isBinary
                     /\ {diff.status, f.status} \cap {"ADDED", "DELETED"} # {}
                          => diff.status = f.status
<1> DEFINE s == storeOf(i)
           base == Git!FirstParent(s, k)
           files == Git!commitChangedFiles(s, k)
<1>1. /\ k # NULL /\ NULL \notin Git!Commits(s)
      /\ base = NULL \/ base \in Git!Commits(s)
      /\ IsTree(Git!treeOf(s, k)) /\ IsTree(Git!treeOf(s, base))
      /\ k \in Git!Commits(s)
  BY CommitsHaveTrees
<1>2. Apart(Git!treeOf(s, base), Git!treeOf(s, k)) BY <1>1, TreesApart
<1> HIDE DEF s
<1>3. files = Git!getChangedFiles(s, base, k) BY DEF Git!commitChangedFiles
<1> HIDE DEF files
<1>4. Blobs(Git!treeOf(s, k))
        = {b \in Blobs(Git!treeOf(s, base)) : b[1] \notin {f.path : f \in files}}
          \cup {<<f.path, f.newOid>> : f \in {g \in files : g.newOid # NULL}}
  BY <1>2, <1>3, DifferenceIsWhole
<1>5. ASSUME NEW f \in files
      PROVE  LET diff == Git!commitFileDiff(s, k, f.path)
             IN /\ diff # NULL
                /\ diff.isBinary = f.isBinary
                /\ {diff.status, f.status} \cap {"ADDED", "DELETED"} # {} => diff.status = f.status
  <2> DEFINE diff == Git!getFileDiffContent(s, base, k, f.path)
             Blob == {NULL, "1", "2", "bin"}
  <2>1. /\ Git!entryOid(Git!treeOf(s, base), f.path) \in Blob
        /\ Git!entryOid(Git!treeOf(s, k), f.path) \in Blob
        /\ NULL \in Blob
    BY <1>1, TextsAre
  <2>2. NULL \notin Difference(Blob) BY CommitAssumption DEF Difference
  <2> HIDE DEF base, Blob
  <2>3. /\ f.path # <<>> /\ diff \in Difference(Blob)
        /\ diff.isBinary = f.isBinary
        /\ {diff.status, f.status} \cap {"ADDED", "DELETED"} # {} => diff.status = f.status
    BY <1>1, <1>2, <1>3, <1>5, <2>1, FilesAgreeWithTheirList
  <2>4. Git!commitFileDiff(s, k, f.path) = diff BY <2>3 DEF Git!commitFileDiff, base
  <2> HIDE DEF diff
  <2> QED BY <2>2, <2>3, <2>4
<1> QED BY <1>4, <1>5 DEF s, files

\* The stores grow, and their files are at the paths of the run.
LEMMA StoresGrow ==
  ASSUME NEW i \in GitInput
  PROVE  LET s == storeOf(i)
         IN  /\ Grown(s) /\ FiledAt(s, Paths)
             /\ NoneBegins(Paths) /\ Paths \in SUBSET Seq({"d", "a", "b", "f"})
<1> DEFINE s == storeOf(i)
           commits == Git!Commits(s)
<1>1. /\ commits = {c1, c2, c3} \cup IF Joined(i) THEN {c4} ELSE {}
      /\ s.parents[c1] = <<>> /\ s.parents[c2] = <<c1>>
      /\ s.parents[c3] = IF i.shape = "chain" THEN <<c2>> ELSE <<c1>>
      /\ Joined(i) => s.parents[c4] = <<Ours(i), Theirs(i)>>
      /\ s.time[c1] = 1 /\ s.time[c2] = 2 /\ s.time[c3] = 3
      /\ Joined(i) => s.time[c4] = 4
  BY StoresAre
<1>2. NoneBegins(Paths) /\ Paths \in SUBSET Seq({"d", "a", "b", "f"})
  BY PathsApart DEF NoneBegins
<1>3. NULL \notin Text BY NullAssumption DEF Text
<1>4. \A k \in commits : IsTree(s.tree[k]) /\ NULL \notin commits BY CommitsHaveTrees
<1>5. NULL \notin commits
  <2>1. NULL \notin {c1, c2, c3, c4} BY CommitAssumption
  <2> QED BY <1>1, <2>1
<1> HIDE DEF s, commits
<1>6. FiledAt(s, Paths) BY <1>2, <1>3, <1>4 DEF FiledAt, IsTree, commits
<1>7. ASSUME NEW k \in commits
      PROVE  /\ s.time[k] \in Nat
             /\ s.parents[k] \in Seq(commits)
             /\ \A p \in Git!ToSet(s.parents[k]) : p \in commits /\ s.time[p] < s.time[k]
  <2>1. CASE k = c1
    <3>1. s.time[k] = 1 /\ s.parents[k] = <<>> BY <1>1, <2>1
    <3>2. Git!ToSet(s.parents[k]) = {} BY <3>1, ParentsAre
    <3>3. <<>> \in Seq(commits) OBVIOUS
    <3> QED BY <3>1, <3>2, <3>3
  <2>2. CASE k = c2
    <3>1. s.time[k] = 2 /\ s.parents[k] = <<c1>> BY <1>1, <2>2
    <3>2. Git!ToSet(s.parents[k]) = {c1} BY <3>1, ParentsAre
    <3>3. c1 \in commits /\ s.time[c1] = 1 /\ <<c1>> \in Seq(commits) BY <1>1
    <3> QED BY <3>1, <3>2, <3>3
  <2>3. CASE k = c3
    <3> DEFINE p == IF i.shape = "chain" THEN c2 ELSE c1
    <3>1. s.parents[k] = <<p>> BY <1>1, <2>3
    <3>2. p \in commits /\ s.time[p] \in 1 .. 2 BY <1>1
    <3> HIDE DEF p
    <3>3. Git!ToSet(s.parents[k]) = {p} BY <3>1, ParentsAre
    <3>4. s.time[k] = 3 BY <1>1, <2>3
    <3> QED BY <3>1, <3>2, <3>3, <3>4
  <2>4. CASE k = c4 /\ Joined(i)
    <3>1. Git!ToSet(s.parents[k]) = {Ours(i), Theirs(i)} BY <1>1, <2>4, ParentsAre
    <3>2. Ours(i) \in {c2, c3} /\ Theirs(i) \in {c2, c3} BY DEF Ours, Theirs
    <3>3. c2 \in commits /\ c3 \in commits BY <1>1
    <3>4. s.time[k] = 4 /\ s.parents[k] = <<Ours(i), Theirs(i)>> BY <1>1, <2>4
    <3> QED BY <1>1, <3>1, <3>2, <3>3, <3>4
  <2> QED BY <1>1, <2>1, <2>2, <2>3, <2>4
<1>8. Grown(s) BY <1>5, <1>7 DEF Grown, commits
<1> QED BY <1>2, <1>6, <1>8 DEF s

-----------------------------------------------------------------------------
(* The merges of the run *)

\* What a clean merge has from its second parent differs from its first.
LEMMA MergesBringChanges ==
  ASSUME NEW base, NEW ours, NEW theirs, IsTree(base), IsTree(ours), IsTree(theirs),
         Changes(base, ours) \cap Changes(base, theirs) = {},
         NEW path, Git!Under(base, path) # Git!Under(theirs, path)
  PROVE  Git!Under(ours, path) # Git!Under(MergeTree(base, ours, theirs), path)
<1> DEFINE merged == MergeTree(base, ours, theirs)
<1>1. IsTree(merged) BY MergesAreTrees
<1>2. Apart(base, theirs) /\ Apart(ours, merged) /\ Apart(base, ours)
  BY <1>1, TreesApart
<1>3. PICK p \in Git!collectChangedPaths(base, theirs) : Git!IsPrefix(path, p)
  BY <1>2, UnderDiffers
<1>4. p \in Files(base, theirs) /\ Git!entryOid(base, p) # Git!entryOid(theirs, p)
  BY <1>2, <1>3, ChangedPaths
<1>5. p \in Changes(base, theirs)
  BY <1>4 DEF Changes, Files, Git!entryOid
<1>6. p \notin Changes(base, ours) BY <1>5
<1>7. Git!entryOid(ours, p) = Git!entryOid(base, p)
  BY <1>6 DEF Changes, Git!entryOid
<1>8. /\ p \in DOMAIN merged <=> p \in DOMAIN theirs
      /\ p \in DOMAIN theirs => merged[p] = theirs[p]
  BY <1>5 DEF MergeTree
<1>9. Git!entryOid(merged, p) = Git!entryOid(theirs, p) BY <1>8 DEF Git!entryOid
<1>10. p \in Files(ours, merged)
  <2>1. CASE p \in DOMAIN theirs BY <1>8, <2>1 DEF Files
  <2>2. CASE p \notin DOMAIN theirs
    <3>1. p \in DOMAIN base BY <1>4, <2>2 DEF Files
    <3>2. p \in DOMAIN ours BY <1>6, <3>1 DEF Changes
    <3> QED BY <3>2 DEF Files
  <2> QED BY <2>1, <2>2
<1> HIDE DEF merged
<1>11. p \in Git!collectChangedPaths(ours, merged)
  BY <1>2, <1>4, <1>7, <1>9, <1>10, ChangedPaths
<1>12. Git!Under(ours, path) # Git!Under(merged, path) BY <1>2, <1>3, <1>11, UnderDiffers
<1> QED BY <1>12 DEF merged

\* The merges of the run are clean.
LEMMA StoresMergeCleanly ==
  ASSUME NEW i \in GitInput, NEW path, NEW tip \in Git!Commits(storeOf(i))
  PROVE  MergesAreClean(storeOf(i), tip, path)
<1> DEFINE s == storeOf(i)
           A(k) == At(s, k, path)
<1>1. /\ Git!History(s, c1) = {c1}
      /\ Git!History(s, c2) = {c1, c2}
      /\ Git!History(s, c3) = IF i.shape = "chain" THEN {c1, c2, c3} ELSE {c1, c3}
      /\ Joined(i) => Git!History(s, c4) = {c1, c2, c3, c4}
  BY HistoriesAre
<1>2. /\ s.parents[c1] = <<>> /\ s.parents[c2] = <<c1>>
      /\ s.parents[c3] = IF i.shape = "chain" THEN <<c2>> ELSE <<c1>>
      /\ Joined(i) => s.parents[c4] = <<Ours(i), Theirs(i)>>
      /\ Git!Commits(s) = {c1, c2, c3} \cup IF Joined(i) THEN {c4} ELSE {}
      /\ s.tree[c1] = i.x /\ s.tree[c2] = i.y /\ s.tree[c3] = i.z
      /\ Joined(i) => s.tree[c4] = Merged(i)
  BY StoresAre
<1>3. \A k \in Git!Commits(s) : Git!treeOf(s, k) = s.tree[k] BY CommitsHaveTrees
<1>4. Joined(i) /\ A(c1) # A(Theirs(i)) => A(Ours(i)) # A(c4)
  <2> SUFFICES ASSUME Joined(i), A(c1) # A(Theirs(i)) PROVE A(Ours(i)) # A(c4)
    OBVIOUS
  <2>1. /\ A(c1) = Git!Under(i.x, path) /\ A(c2) = Git!Under(i.y, path)
        /\ A(c3) = Git!Under(i.z, path)
        /\ A(c4) = Git!Under(Merged(i), path)
    BY <1>2, <1>3 DEF At
  <2>2. /\ IsTree(i.x) /\ IsTree(i.y) /\ IsTree(i.z)
        /\ Changes(i.x, i.y) \cap Changes(i.x, i.z) = {}
        /\ Changes(i.x, i.z) \cap Changes(i.x, i.y) = {}
    BY GitInputs
  <2> HIDE DEF A
  <2>3. CASE i.shape = "merge"
    <3>1. Ours(i) = c2 /\ Theirs(i) = c3 /\ Merged(i) = MergeTree(i.x, i.y, i.z)
      BY <2>3 DEF Ours, Theirs, Merged
    <3> QED BY <2>1, <2>2, <3>1, MergesBringChanges
  <2>4. CASE i.shape = "update"
    <3>1. Ours(i) = c3 /\ Theirs(i) = c2 /\ Merged(i) = MergeTree(i.x, i.z, i.y)
      BY <2>4 DEF Ours, Theirs, Merged
    <3> QED BY <2>1, <2>2, <3>1, MergesBringChanges
  <2> QED BY <2>3, <2>4 DEF Joined
<1> HIDE DEF s
<1>5. /\ Git!FirstParent(s, c2) = c1
      /\ Git!FirstParent(s, c3) = IF i.shape = "chain" THEN c2 ELSE c1
      /\ Joined(i) => Git!FirstParent(s, c4) = Ours(i)
  BY <1>2, ParentsAre
<1>6. ASSUME NEW k \in Git!History(s, tip), ~Alters(s, k, path),
             NEW p \in Git!ToSet(s.parents[k]), At(s, p, path) # At(s, k, path),
             NEW d \in Git!History(s, p) \ Git!History(s, Git!FirstParent(s, k))
      PROVE  ~Alters(s, d, path)
  <2>1. p # Git!FirstParent(s, k) BY <1>6 DEF Alters
  <2>2. k \in {c1, c2, c3} \/ (k = c4 /\ Joined(i)) BY <1>2, <1>6 DEF Git!History
  <2>3. k = c4 /\ Joined(i)
    <3> SUFFICES ASSUME k \in {c1, c2, c3} PROVE FALSE
      BY <2>2
    <3>1. s.parents[k] = <<>> \/ \E q : s.parents[k] = <<q>>
      <4>1. CASE k = c1 BY <1>2, <4>1
      <4>2. CASE k = c2 BY <1>2, <4>2
      <4>3. CASE k = c3
        <5>1. s.parents[k] = <<IF i.shape = "chain" THEN c2 ELSE c1>> BY <1>2, <4>3
        <5> QED BY <5>1
      <4> QED BY <4>1, <4>2, <4>3
    <3> QED BY <1>6, <2>1, <3>1, ParentsAre
  <2>4. p = Theirs(i)
    <3>1. Git!ToSet(s.parents[c4]) = {Ours(i), Theirs(i)} BY <1>2, <2>3, ParentsAre
    <3> QED BY <1>5, <1>6, <2>1, <2>3, <3>1
  <2>5. Git!History(s, c3) = {c1, c3} /\ Git!FirstParent(s, c3) = c1
    BY <1>1, <1>5, <2>3 DEF Joined
  <2>6. d = Theirs(i) BY <1>1, <1>5, <1>6, <2>3, <2>4, <2>5 DEF Ours, Theirs
  <2>7. Git!FirstParent(s, Theirs(i)) = c1 BY <1>5, <2>5 DEF Theirs
  <2>8. A(Ours(i)) = A(c4) BY <1>5, <1>6, <2>3 DEF Alters
  <2> HIDE DEF A
  <2>9. A(c1) = A(Theirs(i)) BY <1>4, <2>3, <2>8
  <2> QED BY <2>6, <2>7, <2>9 DEF Alters, A
<1> QED BY <1>6 DEF MergesAreClean, s

-----------------------------------------------------------------------------
(* Pull requests from "feature" to "main" *)

\* The tips of the two branches
LEMMA BranchesAre ==
  ASSUME NEW i
  PROVE  LET s == storeOf(i)
         IN  /\ Git!resolveRef(s, <<"refs/heads/", "feature">>) = From(i)
             /\ Git!resolveRef(s, <<"refs/heads/", "main">>) = Onto(i)
<1> DEFINE s == storeOf(i)
<1>1. /\ Git!Commits(s) \subseteq {c1, c2, c3, c4}
      /\ DOMAIN s.heads = {"main", "feature"}
      /\ s.heads["feature"] = From(i)
      /\ s.heads["main"] = Onto(i)
  BY StoresAre
<1> HIDE DEF s
<1>2. ASSUME NEW b \in {"main", "feature"}
      PROVE  Git!resolveRef(s, <<"refs/heads/", b>>) = s.heads[b]
  <2>1. <<"refs/heads/", b>> \notin Git!Commits(s) BY <1>1, CommitAssumption
  <2> QED BY <1>1, <2>1 DEF Git!resolveRef
<1> QED BY <1>1, <1>2 DEF s

\* Where feature left main: the newest commit of both
LEMMA MergeBaseIs ==
  ASSUME NEW i \in GitInput
  PROVE  LET s == storeOf(i)
         IN  Git!getMergeBase(s, <<"refs/heads/", "main">>, <<"refs/heads/", "feature">>)
               = CASE i.shape = "merge" -> c3
                   [] i.shape = "update" -> c2
                   [] OTHER -> Git!FirstParent(s, c3)
<1> DEFINE s == storeOf(i)
           x == Git!resolveRef(s, <<"refs/heads/", "main">>)
           y == Git!resolveRef(s, <<"refs/heads/", "feature">>)
           common == Git!History(s, x) \cap Git!History(s, y)
           base == Git!getMergeBase(s, <<"refs/heads/", "main">>, <<"refs/heads/", "feature">>)
<1>1. x = Onto(i) /\ y = From(i) BY BranchesAre
<1>2. /\ Git!History(s, c2) = {c1, c2}
      /\ Git!History(s, c3) = IF i.shape = "chain" THEN {c1, c2, c3} ELSE {c1, c3}
      /\ Joined(i) => Git!History(s, c4) = {c1, c2, c3, c4}
  BY HistoriesAre
<1>3. s.time[c1] = 1 /\ s.time[c2] = 2 /\ s.time[c3] = 3
  BY StoresAre
<1>4. s.parents[c3] = IF i.shape = "chain" THEN <<c2>> ELSE <<c1>> BY StoresAre
<1>5. Git!FirstParent(s, c3) = IF i.shape = "chain" THEN c2 ELSE c1 BY <1>4, ParentsAre
<1>6. x # NULL /\ y # NULL BY <1>1, CommitAssumption DEF Onto, From
<1>7. common # {} => base = CHOOSE k \in common : \A d \in common : s.time[d] <= s.time[k]
  BY <1>6 DEF Git!getMergeBase
<1> HIDE DEF s, x, y, base
<1>8. CASE i.shape = "chain"
  <2>1. common = {c1, c2} BY <1>1, <1>2, <1>8, CommitAssumption DEF Onto, From
  <2> HIDE DEF common
  <2>2. \A k \in common : (\A d \in common : s.time[d] <= s.time[k]) <=> k = c2
    BY <1>3, <2>1
  <2>3. base = c2 BY <1>7, <2>1, <2>2
  <2> QED BY <1>5, <1>8, <2>3 DEF base, s
<1>9. CASE i.shape = "fork"
  <2>1. common = {c1} BY <1>1, <1>2, <1>9, CommitAssumption DEF Onto, From
  <2> HIDE DEF common
  <2>2. \A k \in common : (\A d \in common : s.time[d] <= s.time[k]) <=> k = c1
    BY <1>3, <2>1
  <2>3. base = c1 BY <1>7, <2>1, <2>2
  <2> QED BY <1>5, <1>9, <2>3 DEF base, s
<1>10. CASE i.shape = "merge"
  <2>1. common = {c1, c3} BY <1>1, <1>2, <1>10, CommitAssumption DEF Onto, From, Joined
  <2> HIDE DEF common
  <2>2. \A k \in common : (\A d \in common : s.time[d] <= s.time[k]) <=> k = c3
    BY <1>3, <2>1
  <2>3. base = c3 BY <1>7, <2>1, <2>2
  <2> QED BY <1>10, <2>3 DEF base, s
<1>11. CASE i.shape = "update"
  <2>1. common = {c1, c2} BY <1>1, <1>2, <1>11, CommitAssumption DEF Onto, From, Joined
  <2> HIDE DEF common
  <2>2. \A k \in common : (\A d \in common : s.time[d] <= s.time[k]) <=> k = c2
    BY <1>3, <2>1
  <2>3. base = c2 BY <1>7, <2>1, <2>2
  <2> QED BY <1>11, <2>3 DEF base, s
<1> QED BY <1>8, <1>9, <1>10, <1>11, GitInputs

\* A pull request of the run shows its work: its source parted on its own line, or
\* merged in all that main had.
LEMMA PullShowsItsWork ==
  ASSUME NEW i \in GitInput
  PROVE  LET s    == storeOf(i)
             pull == [sourceBranch |-> "feature", targetBranch |-> "main"]
             work == Git!History(s, s.heads["feature"]) \ Git!History(s, s.heads["main"])
         IN  \A f \in Git!pullRequestChangedFiles(s, pull) :
               \E k \in work : f.path \in {g.path : g \in Git!commitChangedFiles(s, k)}
<1> DEFINE s    == storeOf(i)
           pull == [sourceBranch |-> "feature", targetBranch |-> "main"]
           base == Git!getMergeBase(s, <<"refs/heads/", "main">>, <<"refs/heads/", "feature">>)
           Shown == \A f \in Git!pullRequestChangedFiles(s, pull) :
                      \E k \in Git!History(s, From(i)) \ Git!History(s, Onto(i)) :
                        f.path \in {g.path : g \in Git!commitChangedFiles(s, k)}
<1>1. /\ Git!resolveRef(s, <<"refs/heads/", "feature">>) = From(i)
      /\ Git!resolveRef(s, <<"refs/heads/", "main">>) = Onto(i)
  BY BranchesAre
<1>2. /\ {c1, c2, c3} \subseteq Git!Commits(s)
      /\ From(i) \in Git!Commits(s) /\ Onto(i) \in Git!Commits(s)
      /\ s.heads["feature"] = From(i) /\ s.heads["main"] = Onto(i)
      /\ s.parents[c3] # <<>>
  <2>1. /\ Git!Commits(s) = {c1, c2, c3} \cup IF Joined(i) THEN {c4} ELSE {}
        /\ s.heads["feature"] = From(i) /\ s.heads["main"] = Onto(i)
        /\ s.parents[c3] = IF i.shape = "chain" THEN <<c2>> ELSE <<c1>>
    BY StoresAre
  <2>2. s.parents[c3] # <<>> BY <2>1
  <2> HIDE DEF s
  <2> QED BY <2>1, <2>2 DEF From, Onto, Joined
<1>3. /\ Grown(s) /\ FiledAt(s, Paths) /\ Paths \in SUBSET Seq({"d", "a", "b", "f"})
  BY StoresGrow
<1>4. base = CASE i.shape = "merge" -> c3
               [] i.shape = "update" -> c2
               [] OTHER -> Git!FirstParent(s, c3)
  BY MergeBaseIs
<1>5. \A path : MergesAreClean(s, From(i), path) BY <1>2, StoresMergeCleanly
<1>6. /\ Git!History(s, c2) = {c1, c2}
      /\ i.shape = "update" => Git!History(s, c4) = {c1, c2, c3, c4}
  BY HistoriesAre DEF Joined
<1>7. pull.sourceBranch = "feature" /\ pull.targetBranch = "main" OBVIOUS
<1> HIDE DEF s, base, pull
<1>8. ASSUME i.shape # "update" PROVE Shown
  <2>1. From(i) = c3 BY <1>8 DEF From
  <2>2. base \in Line(s, c3)
    <3>1. Git!FirstParent(s, c3) # NULL
      <4>1. Git!FirstParent(s, c3) \in Git!Commits(s) BY <1>2, <1>3, FirstParents DEF Grown
      <4> QED BY <1>3, <4>1 DEF Grown
    <3>2. c3 \in Line(s, c3) /\ Git!FirstParent(s, c3) \in Line(s, c3)
      BY <1>2, <1>3, <3>1, LinesGoOn
    <3> QED BY <1>4, <1>8, <3>2
  <2> QED BY <1>1, <1>2, <1>3, <1>7, <2>1, <2>2, PullRequestsShowTheirWork DEF base
<1>9. ASSUME i.shape = "update" PROVE Shown
  <2>1. base = c2 /\ From(i) = c4 /\ Onto(i) = c2 BY <1>4, <1>9 DEF From, Onto
  <2>2. Git!History(s, Onto(i)) \cap Git!History(s, From(i)) \subseteq Git!History(s, base)
    BY <1>6, <1>9, <2>1
  <2>3. base \in Git!Commits(s) BY <1>2, <2>1
  <2>4. SUFFICES ASSUME NEW f \in Git!pullRequestChangedFiles(s, pull)
                 PROVE  \E k \in Git!History(s, From(i)) \ Git!History(s, Onto(i)) :
                          f.path \in {g.path : g \in Git!commitChangedFiles(s, k)}
    OBVIOUS
  <2>5. MergesAreClean(s, From(i), f.path) BY <1>5
  <2> QED BY <1>1, <1>2, <1>3, <1>7, <2>2, <2>3, <2>4, <2>5, UpdatedPullRequestsShowTheirWork
          DEF base
<1>10. Shown BY <1>8, <1>9
<1> QED BY <1>2, <1>10 DEF s, pull

\* Differences, over every history of the run (MCDecisions!DifferencesHold)
LEMMA HistoriesAddUp ==
  ASSUME input.family = "git" => input \in GitInput
  PROVE  DifferencesHold
<1>1. ASSUME input.family = "git", NEW commit \in DOMAIN store.tree
      PROVE  LET base    == Git!FirstParent(store, commit)
                 files   == Git!commitChangedFiles(store, commit)
                 listed  == {f.path : f \in files}
                 BlobsOf(ref) == {<<p, Git!treeOf(store, ref)[p].oid>> :
                                    p \in DOMAIN Git!treeOf(store, ref)}
             IN /\ BlobsOf(commit) = {b \in BlobsOf(base) : b[1] \notin listed}
                                     \cup {<<f.path, f.newOid>> : f \in {g \in files : g.newOid # NULL}}
                /\ \A f \in files :
                     LET diff == Git!commitFileDiff(store, commit, f.path)
                     IN /\ diff # NULL
                        /\ diff.isBinary = f.isBinary
                        /\ {diff.status, f.status} \cap {"ADDED", "DELETED"} # {}
                             => diff.status = f.status
  <2>1. input \in GitInput /\ commit \in Git!Commits(storeOf(input))
    BY <1>1 DEF store, Git!Commits
  <2> QED BY <2>1, CommitsRebuild DEF store, Blobs
<1>2. ChangedFilesRebuildHead BY <1>1 DEF ChangedFilesRebuildHead
<1>3. PullRequestShowsItsOwnWork BY PullShowsItsWork DEF PullRequestShowsItsOwnWork, store
<1> QED BY <1>2, <1>3 DEF DifferencesHold

\* The files listed and their differences make the head of every commit, and a pull
\* request lists its source's work alone (MCDecisions!DifferencesHold).
THEOREM DifferencesAlwaysHold == DecisionsSpec => []DifferencesHold
<1>1. input \in Inputs => DifferencesHold BY Families, HistoriesAddUp
<1> QED BY <1>1, InputInvariant, PTL

-----------------------------------------------------------------------------
(* Pages of a history *)

\* What is enumerated is dated, and short.
LEMMA HistoriesAreDated ==
  ASSUME NEW i, NEW k
  PROVE  LET s == storeOf(i)
         IN  Dated(s, Git!History(s, k)) /\ Cardinality(Git!History(s, k)) <= 4
<1> DEFINE s == storeOf(i)
           H == Git!History(s, k)
           all == {c1, c2, c3, c4}
<1>1. /\ H \subseteq all
      /\ c4 \in H => Joined(i)
      /\ s.time[c1] = 1 /\ s.time[c2] = 2 /\ s.time[c3] = 3
      /\ Joined(i) => s.time[c4] = 4
  <2>1. H \subseteq Git!Commits(s) BY DEF Git!History
  <2>2. Git!Commits(s) = {c1, c2, c3} \cup IF Joined(i) THEN {c4} ELSE {}
    BY StoresAre
  <2>3. c4 \notin {c1, c2, c3} BY CommitAssumption
  <2> QED BY <2>1, <2>2, <2>3, StoresAre
<1>2. IsFiniteSet(all) /\ Cardinality(all) <= 4
  <2> DEFINE a == {c1}
             b == a \cup {c2}
             d == b \cup {c3}
             e == d \cup {c4}
  <2>1. IsFiniteSet(a) /\ Cardinality(a) = 1 BY FS_Singleton
  <2> HIDE DEF a
  <2>2. IsFiniteSet(b) /\ Cardinality(b) \in 1 .. 2 BY <2>1, FS_AddElement
  <2> HIDE DEF b
  <2>3. IsFiniteSet(d) /\ Cardinality(d) \in 1 .. 3 BY <2>2, FS_AddElement
  <2> HIDE DEF d
  <2>4. IsFiniteSet(e) /\ Cardinality(e) \in 1 .. 4 BY <2>3, FS_AddElement
  <2>5. all = e BY DEF a, b, d
  <2> HIDE DEF e, all
  <2> QED BY <2>4, <2>5
<1> HIDE DEF s, H, all
<1>3. IsFiniteSet(H) /\ Cardinality(H) <= 4
  <2>1. IsFiniteSet(H) /\ Cardinality(H) <= Cardinality(all) BY <1>1, <1>2, FS_Subset
  <2>2. Cardinality(H) \in Nat /\ Cardinality(all) \in Nat
    BY <1>2, <2>1, FS_CardinalityType
  <2> QED BY <1>2, <2>1, <2>2
<1>4. \A d \in H : d \in {c1, c2, c3} \/ (d = c4 /\ Joined(i))
  <2> SUFFICES ASSUME NEW d \in H, d \notin {c1, c2, c3} PROVE d = c4 /\ Joined(i)
    OBVIOUS
  <2>1. d \in {c1, c2, c3, c4} BY <1>1 DEF all
  <2>2. d = c4 BY <2>1
  <2> QED BY <1>1, <2>2
<1>5. Dated(s, H) BY <1>1, <1>3, <1>4 DEF Dated
<1> QED BY <1>3, <1>5 DEF s, H

\* The pages of one size, four of them, and the default page make any log of at
\* most four commits.
LEMMA FourPages ==
  ASSUME NEW s, NEW k, NEW S, Git!NewestFirst(s, k) \in Seq(S), Len(Git!NewestFirst(s, k)) <= 4,
         NEW size \in 1 .. 3
  PROVE  LET log == Git!NewestFirst(s, k)
             Page(n) == Git!commitHistory(s, k, size, size * n)
         IN  /\ log = Page(0) \o Page(1) \o Page(2) \o Page(3)
             /\ log = Git!commitHistory(s, k, NULL, NULL)
<1> DEFINE log == Git!NewestFirst(s, k)
           Page(n) == Git!commitHistory(s, k, size, size * n)
           Got(depth, skip) == Git!getLog(s, k, depth, skip)
<1>1. log \in Seq(S) /\ Len(log) <= 4 /\ Len(log) \in Nat BY LenProperties
<1>2. \A depth, skip \in Nat : First(log, skip) \o Got(depth, skip) = First(log, skip + depth)
  BY PagesAddUp
<1>3. First(log, 0) = <<>> BY <1>1, SubSeqEmpty DEF First
<1>4. \A n \in Nat : n >= 4 => First(log, n) = log
  <2> SUFFICES ASSUME NEW n \in Nat, n >= 4 PROVE First(log, n) = log
    OBVIOUS
  <2>1. (IF n <= Len(log) THEN n ELSE Len(log)) = Len(log) BY <1>1
  <2> QED BY <1>1, <2>1, SubSeqFull DEF First
<1>5. \A depth, skip \in Nat : Got(depth, skip) \in Seq(S)
  <2> SUFFICES ASSUME NEW depth \in Nat, NEW skip \in Nat PROVE Got(depth, skip) \in Seq(S)
    OBVIOUS
  <2> DEFINE m == Git!Min({depth + skip, Len(log)})
             read == SubSeq(log, 1, m)
  <2>1. depth + skip \in Nat OBVIOUS
  <2>2. m \in Nat /\ m <= Len(log) BY <1>1, <2>1, Lesser
  <2>3. Got(depth, skip) = SubSeq(read, skip + 1, Len(read)) BY DEF Git!getLog
  <2> HIDE DEF m, log
  <2>4. \A j \in 1 .. m : log[j] \in S BY <1>1, <2>2, ElementOfSeq
  <2>5. read \in Seq(S) BY <1>1, <2>2, <2>4, SubSeqProperties
  <2> HIDE DEF read
  <2>6. Len(read) \in Nat /\ \A j \in 1 .. Len(read) : read[j] \in S
    BY <2>5, LenProperties, ElementOfSeq
  <2>7. \A j \in (skip + 1) .. Len(read) : read[j] \in S BY <2>6
  <2>8. SubSeq(read, skip + 1, Len(read)) \in Seq(S) BY <2>5, <2>6, <2>7, SubSeqProperties
  <2> QED BY <2>3, <2>8
<1>6. \A n \in 0 .. 3 : Page(n) = Got(size, size * n)
  <2> SUFFICES ASSUME NEW n \in 0 .. 3 PROVE Page(n) = Got(size, size * n)
    OBVIOUS
  <2>1. size \in 0 .. 9 /\ size * n \in 0 .. 9
    <3>1. size = 1 \/ size = 2 \/ size = 3 OBVIOUS
    <3>2. n = 0 \/ n = 1 \/ n = 2 \/ n = 3 OBVIOUS
    <3> QED BY <3>1, <3>2
  <2>2. size # NULL /\ size * n # NULL BY <2>1, NullAssumption
  <2> QED BY <2>2 DEF Git!commitHistory
<1>7. Git!commitHistory(s, k, NULL, NULL) = Got(20, 0) BY DEF Git!commitHistory
<1> HIDE DEF log, Page, Got
<1>8. Page(0) = Got(size, 0) /\ Page(1) = Got(size, size)
      /\ Page(2) = Got(size, size + size) /\ Page(3) = Got(size, size + size + size)
  <2>1. /\ size * 0 = 0 /\ size * 1 = size
        /\ size * 2 = size + size /\ size * 3 = size + size + size
    OBVIOUS
  <2> QED BY <1>6, <2>1
<1>9. /\ 0 \in Nat /\ size \in Nat /\ size + size \in Nat /\ size + size + size \in Nat
      /\ 0 + size = size
  OBVIOUS
<1>10. Page(0) = First(log, size)
  <2>1. First(log, 0) \o Got(size, 0) = First(log, 0 + size) BY <1>2, <1>9
  <2>2. <<>> \o Got(size, 0) = Got(size, 0) BY <1>5, <1>9, ConcatEmptySeq
  <2> QED BY <1>3, <1>8, <1>9, <2>1, <2>2
<1>11. Page(0) \o Page(1) = First(log, size + size)
  <2>1. First(log, size) \o Got(size, size) = First(log, size + size) BY <1>2, <1>9
  <2> QED BY <1>8, <1>10, <2>1
<1>12. Page(0) \o Page(1) \o Page(2) = First(log, size + size + size)
  <2>1. First(log, size + size) \o Got(size, size + size) = First(log, size + size + size)
    BY <1>2, <1>9
  <2> QED BY <1>8, <1>11, <2>1
<1>13. Page(0) \o Page(1) \o Page(2) \o Page(3) = First(log, size + size + size + size)
  <2>1. First(log, size + size + size) \o Got(size, size + size + size)
          = First(log, size + size + size + size)
    BY <1>2, <1>9
  <2> QED BY <1>8, <1>12, <2>1
<1>14. size + size + size + size >= 4 OBVIOUS
<1>15. First(log, size + size + size + size) = log
  <2>1. size + size + size + size \in Nat OBVIOUS
  <2> QED BY <1>4, <1>14, <2>1
<1>16. <<>> \o Got(20, 0) = Got(20, 0) BY <1>5, ConcatEmptySeq
<1>17. First(log, 0 + 20) = log BY <1>4
<1>18. Got(20, 0) = log BY <1>2, <1>3, <1>16, <1>17
<1> QED BY <1>7, <1>13, <1>15, <1>18 DEF log, Page

\* The pages of main's history (MCDecisions!PagesMakeTheHistory)
LEMMA PagesAreTheLog ==
  ASSUME input.family = "git" => input \in GitInput
  PROVE  PagesMakeTheHistory
<1> DEFINE tip == Git!resolveRef(store, main)
<1>1. tip \in Git!Commits(store) /\ tip # NULL
  <2>1. tip = Onto(input) BY BranchesAre DEF store, main
  <2>2. Git!Commits(store) = {c1, c2, c3} \cup IF Joined(input) THEN {c4} ELSE {}
    BY StoresAre DEF store
  <2> QED BY <2>1, <2>2, CommitAssumption DEF Onto, Joined
<1> HIDE DEF tip
<1>2. Git!resolveRef(store, tip) = tip BY <1>1, CommitsAreRefs
<1>3. Dated(store, Git!History(store, tip)) /\ Cardinality(Git!History(store, tip)) <= 4
  BY HistoriesAreDated DEF store
<1>4. /\ Git!NewestFirst(store, tip) \in Seq(Git!History(store, tip))
      /\ Len(Git!NewestFirst(store, tip)) <= 4
  BY <1>1, <1>2, <1>3, LogIsTheHistory
<1>5. \A size \in 1 .. 3 :
        LET log == Git!NewestFirst(store, tip)
            Page(n) == Git!commitHistory(store, tip, size, size * n)
        IN  /\ log = Page(0) \o Page(1) \o Page(2) \o Page(3)
            /\ log = Git!commitHistory(store, tip, NULL, NULL)
  BY <1>4, FourPages
<1>6. 1 \in 1 .. 3 OBVIOUS
<1> QED BY <1>5, <1>6 DEF PagesMakeTheHistory, tip

-----------------------------------------------------------------------------
(* The entries in the histories of the run *)

\* Every entry of the file browser (MCDecisions!EntriesShowTheirLastCommit)
LEMMA EntriesAreLastChanged ==
  ASSUME input.family = "git" => input \in GitInput
  PROVE  EntriesShowTheirLastCommit
<1> DEFINE tip == Git!resolveRef(store, main)
           A(commit, path) == Git!Under(Git!treeOf(store, commit), path)
           Name == {"d", "a", "b", "f"}
<1> SUFFICES ASSUME input.family = "git",
                    NEW directory \in {<<>>, <<"d">>},
                    NEW entry \in Git!getTree(store, main, directory)
             PROVE  \E last \in Git!getTreeLastCommits(store, main, directory) :
                      LET path == Append(directory, entry.path)
                      IN /\ last.path = entry.path
                         /\ A(last.commitOid, path) = A(tip, path)
                         /\ A(last.commitOid, path)
                              # A(Git!FirstParent(store, last.commitOid), path)
  BY DEF EntriesShowTheirLastCommit
<1>1. tip \in Git!Commits(store)
  <2>1. tip = Onto(input) BY BranchesAre DEF store, main
  <2>2. Git!Commits(store) = {c1, c2, c3} \cup IF Joined(input) THEN {c4} ELSE {}
    BY StoresAre DEF store
  <2> QED BY <2>1, <2>2 DEF Onto, Joined
<1>2. /\ Grown(store) /\ FiledAt(store, Paths) /\ Paths \in SUBSET Seq(Name)
  BY StoresGrow DEF store
<1>3. Dated(store, Git!History(store, tip)) BY HistoriesAreDated DEF store
<1>4. directory \in Seq(Name)
  <2>1. <<>> \in Seq(Name) /\ <<"d">> \in Seq(Name) OBVIOUS
  <2> HIDE DEF Name
  <2> QED BY <2>1
<1>5. MergesAreClean(store, tip, Append(directory, entry.path))
  BY <1>1, StoresMergeCleanly DEF store
<1> HIDE DEF Name
<1>6. \E last \in Git!getTreeLastCommits(store, main, directory) :
        LET path == Append(directory, entry.path)
        IN /\ last.path = entry.path
           /\ At(store, last.commitOid, path) = At(store, tip, path)
           /\ Alters(store, last.commitOid, path)
  BY <1>1, <1>2, <1>3, <1>4, <1>5, EntriesAreShownAsTheyCame
<1> QED BY <1>6 DEF Alters, At

\* The pages of a history are its log, and the file browser names for every entry a
\* commit that made it what it is (MCDecisions!HistoryViewsHold).
THEOREM HistoryViewsAlwaysHold == DecisionsSpec => []HistoryViewsHold
<1>1. input \in Inputs => HistoryViewsHold
  BY Families, PagesAreTheLog, EntriesAreLastChanged DEF HistoryViewsHold
<1> QED BY <1>1, InputInvariant, PTL
==============================================================================
