----------------------------- MODULE PushProofs -----------------------------
(***************************************************************************)
(* Theorems about Push, for every set of requests, scans, commits and      *)
(* files, and any number of pushes.                                        *)
(***************************************************************************)
EXTENDS Push, FiniteSetTheorems, WellFoundedInduction, TLAPS

-----------------------------------------------------------------------------
(***************************************************************************)
(* Type correctness.  The request side and the scan side are written by    *)
(* different actions, and change little of each other.                     *)
(***************************************************************************)

Caller == {Idle} \cup Received \cup Measured \cup Checked

PushType ==
  /\ tip \in Commit /\ protected \in BOOLEAN
  /\ bytes \in [Repository -> Nat] /\ cache \in [Repository -> Nat] /\ blind \in [Repository -> Nat]
  /\ pushes \in Nat
  /\ handler \in [Handler -> Caller]

ScanType ==
  /\ due \subseteq ScanKind /\ alone \subseteq Scanner /\ exact \subseteq ScanKind
  /\ DOMAIN scan = Scanner /\ DOMAIN rows = Kind
  /\ \A d \in Scanner : \/ scan[d] \in {Idle} \cup Reading
                        \/ scan[d].pc = "insert" /\ scan[d].kind \in ScanKind

EdgesResolve ==
  /\ candidate \subseteq Candidates
  /\ \A r \in rows["internal"] \cup rows["projects"] : r.name \in candidate

LEMMA TypeParts == TypeOK <=> PushType /\ ScanType /\ EdgesResolve
BY DEF TypeOK, PushType, ScanType, EdgesResolve, Caller

LEMMA Bounds == Limit \in Nat /\ MaxPushes \in Nat /\ Missing \in Nat /\ FirstCommit \in Commit
BY PushParameters DEF Missing

LEMMA TypeInit == Init => TypeOK
<1> SUFFICES ASSUME Init PROVE TypeOK
    OBVIOUS
<1>1. PushType
  BY Bounds DEF Init, PushType, Caller
<1>2. ScanType
  BY DEF Init, ScanType
<1>3. /\ rows["internal"] = {[name |-> n, by |-> ManualRow] : n \in Manual \cap candidate}
      /\ rows["projects"] = {[name |-> n, by |-> ManualRow] : n \in Manual \cap candidate}
  BY DEF Init, Kind
<1>4. EdgesResolve
  BY <1>3 DEF Init, EdgesResolve
<1> QED
  BY <1>1, <1>2, <1>4, TypeParts

\* What a request does leaves the scans alone, but for those it starts and disturbs.
MeasureStep(h) ==
  \/ getOrganizationStorageBytes(h) \/ isWithinLimit(h)
  \/ \E r \in Repository : getRepositorySize(h, r) \/ WalkFails(h, r)

RequestStep(h) ==
  \/ \E r \in Repository : StartPush(h, r)
  \/ MeasureStep(h) \/ Refuse(h) \/ ReadRules(h)
  \/ \E new \in Commit \ {tip} : receivePack(h, new)
  \/ ReceiveFails(h) \/ AfterPush(h)

ScanStep(d) ==
  \/ \E k \in ScanKind : StartScan(d, k)
  \/ \E p \in Path : ReadFile(d, p)
  \/ EndReading(d) \/ DeleteRows(d) \/ InsertRows(d) \/ ScanFails(d)

Expires == \E r \in Repository : ExpireSize(r)

LEMMA NextParts ==
  [Next]_vars => \/ \E h \in Handler : RequestStep(h)
                 \/ \E d \in Scanner : ScanStep(d)
                 \/ \E n \in Deletable : DeleteCandidate(n)
                 \/ CreateRule \/ Expires
                 \/ UNCHANGED vars
BY DEF Next, RequestStep, MeasureStep, ScanStep, Expires

\* A request writes no row.
LEMMA RequestsLeaveRows ==
  ASSUME NEW h \in Handler, RequestStep(h)
  PROVE  UNCHANGED <<scan, rows, candidate, protected>>
BY DEF RequestStep, StartPush, MeasureStep, getOrganizationStorageBytes,
       getRepositorySize, WalkFails, isWithinLimit, Refuse, ReadRules, receivePack,
       ReceiveFails, AfterPush, graph, storage

\* A scan writes nothing a request reads.
LEMMA ScansLeaveRequests ==
  ASSUME NEW d \in Scanner, ScanStep(d)
  PROVE  UNCHANGED <<tip, protected, bytes, cache, blind, handler, pushes, candidate>>
BY DEF ScanStep, StartScan, ReadFile, EndReading, DeleteRows, InsertRows, ScanFails, ScanOnly, storage

LEMMA WalkersAreTyped ==
  ASSUME PushType, NEW h \in Handler, handler[h].pc = "walk"
  PROVE  handler[h] \in Measured
<1>1. handler[h] \in Caller
  BY DEF PushType
<1> QED
  BY <1>1 DEF Caller, Received, Measured, Checked, Idle

\* What a walk that ends, or fails, makes of the request
LEMMA WalkEnds ==
  ASSUME PushType, NEW h \in Handler, NEW q \in Repository, getRepositorySize(h, q)
  PROVE  /\ handler[h] \in Measured /\ handler[h].pc = "walk" /\ q \in handler[h].walking
         /\ handler'[h].pc = "walk" /\ handler'[h].ruled = handler[h].ruled
         /\ handler'[h].walking = handler[h].walking \ {q}
         /\ handler'[h].failed = handler[h].failed
         /\ \E size \in handler[h].size[q] .. bytes[q] :
              /\ handler'[h].size = [handler[h].size EXCEPT ![q] = size]
              /\ cache' = [cache EXCEPT ![q] = size]
         /\ \A g \in Handler : g # h => handler'[g] = handler[g]
<1>1. handler[h] \in Measured /\ handler[h].pc = "walk" /\ q \in handler[h].walking
  BY WalkersAreTyped DEF getRepositorySize
<1>2. PICK size \in handler[h].size[q] .. bytes[q] :
        /\ cache' = [cache EXCEPT ![q] = size]
        /\ Become(h, [handler[h] EXCEPT !.size = SizeWith(h, q, size), !.walking = @ \ {q}])
  BY DEF getRepositorySize
<1> DEFINE record == [handler[h] EXCEPT !.size = SizeWith(h, q, size), !.walking = @ \ {q}]
<1>3. /\ record.pc = "walk" /\ record.ruled = handler[h].ruled
      /\ record.walking = handler[h].walking \ {q}
      /\ record.failed = handler[h].failed
      /\ record.size = SizeWith(h, q, size)
  BY <1>1 DEF Measured
<1>4. handler'[h] = record /\ \A g \in Handler : g # h => handler'[g] = handler[g]
  BY <1>2 DEF Become, PushType
<1> HIDE DEF record
<1> QED
  BY <1>1, <1>2, <1>3, <1>4 DEF SizeWith

LEMMA WalkIsCut ==
  ASSUME PushType, NEW h \in Handler, NEW q \in Repository, WalkFails(h, q)
  PROVE  /\ handler[h] \in Measured /\ handler[h].pc = "walk" /\ q \in handler[h].walking
         /\ handler'[h].pc = "walk" /\ handler'[h].ruled = handler[h].ruled
         /\ handler'[h].walking = handler[h].walking \ {q}
         /\ handler'[h].failed = handler[h].failed \cup {q}
         /\ handler'[h].size = [handler[h].size EXCEPT ![q] = 0]
         /\ \A g \in Handler : g # h => handler'[g] = handler[g]
<1>1. handler[h] \in Measured /\ handler[h].pc = "walk" /\ q \in handler[h].walking
  BY WalkersAreTyped DEF WalkFails
<1> DEFINE record == [handler[h] EXCEPT !.size = SizeWith(h, q, 0), !.walking = @ \ {q}, !.failed = @ \cup {q}]
<1>2. Become(h, record)
  BY DEF WalkFails
<1>3. /\ record.pc = "walk" /\ record.ruled = handler[h].ruled
      /\ record.walking = handler[h].walking \ {q}
      /\ record.failed = handler[h].failed \cup {q}
      /\ record.size = SizeWith(h, q, 0)
  BY <1>1 DEF Measured
<1>4. handler'[h] = record /\ \A g \in Handler : g # h => handler'[g] = handler[g]
  BY <1>2 DEF Become, PushType
<1> HIDE DEF record
<1> QED
  BY <1>1, <1>3, <1>4 DEF SizeWith

LEMMA PushTypeStep == PushType /\ [Next]_vars => PushType'
<1> SUFFICES ASSUME PushType, [Next]_vars PROVE PushType'
    OBVIOUS
<1>1. ASSUME NEW h \in Handler, RequestStep(h) PROVE PushType'
  <2>1. handler[h] \in Caller
    BY DEF PushType
  <2>2. ASSUME NEW r \in Caller, Become(h, r) PROVE handler' \in [Handler -> Caller]
    BY <2>2 DEF Become, PushType
  <2>3. ASSUME NEW r \in Repository, StartPush(h, r) PROVE PushType'
    <3>1. [pc |-> "size", to |-> r, ruled |-> protected, blind |-> FALSE] \in Caller
      BY DEF Caller, Received, PushType
    <3> QED
      BY <2>2, <2>3, <3>1 DEF StartPush, PushType, storage
  <2>4. CASE getOrganizationStorageBytes(h)
    <3> DEFINE size == [r \in Repository |-> IF cache[r] # Missing THEN cache[r] ELSE bytes[r]]
               walking == {r \in Repository : cache[r] = Missing}
    <3>1. handler[h] \in Received
      BY <2>1, <2>4 DEF getOrganizationStorageBytes, Caller, Received, Measured, Checked, Idle
    <3>2. size \in [Repository -> Nat] /\ walking \in SUBSET Repository
      BY DEF PushType
    <3>3. Become(h, [pc |-> "walk", to |-> handler[h].to, ruled |-> handler[h].ruled, size |-> size,
                     walking |-> walking, failed |-> {}])
      BY <2>4 DEF getOrganizationStorageBytes
    <3> HIDE DEF size, walking
    <3>4. [pc |-> "walk", to |-> handler[h].to, ruled |-> handler[h].ruled, size |-> size,
           walking |-> walking, failed |-> {}] \in Caller
      BY <3>1, <3>2 DEF Caller, Received, Measured
    <3> QED
      BY <2>2, <2>4, <3>3, <3>4 DEF getOrganizationStorageBytes, PushType, storage
  <2>5. CASE isWithinLimit(h)
    <3>1. handler[h] \in Measured
      BY <2>1, <2>5 DEF isWithinLimit, Caller, Received, Measured, Checked, Idle
    <3>2. [pc |-> IF Usage(handler[h].size) < Limit THEN "rules" ELSE "refused",
           to |-> handler[h].to, ruled |-> handler[h].ruled,
           blind |-> handler[h].to \in handler[h].failed] \in Caller
      BY <3>1 DEF Caller, Received, Measured
    <3> QED
      BY <2>2, <2>5, <3>2 DEF isWithinLimit, PushType, storage
  <2>11. ASSUME NEW r \in Repository, getRepositorySize(h, r) \/ WalkFails(h, r) PROVE PushType'
    <3>1. handler[h] \in Measured
      BY <2>11, WalkersAreTyped DEF getRepositorySize, WalkFails
    <3>7. ASSUME NEW size \in Nat PROVE SizeWith(h, r, size) \in [Repository -> Nat]
      BY <3>1 DEF Measured, SizeWith
    <3>2. ASSUME NEW size \in [Repository -> Nat], NEW failed \in SUBSET Repository
          PROVE  [handler[h] EXCEPT !.size = size, !.walking = @ \ {r}, !.failed = failed] \in Caller
      BY <3>1 DEF Caller, Measured
    <3>3. ASSUME NEW size \in [Repository -> Nat]
          PROVE  [handler[h] EXCEPT !.size = size, !.walking = @ \ {r}] \in Caller
      BY <3>1 DEF Caller, Measured
    <3>4. handler[h].failed \cup {r} \in SUBSET Repository
      BY <3>1 DEF Measured
    <3>5. CASE WalkFails(h, r)
      <4>1. [handler[h] EXCEPT !.size = SizeWith(h, r, 0), !.walking = @ \ {r}, !.failed = @ \cup {r}]
            = [handler[h] EXCEPT !.size = SizeWith(h, r, 0), !.walking = @ \ {r}, !.failed = handler[h].failed \cup {r}]
        BY <3>1 DEF Measured
      <4>2. [handler[h] EXCEPT !.size = SizeWith(h, r, 0), !.walking = @ \ {r}, !.failed = @ \cup {r}] \in Caller
        BY <3>2, <3>4, <3>7, <4>1
      <4> QED
        BY <2>2, <3>5, <4>2 DEF WalkFails, PushType, storage
    <3>6. CASE getRepositorySize(h, r)
      <4>1. PICK size \in handler[h].size[r] .. bytes[r] :
              /\ cache' = [cache EXCEPT ![r] = size]
              /\ Become(h, [handler[h] EXCEPT !.size = SizeWith(h, r, size), !.walking = @ \ {r}])
        BY <3>6 DEF getRepositorySize
      <4>2. size \in Nat
        BY <3>1 DEF Measured, PushType
      <4>3. cache' \in [Repository -> Nat]
        BY <4>1, <4>2 DEF PushType
      <4>4. handler' \in [Handler -> Caller]
        BY <2>2, <3>3, <3>7, <4>1, <4>2
      <4> QED
        BY <3>6, <4>3, <4>4 DEF getRepositorySize, PushType
    <3> QED
      BY <2>11, <3>5, <3>6
  <2>6. CASE Refuse(h)
    BY <2>2, <2>6 DEF Refuse, PushType, storage, Caller
  <2>7. CASE ReadRules(h)
    <3>1. handler[h] \in Received
      BY <2>1, <2>7 DEF ReadRules, Caller, Received, Measured, Checked, Idle
    <3>2. [pc |-> "pack", to |-> handler[h].to, ruled |-> handler[h].ruled,
           blind |-> handler[h].blind, rules |-> protected, before |-> tip] \in Caller
      BY <3>1 DEF Caller, Received, Checked, PushType
    <3> QED
      BY <2>2, <2>7, <3>2 DEF ReadRules, PushType, storage
  <2>8. ASSUME NEW new \in Commit, receivePack(h, new) PROVE PushType'
    <3>1. handler[h] \in Checked
      BY <2>1, <2>8 DEF receivePack, Caller, Received, Measured, Checked, Idle
    <3>2. [handler[h] EXCEPT !.pc = "after"] \in Caller
      BY <3>1 DEF Caller, Checked
    <3>3. handler[h].to \in Repository
      BY <3>1 DEF Checked
    <3>4. bytes' \in [Repository -> Nat] /\ blind' \in [Repository -> Nat]
      BY <2>8, <3>3 DEF receivePack, PushType
    <3> QED
      BY <2>2, <2>8, <3>2, <3>4 DEF receivePack, PushType, storage
  <2>9. CASE ReceiveFails(h)
    BY <2>2, <2>9 DEF ReceiveFails, PushType, storage, Caller
  <2>10. CASE AfterPush(h)
    <3>1. cache' \in [Repository -> Nat]
      BY <2>10, Bounds DEF AfterPush, invalidateRepositorySizeCache, PushType
    <3> QED
      BY <2>2, <2>10, <3>1 DEF AfterPush, PushType, Caller
  <2> QED
    BY <1>1, <2>3, <2>4, <2>5, <2>6, <2>7, <2>8, <2>9, <2>10, <2>11 DEF RequestStep, MeasureStep
<1>2. ASSUME NEW d \in Scanner, ScanStep(d) PROVE PushType'
  BY <1>2, ScansLeaveRequests DEF PushType
<1>3. ASSUME NEW n \in Deletable, DeleteCandidate(n) PROVE PushType'
  BY <1>3 DEF DeleteCandidate, PushType, storage
<1>4. CASE CreateRule
  BY <1>4 DEF CreateRule, PushType, storage
<1>5. CASE Expires
  BY <1>5, Bounds DEF Expires, ExpireSize, PushType
<1>6. CASE UNCHANGED vars
  BY <1>6 DEF vars, PushType
<1> QED
  BY <1>1, <1>2, <1>3, <1>4, <1>5, <1>6, NextParts

\* What a file says
LEMMA Contents ==
  ASSUME NEW c \in Commit, NEW p \in Path
  PROVE  Content[c][p].names \subseteq Name
BY PushParameters

LEMMA ScanTypeStep == TypeOK /\ [Next]_vars => ScanType'
<1> SUFFICES ASSUME PushType, ScanType, EdgesResolve, [Next]_vars PROVE ScanType'
    BY TypeParts
<1> DEFINE Typed(r) == r \in {Idle} \cup Reading \/ (r.pc = "insert" /\ r.kind \in ScanKind)
<1>1. ASSUME NEW h \in Handler, RequestStep(h) PROVE ScanType'
  <2>1. UNCHANGED <<scan, rows>>
    BY <1>1, RequestsLeaveRows
  <2>2. due' \subseteq ScanKind /\ alone' \subseteq Scanner /\ exact' \subseteq ScanKind
    BY <1>1 DEF RequestStep, StartPush, MeasureStep, getOrganizationStorageBytes,
       getRepositorySize, WalkFails, isWithinLimit, Refuse, ReadRules,
                receivePack, ReceiveFails, AfterPush, graph, Disturb, ScanType
  <2> QED
    BY <2>1, <2>2 DEF ScanType
<1>2. ASSUME NEW d \in Scanner, ScanStep(d) PROVE ScanType'
  <2>1. ASSUME NEW r, Typed(r), Set(d, r)
        PROVE  DOMAIN scan' = Scanner /\ \A e \in Scanner : Typed(scan'[e])
    BY <2>1 DEF Set, ScanType
  <2>2. Typed(Idle)
    OBVIOUS
  <2>3. \A r : r \in Reading \/ (r.pc = "insert" /\ r.kind \in ScanKind) => Typed(r)
    OBVIOUS
  <2>4. Typed(scan[d])
    BY DEF ScanType
  <2>5. scan[d].pc \in {"read", "delete"} => scan[d] \in Reading
    BY <2>4 DEF Idle
  <2>6. (\A e \in Scanner : Typed(scan'[e])) /\ DOMAIN scan' = Scanner
        /\ due' \subseteq ScanKind /\ alone' \subseteq Scanner /\ exact' \subseteq ScanKind
        /\ DOMAIN rows' = Kind
        => ScanType'
    BY DEF ScanType
  <2> HIDE DEF Typed
  <2>7. ASSUME NEW k \in ScanKind, StartScan(d, k) PROVE ScanType'
    <3>1. [pc |-> "read", kind |-> k, candidates |-> candidate, todo |-> PathsOf(k),
           found |-> FALSE, names |-> {}] \in Reading
      BY PushParameters DEF Reading, PathsOf, EdgesResolve
    <3>2. DOMAIN scan' = Scanner /\ \A e \in Scanner : Typed(scan'[e])
      BY <2>1, <2>3, <2>7, <3>1 DEF StartScan
    <3>3. due' \subseteq ScanKind /\ alone' \subseteq Scanner /\ UNCHANGED <<rows, exact>>
      BY <2>7 DEF StartScan, ScanType
    <3> QED
      BY <2>6, <3>2, <3>3 DEF ScanType
  <2>8. ASSUME NEW p \in Path, ReadFile(d, p) PROVE ScanType'
    <3> DEFINE file == Content[tip][p]
               found == scan[d].found \/ file.state = "parsed"
                        \/ (file.state = "malformed" /\ scan[d].kind = "dependencies")
    <3>1. scan[d] \in Reading
      BY <2>5, <2>8 DEF ReadFile
    <3>2. file.names \subseteq Name
      BY Contents DEF PushType
    <3>3. scan[d].found \in BOOLEAN /\ found \in BOOLEAN
      BY <3>1 DEF Reading
    <3>4. ASSUME NEW f \in BOOLEAN, NEW ns \in SUBSET Name
          PROVE  [scan[d] EXCEPT !.todo = @ \ {p}, !.found = f, !.names = @ \cup ns] \in Reading
      BY <3>1 DEF Reading
    <3>5. [scan[d] EXCEPT !.todo = @ \ {p}, !.found = found, !.names = @ \cup file.names] \in Reading
      BY <3>2, <3>3, <3>4
    <3>6. DOMAIN scan' = Scanner /\ \A e \in Scanner : Typed(scan'[e])
      BY <2>1, <2>3, <2>8, <3>5 DEF ReadFile
    <3> QED
      BY <2>6, <2>8, <3>6 DEF ReadFile, ScanOnly, ScanType
  <2>9. CASE EndReading(d)
    <3>1. [scan[d] EXCEPT !.pc = "delete"] \in Reading
      BY <2>5, <2>9 DEF EndReading, Reading
    <3>2. DOMAIN scan' = Scanner /\ \A e \in Scanner : Typed(scan'[e])
      BY <2>1, <2>2, <2>3, <2>9, <3>1 DEF EndReading, End
    <3> QED
      BY <2>6, <2>9, <3>2 DEF EndReading, End, ScanOnly, ScanType
  <2>10. CASE DeleteRows(d)
    <3>1. scan[d].kind \in ScanKind
      BY <2>5, <2>10 DEF DeleteRows, Reading
    <3>2. DOMAIN scan' = Scanner /\ \A e \in Scanner : Typed(scan'[e])
      BY <2>1, <2>3, <2>10, <3>1 DEF DeleteRows
    <3> QED
      BY <2>6, <2>10, <3>2 DEF DeleteRows, ScanOnly, ScanType
  <2>11. CASE InsertRows(d)
    <3>1. scan[d].kind \in ScanKind
      BY <2>4, <2>11 DEF InsertRows, Typed, Reading, Idle
    <3>2. exact' \subseteq ScanKind
      BY <2>11, <3>1 DEF InsertRows, ScanType
    <3>3. DOMAIN scan' = Scanner /\ \A e \in Scanner : Typed(scan'[e])
      BY <2>1, <2>2, <2>11 DEF InsertRows, End
    <3> QED
      BY <2>6, <2>11, <3>2, <3>3 DEF InsertRows, End, ScanType
  <2>12. CASE ScanFails(d)
    <3>1. DOMAIN scan' = Scanner /\ \A e \in Scanner : Typed(scan'[e])
      BY <2>1, <2>2, <2>12 DEF ScanFails, End
    <3> QED
      BY <2>6, <2>12, <3>1 DEF ScanFails, End, ScanOnly, ScanType
  <2> QED
    BY <1>2, <2>7, <2>8, <2>9, <2>10, <2>11, <2>12 DEF ScanStep
<1>3. ASSUME NEW n \in Deletable, DeleteCandidate(n) PROVE ScanType'
  BY <1>3 DEF DeleteCandidate, Disturb, ScanType
<1>4. CASE CreateRule \/ Expires \/ UNCHANGED vars
  BY <1>4 DEF CreateRule, Expires, ExpireSize, vars, graph, ScanType
<1> QED
  BY <1>1, <1>2, <1>3, <1>4, NextParts

LEMMA EdgesStep == TypeOK /\ [Next]_vars => EdgesResolve'
<1> SUFFICES ASSUME ScanType, EdgesResolve, [Next]_vars PROVE EdgesResolve'
    BY TypeParts
<1>1. ASSUME NEW d \in Scanner, InsertRows(d) PROVE EdgesResolve'
  <2>1. ASSUME NEW k \in {"internal", "projects"}, NEW r \in rows'[k] PROVE r.name \in candidate
    <3>1. r \in rows[k] \/ r \in NewRows(d, k)
      BY <1>1, <2>1 DEF InsertRows, Kind
    <3>2. ASSUME r \in NewRows(d, k), r \notin rows[k] PROVE r.name \in partitionDependencies(d, k)
      BY <3>2 DEF NewRows
    <3>3. partitionDependencies(d, k) \subseteq candidate
      BY <1>1 DEF partitionDependencies, InsertRows
    <3> QED
      BY <3>1, <3>2, <3>3 DEF EdgesResolve
  <2> QED
    BY <1>1, <2>1 DEF InsertRows, EdgesResolve
<1>2. ASSUME NEW n \in Deletable, DeleteCandidate(n) PROVE EdgesResolve'
  BY <1>2 DEF DeleteCandidate, EdgesResolve, ScanType, Kind
<1>3. CASE UNCHANGED <<rows, candidate>>
  BY <1>3 DEF EdgesResolve
<1>4. ASSUME NEW d \in Scanner, ScanStep(d), ~InsertRows(d) PROVE UNCHANGED <<rows, candidate>>
  BY <1>4 DEF ScanStep, StartScan, ReadFile, EndReading, DeleteRows, ScanFails, ScanOnly
<1>5. CASE CreateRule \/ Expires \/ UNCHANGED vars
  BY <1>3, <1>5 DEF CreateRule, Expires, ExpireSize, vars, graph
<1> QED
  BY <1>1, <1>2, <1>3, <1>4, <1>5, NextParts, RequestsLeaveRows

\* Every variable keeps its type, and every edge and membership names something that is
\* still there: a scan that read its candidates before one of them went is refused
\* (dependencies/discoverDependencies.service.ts, the foreign keys of repository_dependency).
THEOREM TypeCorrect == Spec => []TypeOK
<1>1. TypeOK /\ [Next]_vars => TypeOK'
  BY TypeParts, PushTypeStep, ScanTypeStep, EdgesStep DEF PushType, ScanType, EdgesResolve, TypeOK, Caller
<1> QED
  BY TypeInit, <1>1, PTL DEF Spec

-----------------------------------------------------------------------------
(***************************************************************************)
(* Branch protection.  A request that began under a rule reads it again    *)
(* before the pack is received, since no rule is ever removed here.        *)
(***************************************************************************)

RulesAreRead ==
  \A h \in Handler :
    /\ handler[h].pc # "idle" /\ handler[h].ruled => protected
    /\ handler[h].pc = "pack" /\ handler[h].ruled => handler[h].rules

LEMMA RulesStep == TypeOK /\ RulesAreRead /\ [Next]_vars => RulesAreRead'
<1> SUFFICES ASSUME PushType, RulesAreRead, [Next]_vars PROVE RulesAreRead'
    BY TypeParts
<1> DEFINE Ruled(r) == /\ r.pc # "idle" /\ r.ruled => protected'
                       /\ r.pc = "pack" /\ r.ruled => r.rules
<1>1. ASSUME NEW h \in Handler, RequestStep(h) PROVE RulesAreRead'
  <2>1. protected' = protected /\ handler[h] \in Caller /\ Ruled(handler[h])
    BY <1>1, RequestsLeaveRows DEF RulesAreRead, PushType
  <2>2. ASSUME NEW r, Ruled(r), Become(h, r) PROVE RulesAreRead'
    BY <2>1, <2>2 DEF Become, RulesAreRead, PushType
  <2> HIDE DEF Ruled
  <2>3. ASSUME NEW r \in Repository, StartPush(h, r) PROVE RulesAreRead'
    BY <2>1, <2>2, <2>3 DEF StartPush, Ruled
  <2>4. CASE getOrganizationStorageBytes(h)
    BY <2>1, <2>2, <2>4 DEF getOrganizationStorageBytes, Ruled
  <2>5. CASE isWithinLimit(h)
    BY <2>1, <2>2, <2>5 DEF isWithinLimit, Ruled
  <2>9. ASSUME NEW r \in Repository, getRepositorySize(h, r) \/ WalkFails(h, r) PROVE RulesAreRead'
    <3>1. /\ handler[h].pc = "walk" /\ handler'[h].pc = "walk" /\ handler'[h].ruled = handler[h].ruled
          /\ \A g \in Handler : g # h => handler'[g] = handler[g]
      BY <2>9, WalkEnds, WalkIsCut
    <3> QED
      BY <2>1, <3>1 DEF RulesAreRead, Ruled
  <2>6. CASE Refuse(h) \/ ReceiveFails(h) \/ AfterPush(h)
    BY <2>2, <2>6 DEF Refuse, ReceiveFails, AfterPush, Ruled, Idle
  <2>7. CASE ReadRules(h)
    BY <2>1, <2>2, <2>7 DEF ReadRules, Ruled
  <2>8. ASSUME NEW new \in Commit, receivePack(h, new) PROVE RulesAreRead'
    <3>1. handler[h] \in Checked
      BY <2>1, <2>8 DEF receivePack, Caller, Received, Measured, Checked, Idle
    <3>2. /\ [handler[h] EXCEPT !.pc = "after"].pc = "after"
          /\ [handler[h] EXCEPT !.pc = "after"].ruled = handler[h].ruled
      BY <3>1 DEF Checked
    <3>3. Ruled([handler[h] EXCEPT !.pc = "after"])
      BY <2>1, <2>8, <3>2 DEF receivePack, Ruled
    <3> QED
      BY <2>2, <2>8, <3>3 DEF receivePack
  <2> QED
    BY <1>1, <2>3, <2>4, <2>5, <2>6, <2>7, <2>8, <2>9 DEF RequestStep, MeasureStep
<1>2. ASSUME NEW d \in Scanner, ScanStep(d) PROVE RulesAreRead'
  BY <1>2, ScansLeaveRequests DEF RulesAreRead
<1>3. ASSUME NEW n \in Deletable, DeleteCandidate(n) PROVE RulesAreRead'
  BY <1>3 DEF DeleteCandidate, RulesAreRead
<1>4. CASE CreateRule \/ Expires \/ UNCHANGED vars
  BY <1>4 DEF CreateRule, Expires, ExpireSize, vars, RulesAreRead
<1> QED
  BY <1>1, <1>2, <1>3, <1>4, NextParts

\* Only the receiving of a pack moves the branch.
LEMMA OnlyPacksMoveTheTip ==
  ASSUME [Next]_vars, tip' # tip
  PROVE  \E h \in Handler, new \in Commit : receivePack(h, new) /\ ~Refused(h, new) /\ tip' = new
<1>1. \E h \in Handler : \E new \in Commit : receivePack(h, new)
  <2>1. ASSUME NEW h \in Handler, RequestStep(h)
        PROVE  \E new \in Commit : receivePack(h, new)
    BY <2>1 DEF RequestStep, StartPush, MeasureStep, getOrganizationStorageBytes,
       getRepositorySize, WalkFails, isWithinLimit, Refuse, ReadRules,
                ReceiveFails, AfterPush
  <2>2. ~(\E n \in Deletable : DeleteCandidate(n)) /\ ~CreateRule /\ ~Expires /\ ~UNCHANGED vars
    BY DEF DeleteCandidate, CreateRule, Expires, ExpireSize, vars
  <2> QED
    BY <2>1, <2>2, NextParts, ScansLeaveRequests
<1>2. PICK h \in Handler, new \in Commit : receivePack(h, new)
  BY <1>1
<1>3. PICK accepted \in Accepts(h, new) : accepted /\ handler[h].to = Here /\ tip' = new
  BY <1>2 DEF receivePack
<1>4. ~Refused(h, new)
  BY <1>3 DEF Accepts
<1> QED
  BY <1>2, <1>3, <1>4

\* A push that began under a rule leaves the branch with its history, whatever overlaps it.
THEOREM ProtectedHistory == Spec => ProtectedHistoryStays
<1>1. Init => TypeOK /\ RulesAreRead
  BY TypeInit DEF Init, RulesAreRead, Idle
<1>2. (TypeOK /\ RulesAreRead) /\ [Next]_vars => (TypeOK /\ RulesAreRead)'
  BY RulesStep, TypeParts, PushTypeStep, ScanTypeStep, EdgesStep
     DEF PushType, ScanType, EdgesResolve, TypeOK, Caller
<1>3. TypeOK /\ RulesAreRead /\ [Next]_vars
      => [\/ tip' = tip
          \/ Descends(tip', tip)
          \/ \E h \in Handler : handler[h].pc = "pack" /\ handler'[h].pc = "after" /\ ~handler[h].ruled]_vars
  <2> SUFFICES ASSUME PushType, RulesAreRead, [Next]_vars, tip' # tip, ~Descends(tip', tip)
               PROVE  \E h \in Handler : handler[h].pc = "pack" /\ handler'[h].pc = "after"
                                         /\ ~handler[h].ruled
      BY TypeParts
  <2>1. PICK h \in Handler, new \in Commit : receivePack(h, new) /\ ~Refused(h, new) /\ tip' = new
    BY OnlyPacksMoveTheTip
  <2>2. handler[h].pc = "pack" /\ ~handler[h].rules /\ handler[h] \in Caller
    BY <2>1 DEF receivePack, Refused, isForcePush, PushType
  <2>3. handler[h] \in Checked
    BY <2>2 DEF Caller, Received, Measured, Checked, Idle
  <2>4. [handler[h] EXCEPT !.pc = "after"].pc = "after"
    BY <2>3 DEF Checked
  <2>5. handler'[h].pc = "after"
    BY <2>1, <2>4 DEF receivePack, Become, PushType
  <2> QED
    BY <2>2, <2>5 DEF RulesAreRead
<1> QED
  BY <1>1, <1>2, <1>3, PTL DEF Spec, ProtectedHistoryStays

-----------------------------------------------------------------------------
(***************************************************************************)
(* Rows made by hand.  What a scan is about to replace was read as         *)
(* detected, and no row ever changes its source.                           *)
(***************************************************************************)

OldRowsWereDetected ==
  \A d \in Scanner :
    scan[d].pc = "insert" =>
      \A k \in KindsOf(scan[d].kind) : \A r \in scan[d].old[k] : r.by # ManualRow

LEMMA DetectedStep == TypeOK /\ OldRowsWereDetected /\ [Next]_vars => OldRowsWereDetected'
<1> SUFFICES ASSUME ScanType, OldRowsWereDetected, [Next]_vars PROVE OldRowsWereDetected'
    BY TypeParts
<1> DEFINE Detected(s) == s.pc = "insert" =>
                            \A k \in KindsOf(s.kind) : \A r \in s.old[k] : r.by # ManualRow
<1>1. ASSUME NEW d \in Scanner, ScanStep(d) PROVE OldRowsWereDetected'
  <2>1. ASSUME NEW s, Detected(s), Set(d, s) PROVE OldRowsWereDetected'
    BY <2>1 DEF Set, OldRowsWereDetected, ScanType
  <2>2. ASSUME NEW s, s.pc # "insert" PROVE Detected(s)
    BY <2>2
  <2>3. scan[d].pc \in {"read", "delete"} => scan[d] \in Reading
    BY DEF ScanType, Idle
  <2> HIDE DEF Detected
  <2>4. CASE \/ \E k \in ScanKind : StartScan(d, k)
             \/ (EndReading(d) /\ ~scan[d].found) \/ InsertRows(d) \/ ScanFails(d)
    BY <2>1, <2>2, <2>4 DEF StartScan, EndReading, InsertRows, ScanFails, End, Idle
  <2>5. CASE EndReading(d) /\ scan[d].found
    <3>1. [scan[d] EXCEPT !.pc = "delete"].pc = "delete"
      BY <2>3, <2>5 DEF EndReading, Reading
    <3> QED
      BY <2>1, <2>2, <2>5, <3>1 DEF EndReading
  <2>6. ASSUME NEW p \in Path, ReadFile(d, p) PROVE OldRowsWereDetected'
    <3>1. scan[d] \in Reading /\ scan[d].pc = "read"
      BY <2>3, <2>6 DEF ReadFile
    <3>2. ASSUME NEW t, NEW f, NEW ns
          PROVE  [scan[d] EXCEPT !.todo = t, !.found = f, !.names = ns].pc = "read"
      BY <3>1 DEF Reading
    <3> QED
      BY <2>1, <2>2, <2>6, <3>2 DEF ReadFile
  <2>7. CASE DeleteRows(d)
    <3> DEFINE s == [pc |-> "insert", kind |-> scan[d].kind, candidates |-> scan[d].candidates,
                     names |-> scan[d].names,
                     old |-> [k \in KindsOf(scan[d].kind) |-> OldRows(k)]]
    <3>1. Detected(s)
      BY DEF Detected, OldRows
    <3> QED
      BY <2>1, <2>7, <3>1 DEF DeleteRows
  <2> QED
    BY <1>1, <2>4, <2>5, <2>6, <2>7 DEF ScanStep, EndReading
<1>2. CASE UNCHANGED scan
  BY <1>2 DEF OldRowsWereDetected
<1> QED
  BY <1>1, <1>2, NextParts, RequestsLeaveRows
     DEF DeleteCandidate, CreateRule, Expires, ExpireSize, vars, graph

\* Scans of any kind, overlapping or failing, leave the rows made by hand alone.
THEOREM ManualRows == Spec => ManualRowsStay
<1>1. Init => TypeOK /\ OldRowsWereDetected
  BY TypeInit DEF Init, OldRowsWereDetected, Idle
<1>2. (TypeOK /\ OldRowsWereDetected) /\ [Next]_vars => (TypeOK /\ OldRowsWereDetected)'
  BY DetectedStep, TypeParts, PushTypeStep, ScanTypeStep, EdgesStep
     DEF PushType, ScanType, EdgesResolve, TypeOK, Caller
<1>3. TypeOK /\ OldRowsWereDetected /\ [Next]_vars
      => [\A k \in Kind : \A r \in rows[k] :
            r.by = ManualRow => r \in rows'[k] \/ (k # "external" /\ r.name \notin candidate')]_vars
  <2> SUFFICES ASSUME ScanType, OldRowsWereDetected, [Next]_vars,
                      NEW k \in Kind, NEW r \in rows[k], r.by = ManualRow
               PROVE  r \in rows'[k] \/ (k # "external" /\ r.name \notin candidate')
      BY TypeParts
  <2>1. ASSUME NEW d \in Scanner, ScanStep(d) PROVE r \in rows'[k]
    <3>1. CASE InsertRows(d) /\ k \in KindsOf(scan[d].kind)
      <4>1. r \notin scan[d].old[k]
        BY <3>1 DEF OldRowsWereDetected, InsertRows
      <4> QED
        BY <3>1, <4>1 DEF InsertRows, NewRows
    <3>2. CASE InsertRows(d) /\ k \notin KindsOf(scan[d].kind)
      BY <3>2 DEF InsertRows
    <3>3. CASE ~InsertRows(d)
      BY <2>1, <3>3 DEF ScanStep, StartScan, ReadFile, EndReading, DeleteRows, ScanFails, ScanOnly
    <3> QED
      BY <3>1, <3>2, <3>3
  <2>2. ASSUME NEW n \in Deletable, DeleteCandidate(n)
        PROVE  r \in rows'[k] \/ (k # "external" /\ r.name \notin candidate')
    BY <2>2 DEF DeleteCandidate, ScanType, Kind
  <2>3. CASE CreateRule \/ Expires \/ UNCHANGED vars
    BY <2>3 DEF CreateRule, Expires, ExpireSize, vars, graph
  <2> QED
    BY <2>1, <2>2, <2>3, NextParts, RequestsLeaveRows
<1> QED
  BY <1>1, <1>2, <1>3, PTL DEF Spec, ManualRowsStay

-----------------------------------------------------------------------------
(***************************************************************************)
(* The storage limit, for one repository.  A size below the limit, walked  *)
(* before the limit was reached, is cached when its walk ends and lets     *)
(* everybody pass once: everybody but the requests that still walk with a  *)
(* size of their own.  What came by requests that saw no size of the       *)
(* repository is not counted.                                              *)
(***************************************************************************)

Sum(n) == (n * (n + 1)) \div 2

LEMMA SumIsNat == ASSUME NEW n \in Nat PROVE Sum(n) \in Nat /\ n <= Sum(n)
<1> DEFINE x == n * (n + 1)
<1>1. x \in Nat OBVIOUS
<1>2. 2 * n <= x
  <2>1. CASE n = 0 BY <2>1
  <2>2. CASE n >= 1
    <3>1. n * (n + 1) = n * n + n OBVIOUS
    <3>2. n * n >= n BY <2>2
    <3> QED BY <3>1, <3>2
  <2> QED BY <2>1, <2>2
<1> HIDE DEF x
<1>3. x \div 2 \in Nat /\ n <= x \div 2 BY <1>1, <1>2
<1> QED BY <1>3 DEF Sum, x

LEMMA NextSum == ASSUME NEW n \in Nat PROVE Sum(n + 1) = Sum(n) + n + 1
<1> DEFINE x == n * (n + 1)
<1>1. x \in Nat OBVIOUS
<1>2. (n + 1) * (n + 1 + 1) = x + 2 * (n + 1) OBVIOUS
<1> HIDE DEF x
<1>3. (x + 2 * (n + 1)) \div 2 = x \div 2 + n + 1 BY <1>1
<1> QED BY <1>2, <1>3 DEF Sum, x

LEMMA SumGrows == ASSUME NEW m \in Nat, NEW n \in Nat, m <= n PROVE Sum(m) <= Sum(n)
<1> DEFINE x == m * (m + 1)
           y == n * (n + 1)
<1>1. x \in Nat /\ y \in Nat OBVIOUS
<1>2. x <= y
  <2>1. PICK k \in Nat : n = m + k
    <3>1. n - m \in Nat /\ n = m + (n - m) OBVIOUS
    <3> QED BY <3>1
  <2>2. n * (n + 1) = m * (m + 1) + k * (2 * m + 1) + k * k BY <2>1
  <2>3. k * (2 * m + 1) \in Nat /\ k * k \in Nat OBVIOUS
  <2> QED BY <2>2, <2>3
<1> HIDE DEF x, y
<1>3. x \div 2 <= y \div 2 BY <1>1, <1>2
<1> QED BY <1>3 DEF Sum, x, y

\* A request that does not walk r with a size below the limit
IsCalm(q, r) == ~(q.pc = "walk" /\ r \in q.walking /\ q.size[r] < Limit)

\* A request that has passed the check of r, or will on what it has seen
Passing(q, r) ==
  \/ q.pc = "walk" /\ r \notin q.walking \cup q.failed /\ q.size[r] < Limit
  \/ q.pc \in {"rules", "pack"} /\ q.to = r /\ ~q.blind

Calm(r) == {h \in Handler : IsCalm(handler[h], r)}

\* Requests that may push to r before another walk of it ends, when size is in the cache
Pushes(q, r, size) == IF size < Limit THEN ~(q.pc = "after" /\ q.to = r) ELSE Passing(q, r)

MayPush(r) == {h \in Calm(r) : Pushes(handler[h], r, cache[r])}

Counted(r) == bytes[r] - blind[r]

\* What has been pushed to r beyond the limit, and may yet be by these, is what the walks
\* that ended made possible.
OvershootOf(r) ==
  Counted(r) >= Limit => Counted(r) + Cardinality(MayPush(r)) < Limit + Sum(Cardinality(Calm(r)))

OvershootInv == \A r \in Repository : OvershootOf(r)

\* A size is part of the organization's.
LEMMA PartOfUsage ==
  ASSUME NEW size \in [Repository -> Nat], NEW r \in Repository
  PROVE  size[r] <= Usage(size) /\ Usage(size) \in Nat
<1> DEFINE Part(q) == {q} \X (1 .. size[q])
           parts == {Part(q) : q \in Repository}
<1>1. IsFiniteSet(Repository)
  BY PushParameters
<1>2. ASSUME NEW q \in Repository
      PROVE  IsFiniteSet(Part(q)) /\ Cardinality(Part(q)) = size[q]
  <2>1. /\ IsFiniteSet(1 .. size[q]) /\ Cardinality(1 .. size[q]) = size[q]
        /\ IsFiniteSet({q}) /\ Cardinality({q}) = 1 /\ size[q] \in Nat
    <3>1. size[q] \in Nat
      BY <1>2
    <3>2. ASSUME NEW n \in Nat PROVE IsFiniteSet(1 .. n) /\ Cardinality(1 .. n) = n
      <4>1. 1 \in Int /\ n \in Int /\ (IF 1 > n THEN 0 ELSE n - 1 + 1) = n
        OBVIOUS
      <4>2. IsFiniteSet(1 .. n) /\ Cardinality(1 .. n) = IF 1 > n THEN 0 ELSE n - 1 + 1
        BY <4>1, FS_Interval, Zenon
      <4> QED
        BY <4>1, <4>2
    <3>3. IsFiniteSet({q}) /\ Cardinality({q}) = 1
      BY FS_Singleton, Zenon
    <3> QED
      BY <3>1, <3>2, <3>3, Zenon
  <2>2. IsFiniteSet(Part(q)) /\ Cardinality(Part(q)) = Cardinality({q}) * Cardinality(1 .. size[q])
    BY <2>1, FS_Product
  <2> QED
    BY <2>1, <2>2
<1>3. IsFiniteSet(parts)
  <2> DEFINE f == [q \in Repository |-> Part(q)]
  <2>1. f \in Surjection(Repository, parts)
    BY DEF Surjection
  <2> QED
    BY <1>1, <2>1, FS_Surjection
<1>4. IsFiniteSet(UNION parts)
  BY <1>2, <1>3, FS_UNION
<1>5. Part(r) \subseteq UNION parts
  OBVIOUS
<1>6. Usage(size) = Cardinality(UNION parts)
  BY DEF Usage
<1> HIDE DEF Part, parts
<1> QED
  BY <1>2, <1>4, <1>5, <1>6, FS_Subset, FS_CardinalityType

LEMMA Finite ==
  ASSUME NEW r \in Repository
  PROVE  /\ IsFiniteSet(Calm(r)) /\ Cardinality(Calm(r)) \in Nat
         /\ IsFiniteSet(MayPush(r)) /\ Cardinality(MayPush(r)) \in Nat
         /\ MayPush(r) \subseteq Calm(r) /\ Cardinality(MayPush(r)) <= Cardinality(Calm(r))
         /\ Cardinality(Calm(r)) <= Cardinality(Handler)
         /\ Cardinality(Handler) \in Nat /\ Cardinality(Handler) >= 1
<1>1. MayPush(r) \subseteq Calm(r) /\ Calm(r) \subseteq Handler BY DEF Calm, MayPush
<1>2. IsFiniteSet(Handler) BY PushParameters
<1>3. IsFiniteSet(Calm(r)) /\ Cardinality(Calm(r)) <= Cardinality(Handler)
  BY <1>1, <1>2, FS_Subset
<1>4. IsFiniteSet(MayPush(r)) /\ Cardinality(MayPush(r)) <= Cardinality(Calm(r))
  BY <1>1, <1>3, FS_Subset
<1>5. Cardinality(Handler) # 0 BY <1>2, PushParameters, FS_EmptySet
<1> QED BY <1>1, <1>2, <1>3, <1>4, <1>5, FS_CardinalityType

\* A step that pushes nothing, ends no walk with a size below the limit and lets nobody more push
LEMMA NothingGained ==
  ASSUME NEW r \in Repository, OvershootOf(r), Counted(r) \in Int, Counted(r)' = Counted(r),
         Counted(r) >= Limit => Calm(r)' = Calm(r) /\ MayPush(r)' \subseteq MayPush(r)
  PROVE  OvershootOf(r)'
<1> SUFFICES ASSUME Counted(r) >= Limit PROVE OvershootOf(r)'
  BY DEF OvershootOf
<1>1. Cardinality(MayPush(r)') <= Cardinality(MayPush(r)) BY Finite, FS_Subset
<1>2. Cardinality(MayPush(r)') \in Nat BY Finite, FS_Subset, FS_CardinalityType
<1>3. Cardinality(MayPush(r))' = Cardinality(MayPush(r)') /\ Cardinality(Calm(r))' = Cardinality(Calm(r))
  OBVIOUS
<1>4. Sum(Cardinality(Calm(r))) \in Nat BY Finite, SumIsNat
<1>5. Limit \in Nat BY PushParameters
<1>6. Counted(r) + Cardinality(MayPush(r)) < Limit + Sum(Cardinality(Calm(r))) BY DEF OvershootOf
<1>7. Counted(r)' + Cardinality(MayPush(r))' < Limit + Sum(Cardinality(Calm(r))')
  BY <1>1, <1>2, <1>3, <1>4, <1>5, <1>6, Finite
<1> QED BY <1>7 DEF OvershootOf

LEMMA OthersStay ==
  ASSUME NEW r \in Repository, NEW h \in Handler, Calm(r)' = Calm(r),
         \A g \in Handler : g # h => handler'[g] = handler[g],
         cache'[r] = cache[r] \/ ~(cache'[r] < Limit),
         Pushes(handler'[h], r, cache'[r]) => Pushes(handler[h], r, cache[r])
  PROVE  MayPush(r)' \subseteq MayPush(r)
<1>1. ASSUME NEW q, Pushes(q, r, cache'[r]) PROVE Pushes(q, r, cache[r])
  BY <1>1 DEF Pushes, Passing
<1>2. ASSUME NEW g \in MayPush(r)' PROVE g \in MayPush(r)
  <2>1. g \in Calm(r) /\ Pushes(handler'[g], r, cache'[r])
    BY <1>2 DEF MayPush
  <2>2. g \in Handler
    BY <2>1 DEF Calm
  <2>3. Pushes(handler[g], r, cache[r])
    BY <1>1, <2>1, <2>2
  <2> QED
    BY <2>1, <2>3 DEF MayPush
<1> QED
  BY <1>2

\* A walk with a size below the limit ends: everybody may push once more.
LEMMA OneMoreRound ==
  ASSUME NEW r \in Repository, NEW h \in Handler, OvershootOf(r),
         Counted(r) \in Int, Counted(r)' = Counted(r), h \notin Calm(r), Calm(r)' = Calm(r) \cup {h}
  PROVE  OvershootOf(r)'
<1> SUFFICES ASSUME Counted(r) >= Limit PROVE OvershootOf(r)'
  BY DEF OvershootOf
<1>1. MayPush(r)' \subseteq Calm(r)' BY DEF MayPush, Calm
<1>2. Cardinality(Calm(r)') = Cardinality(Calm(r)) + 1 /\ IsFiniteSet(Calm(r)')
  BY Finite, FS_AddElement
<1>3. Cardinality(MayPush(r)') <= Cardinality(Calm(r)') /\ Cardinality(MayPush(r)') \in Nat
  BY <1>1, <1>2, FS_Subset, FS_CardinalityType
<1>4. /\ Sum(Cardinality(Calm(r)')) = Sum(Cardinality(Calm(r))) + Cardinality(Calm(r)) + 1
      /\ Sum(Cardinality(Calm(r))) \in Nat
  BY <1>2, Finite, NextSum, SumIsNat
<1>5. Limit \in Nat BY PushParameters
<1>6. Counted(r) < Limit + Sum(Cardinality(Calm(r))) BY <1>4, <1>5, Finite DEF OvershootOf
<1>7. Counted(r)' + Cardinality(MayPush(r)') < Limit + Sum(Cardinality(Calm(r)'))
  BY <1>2, <1>3, <1>4, <1>5, <1>6, Finite
<1> QED BY <1>7 DEF OvershootOf

\* Requests that measured pass, or are refused, on what they saw.
LEMMA MeasuringGainsNothing ==
  ASSUME PushType, OvershootInv, NEW h \in Handler, MeasureStep(h), NEW r \in Repository
  PROVE  OvershootOf(r)'
<1> USE Bounds
<1>0. /\ bytes[r] \in Nat /\ cache[r] \in Nat /\ blind[r] \in Nat
      /\ Counted(r) \in Int /\ Counted(r) <= bytes[r] /\ OvershootOf(r)
  BY DEF PushType, Counted, OvershootInv
<1>1. UNCHANGED <<bytes, blind>> /\ Counted(r)' = Counted(r)
  BY DEF MeasureStep, getOrganizationStorageBytes, isWithinLimit, getRepositorySize, WalkFails, storage, Counted
<1>2. ASSUME NEW q, Become(h, q)
      PROVE  handler'[h] = q /\ \A g \in Handler : g # h => handler'[g] = handler[g]
  BY <1>2 DEF Become, PushType
<1>3. CASE getOrganizationStorageBytes(h)
  <2>1. /\ cache' = cache /\ handler[h].pc = "size" /\ handler'[h].pc = "walk"
        /\ handler'[h].walking = {q \in Repository : cache[q] = Missing}
        /\ handler'[h].size = [q \in Repository |-> IF cache[q] # Missing THEN cache[q] ELSE bytes[q]]
        /\ \A g \in Handler : g # h => handler'[g] = handler[g]
    BY <1>2, <1>3 DEF getOrganizationStorageBytes, storage
  <2>2. /\ r \in handler'[h].walking <=> cache[r] = Missing
        /\ handler'[h].size[r] = IF cache[r] # Missing THEN cache[r] ELSE bytes[r]
    BY <2>1
  <2>3. Counted(r) >= Limit => Calm(r)' = Calm(r)
    BY <1>0, <2>1, <2>2 DEF Calm, IsCalm
  <2>4. Counted(r) >= Limit => MayPush(r)' \subseteq MayPush(r)
    BY <1>0, <2>1, <2>2, <2>3, OthersStay DEF Pushes, Passing
  <2> QED
    BY <1>0, <1>1, <2>3, <2>4, NothingGained
<1>4. CASE isWithinLimit(h)
  <2>1. handler[h] \in Measured
    BY <1>4, WalkersAreTyped DEF isWithinLimit
  <2>2. /\ cache' = cache /\ handler[h].pc = "walk" /\ handler[h].walking = {}
        /\ handler'[h].pc = IF Usage(handler[h].size) < Limit THEN "rules" ELSE "refused"
        /\ handler'[h].to = handler[h].to
        /\ handler'[h].blind = (handler[h].to \in handler[h].failed)
        /\ \A g \in Handler : g # h => handler'[g] = handler[g]
    BY <1>2, <1>4 DEF isWithinLimit, storage
  <2>3. Usage(handler[h].size) < Limit => handler[h].size[r] < Limit
    <3>1. handler[h].size \in [Repository -> Nat] BY <2>1 DEF Measured
    <3>2. handler[h].size[r] <= Usage(handler[h].size) /\ Usage(handler[h].size) \in Nat
      BY <3>1, PartOfUsage
    <3> QED BY <3>1, <3>2
  <2>4. Calm(r)' = Calm(r)
    BY <2>2 DEF Calm, IsCalm
  <2>5. MayPush(r)' \subseteq MayPush(r)
    BY <2>2, <2>3, <2>4, OthersStay DEF Pushes, Passing
  <2> QED
    BY <1>0, <1>1, <2>4, <2>5, NothingGained
<1>5. ASSUME NEW q \in Repository, getRepositorySize(h, q) PROVE OvershootOf(r)'
  <2>1. PICK size \in handler[h].size[q] .. bytes[q] :
          /\ handler'[h].size = [handler[h].size EXCEPT ![q] = size]
          /\ cache' = [cache EXCEPT ![q] = size]
    BY <1>5, WalkEnds
  <2>2. /\ handler[h] \in Measured /\ handler[h].pc = "walk" /\ q \in handler[h].walking
        /\ handler'[h].pc = "walk" /\ handler'[h].walking = handler[h].walking \ {q}
        /\ handler'[h].failed = handler[h].failed
        /\ \A g \in Handler : g # h => handler'[g] = handler[g]
    BY <1>5, WalkEnds
  <2>3. /\ handler[h].size \in [Repository -> Nat] /\ handler[h].size[q] \in Nat /\ handler[h].size[r] \in Nat
        /\ bytes[q] \in Nat
    BY <2>2 DEF Measured, PushType
  <2>4. CASE q # r
    <3>1. cache'[r] = cache[r] /\ handler'[h].size[r] = handler[h].size[r]
          /\ (r \in handler'[h].walking <=> r \in handler[h].walking)
      BY <2>1, <2>2, <2>3, <2>4 DEF PushType
    <3>2. Calm(r)' = Calm(r) BY <2>2, <3>1 DEF Calm, IsCalm
    <3>3. MayPush(r)' \subseteq MayPush(r) BY <2>2, <3>1, <3>2, OthersStay DEF Pushes, Passing
    <3> QED BY <1>0, <1>1, <3>2, <3>3, NothingGained
  <2>5. CASE q = r
    <3>1. /\ cache'[r] = size /\ handler'[h].size[r] = size /\ r \notin handler'[h].walking
          /\ size \in Nat /\ handler[h].size[r] <= size
      BY <2>1, <2>2, <2>3, <2>5 DEF PushType
    <3>2. CASE handler[h].size[r] < Limit
      <4>1. h \notin Calm(r) /\ Calm(r)' = Calm(r) \cup {h}
        BY <2>2, <2>5, <3>1, <3>2 DEF Calm, IsCalm
      <4> QED BY <1>0, <1>1, <4>1, OneMoreRound
    <3>3. CASE ~(handler[h].size[r] < Limit)
      <4>1. Calm(r)' = Calm(r) BY <2>2, <2>5, <3>1, <3>3 DEF Calm, IsCalm
      <4>2. ~(size < Limit) BY <2>3, <3>1, <3>3
      <4>3. MayPush(r)' \subseteq MayPush(r) BY <2>2, <3>1, <4>1, <4>2, OthersStay DEF Pushes, Passing
      <4> QED BY <1>0, <1>1, <4>1, <4>3, NothingGained
    <3> QED BY <3>2, <3>3
  <2> QED BY <2>4, <2>5
<1>6. ASSUME NEW q \in Repository, WalkFails(h, q) PROVE OvershootOf(r)'
  <2>1. /\ handler[h] \in Measured /\ handler[h].pc = "walk" /\ q \in handler[h].walking
        /\ handler'[h].pc = "walk" /\ handler'[h].walking = handler[h].walking \ {q}
        /\ handler'[h].failed = handler[h].failed \cup {q}
        /\ handler'[h].size = [handler[h].size EXCEPT ![q] = 0]
        /\ \A g \in Handler : g # h => handler'[g] = handler[g]
    BY <1>6, WalkIsCut
  <2>2. cache' = cache BY <1>6 DEF WalkFails, storage
  <2>3. handler[h].size \in [Repository -> Nat] BY <2>1 DEF Measured
  <2>4. CASE q # r
    <3>1. /\ handler'[h].size[r] = handler[h].size[r]
          /\ r \in handler'[h].walking <=> r \in handler[h].walking
          /\ r \in handler'[h].failed <=> r \in handler[h].failed
      BY <2>1, <2>3, <2>4
    <3>2. Calm(r)' = Calm(r) BY <2>1, <3>1 DEF Calm, IsCalm
    <3>3. MayPush(r)' \subseteq MayPush(r) BY <2>1, <2>2, <3>1, <3>2, OthersStay DEF Pushes, Passing
    <3> QED BY <1>0, <1>1, <3>2, <3>3, NothingGained
  <2>5. CASE q = r
    <3>1. r \notin handler'[h].walking /\ r \in handler'[h].failed BY <2>1, <2>5
    <3>2. CASE handler[h].size[r] < Limit
      <4>1. h \notin Calm(r) /\ Calm(r)' = Calm(r) \cup {h}
        BY <2>1, <2>5, <3>1, <3>2 DEF Calm, IsCalm
      <4> QED BY <1>0, <1>1, <4>1, OneMoreRound
    <3>3. CASE ~(handler[h].size[r] < Limit)
      <4>1. Calm(r)' = Calm(r) BY <2>1, <2>5, <3>1, <3>3 DEF Calm, IsCalm
      <4>2. MayPush(r)' \subseteq MayPush(r) BY <2>1, <2>2, <3>1, <4>1, OthersStay DEF Pushes, Passing
      <4> QED BY <1>0, <1>1, <4>1, <4>2, NothingGained
    <3> QED BY <3>2, <3>3
  <2> QED BY <2>4, <2>5
<1> QED
  BY <1>3, <1>4, <1>5, <1>6 DEF MeasureStep

\* A push to r uses up what its request had, unless it is not counted.
LEMMA PushUsesUp ==
  ASSUME PushType, OvershootInv, NEW h \in Handler, NEW new \in Commit, receivePack(h, new),
         NEW r \in Repository
  PROVE  OvershootOf(r)'
<1> USE Bounds
<1>0. /\ bytes[r] \in Nat /\ cache[r] \in Nat /\ blind[r] \in Nat
      /\ Counted(r) \in Int /\ OvershootOf(r)
  BY DEF PushType, Counted, OvershootInv
<1>1. handler[h] \in Checked
  <2>1. handler[h] \in Caller BY DEF PushType
  <2> QED BY <2>1 DEF receivePack, Caller, Received, Measured, Checked, Idle
<1>2. /\ [handler[h] EXCEPT !.pc = "after"].pc = "after"
      /\ [handler[h] EXCEPT !.pc = "after"].to = handler[h].to
  BY <1>1 DEF Checked
<1>3. /\ cache' = cache /\ handler[h].pc = "pack" /\ handler'[h].pc = "after"
      /\ handler'[h].to = handler[h].to
      /\ \A g \in Handler : g # h => handler'[g] = handler[g]
  BY <1>2 DEF receivePack, Become, PushType
<1>4. /\ handler[h].to = r /\ ~handler[h].blind => Counted(r)' \in {Counted(r), Counted(r) + 1}
      /\ handler[h].to # r \/ handler[h].blind => Counted(r)' = Counted(r)
  <2>1. handler[h].to \in Repository BY <1>1 DEF Checked
  <2>2. PICK accepted \in Accepts(h, new) :
          /\ bytes' = IF accepted THEN [bytes EXCEPT ![handler[h].to] = @ + 1] ELSE bytes
          /\ blind' = IF accepted /\ handler[h].blind THEN [blind EXCEPT ![handler[h].to] = @ + 1] ELSE blind
    BY DEF receivePack
  <2> QED BY <1>0, <2>1, <2>2 DEF Counted, PushType
<1>5. Calm(r)' = Calm(r) /\ h \in Calm(r) BY <1>3 DEF Calm, IsCalm
<1>6. MayPush(r)' \subseteq MayPush(r) BY <1>3, <1>5, OthersStay DEF Pushes, Passing
<1>7. CASE Counted(r)' = Counted(r)
  BY <1>0, <1>5, <1>6, <1>7, NothingGained
<1>8. CASE handler[h].to = r /\ ~handler[h].blind /\ Counted(r)' = Counted(r) + 1
  <2> SUFFICES ASSUME Counted(r)' >= Limit PROVE OvershootOf(r)'
    BY DEF OvershootOf
  <2>1. h \in MayPush(r) /\ MayPush(r)' = MayPush(r) \ {h}
    <3>1. Pushes(handler[h], r, cache[r]) /\ ~Pushes(handler'[h], r, cache'[r])
      BY <1>3, <1>8 DEF Pushes, Passing
    <3>2. \A g \in Handler : g # h => (Pushes(handler[g], r, cache[r]) <=> Pushes(handler'[g], r, cache'[r]))
      BY <1>3
    <3>3. Calm(r) \subseteq Handler
      BY DEF Calm
    <3>4. MayPush(r)' = {g \in Calm(r) : Pushes(handler'[g], r, cache'[r])}
      BY <1>5 DEF MayPush
    <3> QED
      BY <1>5, <3>1, <3>2, <3>3, <3>4 DEF MayPush
  <2>2. Cardinality(MayPush(r)') = Cardinality(MayPush(r)) - 1 /\ Cardinality(MayPush(r)') \in Nat
    BY <2>1, Finite, FS_RemoveElement, FS_CardinalityType
  <2>3. Sum(Cardinality(Calm(r))) \in Nat /\ Cardinality(Calm(r)) <= Sum(Cardinality(Calm(r)))
    BY Finite, SumIsNat
  <2>4. CASE Counted(r) >= Limit
    <3>1. Counted(r) + Cardinality(MayPush(r)) < Limit + Sum(Cardinality(Calm(r)))
      BY <1>0, <2>4 DEF OvershootOf
    <3>2. Counted(r)' + Cardinality(MayPush(r)') < Limit + Sum(Cardinality(Calm(r)'))
      BY <1>0, <1>5, <1>8, <2>2, <2>3, <3>1, Finite
    <3> QED BY <3>2 DEF OvershootOf
  <2>5. CASE Counted(r) < Limit
    <3>1. Cardinality(MayPush(r)) <= Cardinality(Calm(r)) BY Finite
    <3>2. Counted(r)' = Limit BY <1>0, <1>8, <2>5
    <3>3. Counted(r)' + Cardinality(MayPush(r)') < Limit + Sum(Cardinality(Calm(r)'))
      BY <1>5, <2>2, <2>3, <3>1, <3>2, Finite
    <3> QED BY <3>3 DEF OvershootOf
  <2> QED BY <1>0, <2>4, <2>5
<1> QED BY <1>4, <1>7, <1>8

LEMMA OvershootStep == TypeOK /\ OvershootInv /\ [Next]_vars => OvershootInv'
<1> SUFFICES ASSUME PushType, OvershootInv, [Next]_vars, NEW r \in Repository
             PROVE  OvershootOf(r)'
    BY TypeParts DEF OvershootInv
<1> USE Bounds
<1>0. /\ bytes[r] \in Nat /\ cache[r] \in Nat /\ blind[r] \in Nat
      /\ Counted(r) \in Int /\ OvershootOf(r)
  BY DEF PushType, Counted, OvershootInv
<1>1. ASSUME NEW h \in Handler, RequestStep(h) PROVE OvershootOf(r)'
  <2>1. handler[h] \in Caller BY DEF PushType
  <2>2. ASSUME NEW q, Become(h, q)
        PROVE  handler'[h] = q /\ \A g \in Handler : g # h => handler'[g] = handler[g]
    BY <2>2 DEF Become, PushType
  <2>3. ASSUME NEW q \in Repository, StartPush(h, q) PROVE OvershootOf(r)'
    <3>1. /\ UNCHANGED <<bytes, blind, cache>> /\ handler[h].pc = "idle" /\ handler'[h].pc = "size"
          /\ \A g \in Handler : g # h => handler'[g] = handler[g]
      BY <2>2, <2>3 DEF StartPush, storage
    <3>2. Calm(r)' = Calm(r) BY <3>1 DEF Calm, IsCalm
    <3>3. MayPush(r)' \subseteq MayPush(r) BY <3>1, <3>2, OthersStay DEF Pushes, Passing
    <3> QED BY <1>0, <3>1, <3>2, <3>3, NothingGained DEF Counted
  <2>4. CASE MeasureStep(h)
    BY <2>4, MeasuringGainsNothing
  <2>5. CASE Refuse(h) \/ ReadRules(h) \/ ReceiveFails(h)
    <3>1. /\ UNCHANGED <<bytes, blind, cache>>
          /\ handler[h].pc \in {"refused", "rules", "pack"}
          /\ \/ handler'[h].pc = "idle"
             \/ /\ handler[h].pc = "rules" /\ handler'[h].pc = "pack"
                /\ handler'[h].to = handler[h].to /\ handler'[h].blind = handler[h].blind
          /\ \A g \in Handler : g # h => handler'[g] = handler[g]
      BY <2>2, <2>5 DEF Refuse, ReadRules, ReceiveFails, storage, Idle
    <3>2. Calm(r)' = Calm(r) BY <3>1 DEF Calm, IsCalm
    <3>3. MayPush(r)' \subseteq MayPush(r) BY <3>1, <3>2, OthersStay DEF Pushes, Passing
    <3> QED BY <1>0, <3>1, <3>2, <3>3, NothingGained DEF Counted
  <2>6. ASSUME NEW new \in Commit, receivePack(h, new) PROVE OvershootOf(r)'
    BY <2>6, PushUsesUp
  <2>7. CASE AfterPush(h)
    <3>1. /\ UNCHANGED <<bytes, blind>> /\ handler[h].pc = "after" /\ handler'[h].pc = "idle"
          /\ cache'[r] = IF handler[h].to = r THEN Missing ELSE cache[r]
          /\ \A g \in Handler : g # h => handler'[g] = handler[g]
      BY <2>2, <2>7 DEF AfterPush, invalidateRepositorySizeCache, Idle, PushType
    <3>2. Calm(r)' = Calm(r) BY <3>1 DEF Calm, IsCalm
    <3>3. ~(Missing < Limit) BY DEF Missing
    <3>4. MayPush(r)' \subseteq MayPush(r) BY <3>1, <3>2, <3>3, OthersStay DEF Pushes, Passing
    <3> QED BY <1>0, <3>1, <3>2, <3>4, NothingGained DEF Counted
  <2> QED
    BY <1>1, <2>3, <2>4, <2>5, <2>6, <2>7 DEF RequestStep
<1>2. CASE UNCHANGED <<handler, bytes, blind, cache>>
  <2>1. Calm(r)' = Calm(r) /\ MayPush(r)' \subseteq MayPush(r) BY <1>2 DEF Calm, IsCalm, MayPush, Pushes, Passing
  <2> QED BY <1>0, <1>2, <2>1, NothingGained DEF Counted
<1>3. CASE Expires
  <2>1. /\ UNCHANGED <<handler, bytes, blind>> /\ (cache'[r] = cache[r] \/ cache'[r] = Missing)
    BY <1>3 DEF Expires, ExpireSize, PushType
  <2>2. ~(Missing < Limit) BY DEF Missing
  <2>3. Calm(r)' = Calm(r) BY <2>1 DEF Calm, IsCalm
  <2>4. PICK h \in Handler : TRUE BY PushParameters
  <2>5. MayPush(r)' \subseteq MayPush(r) BY <2>1, <2>2, <2>3, <2>4, OthersStay DEF Pushes, Passing
  <2> QED BY <1>0, <2>1, <2>3, <2>5, NothingGained DEF Counted
<1> QED
  BY <1>1, <1>2, <1>3, NextParts, ScansLeaveRequests
     DEF DeleteCandidate, CreateRule, vars, storage

\* n requests at once bring a repository no more than n(n + 1)/2 - 1 pushes beyond
\* max_storage_bytes, those aside whose walk of it failed (Push!StorageOvershoot).
THEOREM OvershootIsBounded == Spec => []StorageOvershoot
<1>1. Init => TypeOK /\ OvershootInv
  <2> SUFFICES ASSUME Init, NEW r \in Repository PROVE OvershootOf(r)
    BY TypeInit DEF OvershootInv
  <2>1. ~(cache[r] < Limit) BY Bounds DEF Init, Missing
  <2>2. MayPush(r) = {} /\ Calm(r) = Handler
    BY <2>1 DEF Init, MayPush, Pushes, Passing, Calm, IsCalm, Idle
  <2>3. Cardinality(MayPush(r)) = 0 BY <2>2, FS_EmptySet
  <2>4. 1 <= Sum(Cardinality(Calm(r))) /\ Sum(Cardinality(Calm(r))) \in Nat
    BY <2>2, Finite, SumIsNat
  <2>5. Counted(r) = 0 BY DEF Init, Counted
  <2> QED BY <2>3, <2>4, <2>5, Bounds DEF OvershootOf
<1>2. (TypeOK /\ OvershootInv) /\ [Next]_vars => (TypeOK /\ OvershootInv)'
  BY OvershootStep, TypeParts, PushTypeStep, ScanTypeStep, EdgesStep
     DEF PushType, ScanType, EdgesResolve, TypeOK, Caller
<1>3. TypeOK /\ OvershootInv => StorageOvershoot
  <2> SUFFICES ASSUME NEW r \in Repository, bytes[r] \in Nat, blind[r] \in Nat, OvershootOf(r)
               PROVE  bytes[r] <= Limit + Sum(Cardinality(Handler)) - 1 + blind[r]
    BY DEF TypeOK, OvershootInv, StorageOvershoot, Sum
  <2>1. /\ Sum(Cardinality(Calm(r))) <= Sum(Cardinality(Handler))
        /\ Sum(Cardinality(Calm(r))) \in Nat /\ Sum(Cardinality(Handler)) \in Nat
        /\ 1 <= Sum(Cardinality(Handler))
    BY Finite, SumGrows, SumIsNat
  <2>2. Counted(r) <= Limit + Sum(Cardinality(Handler)) - 1
    BY <2>1, Finite, Bounds DEF OvershootOf, Counted
  <2> QED BY <2>1, <2>2, Bounds DEF Counted
<1> QED
  BY <1>1, <1>2, <1>3, PTL DEF Spec

-----------------------------------------------------------------------------
(***************************************************************************)
(* Numbers for new rows.  There is always one that is free, so that no row *)
(* a scan writes is taken for one made by hand.                            *)
(***************************************************************************)

LEMMA LessIsWellFounded == IsWellFoundedOn({p \in Nat \X Nat : p[1] < p[2]}, Nat)
BY NatLessThanWellFounded DEF OpToRel

LEMMA LeastNumber ==
  ASSUME NEW S \in SUBSET Nat, S # {}
  PROVE  \E m \in S : \A n \in S : m <= n
<1>1. PICK m \in S : \A n \in S : ~(<<n, m>> \in {p \in Nat \X Nat : p[1] < p[2]})
  BY LessIsWellFounded, WFMin
<1>2. ASSUME NEW n \in S PROVE m <= n
  <2>1. n \in Nat /\ m \in Nat OBVIOUS
  <2>2. ~(n < m) BY <1>1, <2>1
  <2> QED BY <2>1, <2>2
<1> QED BY <1>2

\* The image of a finite set under a function
LEMMA FiniteImage ==
  ASSUME NEW S, IsFiniteSet(S), NEW R, NEW f \in [S -> R], \A y \in R : \E x \in S : f[x] = y
  PROVE  IsFiniteSet(R)
<1>1. f \in Surjection(S, R) BY DEF Surjection
<1> QED BY <1>1, FS_Surjection

\* Rows there are finitely many of, and what a scan that writes holds
RowsInv ==
  /\ \A k \in Kind : IsFiniteSet(rows[k])
  /\ \A d \in Scanner :
       scan[d].pc = "insert" =>
         /\ scan[d].names \subseteq Name
         /\ DOMAIN scan[d].old = KindsOf(scan[d].kind)
         /\ \A k \in KindsOf(scan[d].kind) : IsFiniteSet(scan[d].old[k])

LEMMA UsedAreFinite == ASSUME ScanType, RowsInv PROVE IsFiniteSet(UsedNumbers)
<1> DEFINE present == UNION {rows[k] : k \in Kind}
           writing == {e \in Scanner : scan[e].pc = "insert"}
           Held(d) == UNION {scan[d].old[k] : k \in DOMAIN scan[d].old}
           held == UNION {Held(d) : d \in writing}
<1>1. IsFiniteSet(present)
  <2>1. present = rows["internal"] \cup (rows["external"] \cup rows["projects"]) BY DEF Kind
  <2>2. IsFiniteSet(rows["internal"]) /\ IsFiniteSet(rows["external"])
        /\ IsFiniteSet(rows["projects"])
    BY DEF RowsInv, Kind
  <2> HIDE DEF present
  <2> QED BY <2>1, <2>2, FS_Union
<1>2. ASSUME NEW d \in writing PROVE IsFiniteSet(Held(d))
  <2>1. /\ DOMAIN scan[d].old = KindsOf(scan[d].kind)
        /\ \A k \in KindsOf(scan[d].kind) : IsFiniteSet(scan[d].old[k])
    BY DEF RowsInv
  <2>2. CASE KindsOf(scan[d].kind) = {"projects"}
    <3>1. Held(d) = scan[d].old["projects"] BY <2>1, <2>2
    <3> QED BY <2>1, <2>2, <3>1
  <2>3. CASE KindsOf(scan[d].kind) = {"internal", "external"}
    <3>1. Held(d) = scan[d].old["internal"] \cup scan[d].old["external"] BY <2>1, <2>3
    <3>2. IsFiniteSet(scan[d].old["internal"]) /\ IsFiniteSet(scan[d].old["external"])
      BY <2>1, <2>3
    <3> HIDE DEF Held
    <3> QED BY <3>1, <3>2, FS_Union
  <2> QED BY <2>2, <2>3 DEF KindsOf
<1>3. IsFiniteSet(held)
  <2> DEFINE f   == [d \in writing |-> Held(d)]
             all == {Held(d) : d \in writing}
  <2>1. IsFiniteSet(writing) BY PushParameters, FS_Subset
  <2>2. f \in [writing -> all] /\ \A y \in all : \E d \in writing : f[d] = y
    <3> HIDE DEF Held, writing
    <3> QED OBVIOUS
  <2>3. IsFiniteSet(all)
    <3> HIDE DEF f, all, writing
    <3> QED BY <2>1, <2>2, FiniteImage
  <2>4. \A T \in {Held(d) : d \in writing} : IsFiniteSet(T) BY <1>2
  <2> HIDE DEF f, Held, writing
  <2> QED BY <2>3, <2>4, FS_UNION
<1>4. UsedNumbers = {r.by : r \in present} \cup {r.by : r \in held}
  BY DEF UsedNumbers
<1> HIDE DEF present, held
<1>5. ASSUME NEW S, IsFiniteSet(S) PROVE IsFiniteSet({r.by : r \in S})
  <2> DEFINE f   == [r \in S |-> r.by]
             all == {r.by : r \in S}
  <2>1. f \in [S -> all] /\ \A y \in all : \E r \in S : f[r] = y OBVIOUS
  <2> HIDE DEF f, all
  <2>2. IsFiniteSet(all) BY <1>5, <2>1, FiniteImage
  <2> QED BY <2>2 DEF all
<1>6. IsFiniteSet({r.by : r \in present}) BY <1>1, <1>5
<1>7. IsFiniteSet({r.by : r \in held}) BY <1>3, <1>5
<1> QED BY <1>4, <1>6, <1>7, FS_Union

LEMMA FreeNumbers == ASSUME ScanType, RowsInv PROVE FreeNumber # ManualRow
<1> DEFINE numbers == 1 .. (Cardinality(UsedNumbers) + 1)
           free == {i \in numbers : i \notin UsedNumbers}
<1>1. IsFiniteSet(UsedNumbers) /\ Cardinality(UsedNumbers) \in Nat
  BY UsedAreFinite, FS_CardinalityType
<1>2. IsFiniteSet(numbers) /\ Cardinality(numbers) = Cardinality(UsedNumbers) + 1
  <2>1. 1 \in Int /\ Cardinality(UsedNumbers) + 1 \in Int BY <1>1
  <2>2. ~(1 > Cardinality(UsedNumbers) + 1) BY <1>1
  <2>3. ASSUME NEW b \in Int, ~(1 > b)
        PROVE  IsFiniteSet(1 .. b) /\ Cardinality(1 .. b) = b
    <3>1. IsFiniteSet(1 .. b) /\ Cardinality(1 .. b) = b - 1 + 1 BY <2>1, <2>3, FS_Interval
    <3> QED BY <2>3, <3>1
  <2> QED BY <2>1, <2>2, <2>3
<1>3. free # {}
  <2> SUFFICES ASSUME numbers \subseteq UsedNumbers PROVE FALSE
    OBVIOUS
  <2>1. Cardinality(numbers) <= Cardinality(UsedNumbers) BY <1>1, FS_Subset
  <2> QED BY <1>1, <1>2, <2>1
<1>4. free \subseteq Nat BY <1>1
<1>5. PICK i \in free : \A j \in free : i <= j
  <2> HIDE DEF free
  <2> QED BY <1>3, <1>4, LeastNumber
<1>6. i \in numbers /\ i \notin UsedNumbers /\ \A j \in numbers : j < i => j \in UsedNumbers
  <2>1. i \in Nat BY <1>4
  <2>2. ASSUME NEW j \in numbers, j < i PROVE j \in UsedNumbers
    <3>1. j \in Nat BY <1>1
    <3> QED BY <1>5, <2>1, <2>2, <3>1
  <2> QED BY <2>2
<1>7. FreeNumber \in numbers
  BY <1>6 DEF FreeNumber
<1>8. 0 \notin numbers BY <1>1
<1> QED BY <1>7, <1>8 DEF ManualRow

LEMMA RowsInit == Init => RowsInv
<1> SUFFICES ASSUME Init PROVE RowsInv
    OBVIOUS
<1>1. ASSUME NEW N \in SUBSET Manual PROVE IsFiniteSet({[name |-> n, by |-> ManualRow] : n \in N})
  <2> DEFINE f   == [n \in N |-> [name |-> n, by |-> ManualRow]]
             all == {[name |-> n, by |-> ManualRow] : n \in N}
  <2>1. N \in SUBSET Name BY PushParameters
  <2>2. IsFiniteSet(N) BY <2>1, PushParameters, FS_Subset
  <2>3. f \in [N -> all] /\ \A y \in all : \E n \in N : f[n] = y OBVIOUS
  <2> HIDE DEF f, all
  <2>4. IsFiniteSet(all) BY <2>2, <2>3, FiniteImage
  <2> QED BY <2>4 DEF all
<1>2. ASSUME NEW k \in Kind PROVE IsFiniteSet(rows[k])
  <2>1. rows[k] = {[name |-> n, by |-> ManualRow] :
                     n \in IF k = "external" THEN Manual \ candidate ELSE Manual \cap candidate}
    BY DEF Init
  <2>2. CASE k = "external" BY <1>1, <2>1, <2>2
  <2>3. CASE k # "external" BY <1>1, <2>1, <2>3
  <2> QED BY <2>2, <2>3
<1>3. \A d \in Scanner : scan[d].pc # "insert" BY DEF Init, Idle
<1> QED BY <1>2, <1>3 DEF RowsInv


\* What a scan writes is finite, since what it read was.
LEMMA NewRowsAreFinite ==
  ASSUME RowsInv, NEW d \in Scanner, scan[d].pc = "insert", NEW k \in Kind
  PROVE  IsFiniteSet(NewRows(d, k))
<1> DEFINE kept  == rows[k] \ scan[d].old[k]
           new   == partitionDependencies(d, k)
                      \ IF k = "internal" THEN {} ELSE {r.name : r \in kept}
           f     == [n \in new |-> [name |-> n, by |-> FreeNumber]]
           fresh == {[name |-> n, by |-> FreeNumber] : n \in new}
<1>1. IsFiniteSet(kept) BY FS_Subset DEF RowsInv
<1>2. new \in SUBSET Name BY DEF RowsInv, partitionDependencies
<1>3. IsFiniteSet(new)
  <2> HIDE DEF new
  <2> QED BY <1>2, PushParameters, FS_Subset
<1>4. f \in [new -> fresh] /\ \A y \in fresh : \E n \in new : f[n] = y
  <2> HIDE DEF new
  <2> QED OBVIOUS
<1>5. NewRows(d, k) = kept \cup fresh BY DEF NewRows
<1> HIDE DEF kept, new, f, fresh
<1>6. IsFiniteSet(fresh) BY <1>3, <1>4, FiniteImage
<1> QED BY <1>1, <1>5, <1>6, FS_Union

LEMMA RowsStep == TypeOK /\ RowsInv /\ [Next]_vars => RowsInv'
<1> SUFFICES ASSUME ScanType, RowsInv, [Next]_vars PROVE RowsInv'
    BY TypeParts
<1> DEFINE Written(s) == s.pc = "insert" =>
                           /\ s.names \subseteq Name
                           /\ DOMAIN s.old = KindsOf(s.kind)
                           /\ \A k \in KindsOf(s.kind) : IsFiniteSet(s.old[k])
<1>1. ASSUME NEW d \in Scanner, ScanStep(d) PROVE RowsInv'
  <2>1. ASSUME NEW s, Written(s), Set(d, s)
        PROVE  \A e \in Scanner : Written(scan'[e])
    BY <2>1 DEF Set, RowsInv, ScanType
  <2>2. ASSUME NEW s, s.pc # "insert" PROVE Written(s)
    BY <2>2
  <2>3. scan[d].pc \in {"read", "delete"} => scan[d] \in Reading
    BY DEF ScanType, Idle
  <2>4. (\A k \in Kind : IsFiniteSet(rows'[k])) /\ (\A e \in Scanner : Written(scan'[e])) => RowsInv'
    BY DEF RowsInv
  <2> HIDE DEF Written
  <2>5. CASE \/ \E k \in ScanKind : StartScan(d, k)
             \/ (EndReading(d) /\ ~scan[d].found) \/ ScanFails(d)
    <3>1. rows' = rows
      BY <2>5 DEF StartScan, EndReading, ScanFails, ScanOnly
    <3>2. \A e \in Scanner : Written(scan'[e])
      BY <2>1, <2>2, <2>5 DEF StartScan, EndReading, ScanFails, End, Idle
    <3> QED BY <2>4, <3>1, <3>2 DEF RowsInv
  <2>6. CASE EndReading(d) /\ scan[d].found
    <3>1. [scan[d] EXCEPT !.pc = "delete"].pc = "delete"
      BY <2>3, <2>6 DEF EndReading, Reading
    <3>2. \A e \in Scanner : Written(scan'[e]) BY <2>1, <2>2, <2>6, <3>1 DEF EndReading
    <3> QED BY <2>4, <2>6, <3>2 DEF EndReading, ScanOnly, RowsInv
  <2>7. ASSUME NEW p \in Path, ReadFile(d, p) PROVE RowsInv'
    <3>1. scan[d] \in Reading /\ scan[d].pc = "read"
      BY <2>3, <2>7 DEF ReadFile
    <3>2. ASSUME NEW t, NEW f, NEW ns
          PROVE  [scan[d] EXCEPT !.todo = t, !.found = f, !.names = ns].pc = "read"
      BY <3>1 DEF Reading
    <3>3. \A e \in Scanner : Written(scan'[e]) BY <2>1, <2>2, <2>7, <3>2 DEF ReadFile
    <3> QED BY <2>4, <2>7, <3>3 DEF ReadFile, ScanOnly, RowsInv
  <2>8. CASE DeleteRows(d)
    <3> DEFINE s == [pc |-> "insert", kind |-> scan[d].kind, candidates |-> scan[d].candidates,
                     names |-> scan[d].names,
                     old |-> [k \in KindsOf(scan[d].kind) |-> OldRows(k)]]
    <3>1. scan[d].names \subseteq Name BY <2>3, <2>8 DEF DeleteRows, Reading
    <3>2. \A k \in KindsOf(scan[d].kind) : IsFiniteSet(OldRows(k))
      <4> SUFFICES ASSUME NEW k \in KindsOf(scan[d].kind) PROVE IsFiniteSet(OldRows(k))
        OBVIOUS
      <4>1. k \in Kind BY DEF KindsOf, Kind
      <4>2. OldRows(k) \subseteq rows[k] BY DEF OldRows
      <4> QED BY <4>1, <4>2, FS_Subset DEF RowsInv
    <3>3. Written(s) BY <3>1, <3>2 DEF Written
    <3>4. \A e \in Scanner : Written(scan'[e])
      <4> HIDE DEF s
      <4>1. Set(d, s) BY <2>8 DEF DeleteRows, s
      <4> QED BY <2>1, <3>3, <4>1
    <3> QED BY <2>4, <2>8, <3>4 DEF DeleteRows, ScanOnly, RowsInv
  <2>9. CASE InsertRows(d)
    <3>1. \A e \in Scanner : Written(scan'[e]) BY <2>1, <2>2, <2>9 DEF InsertRows, End, Idle
    <3>2. ASSUME NEW k \in Kind PROVE IsFiniteSet(rows'[k])
      <4>1. rows'[k] = rows[k] \/ rows'[k] = NewRows(d, k) BY <2>9 DEF InsertRows
      <4> QED BY <2>9, <4>1, NewRowsAreFinite DEF RowsInv, InsertRows
    <3> QED BY <2>4, <3>1, <3>2
  <2> QED
    BY <1>1, <2>5, <2>6, <2>7, <2>8, <2>9 DEF ScanStep, EndReading
<1>2. CASE UNCHANGED <<scan, rows>>
  BY <1>2 DEF RowsInv
<1>3. ASSUME NEW n \in Deletable, DeleteCandidate(n) PROVE RowsInv'
  <2>1. scan' = scan BY <1>3 DEF DeleteCandidate
  <2>2. ASSUME NEW k \in Kind PROVE IsFiniteSet(rows'[k])
    <3>1. rows'[k] \subseteq rows[k] BY <1>3 DEF DeleteCandidate, ScanType
    <3> QED BY <3>1, FS_Subset DEF RowsInv
  <2> QED BY <2>1, <2>2 DEF RowsInv
<1> QED
  BY <1>1, <1>2, <1>3, NextParts, RequestsLeaveRows DEF CreateRule, Expires, ExpireSize, vars, graph

-----------------------------------------------------------------------------
(***************************************************************************)
(* Quiet scans.  A scan nothing has disturbed holds what the tip asks for. *)
(***************************************************************************)

NamesRead(k, todo) == UNION {Content[tip][p].names : p \in PathsOf(k) \ todo}

Undisturbed(d) ==
  /\ scan[d].pc # "idle"
  /\ \A e \in Scanner \ {d} : scan[e].pc = "idle" \/ scan[e].kind # scan[d].kind
  /\ scan[d].candidates = candidate
  /\ scan[d].pc = "read" => /\ scan[d].todo \subseteq PathsOf(scan[d].kind)
                            /\ scan[d].names = NamesRead(scan[d].kind, scan[d].todo)
  /\ scan[d].pc # "read" => scan[d].names = NamesRead(scan[d].kind, {})
  /\ scan[d].pc = "insert" => \A k \in KindsOf(scan[d].kind) : scan[d].old[k] = OldRows(k)

AloneInv == \A d \in alone : Undisturbed(d)

LEMMA KindsApart ==
  ASSUME NEW s \in ScanKind, NEW t \in ScanKind, NEW k \in KindsOf(s), k \in KindsOf(t)
  PROVE  s = t /\ k \in Kind /\ s = IF k = "projects" THEN k ELSE "dependencies"
BY DEF KindsOf, ScanKind, Kind

\* A scan that another step leaves alone stays undisturbed.
LEMMA StaysUndisturbed ==
  ASSUME NEW e, Undisturbed(e), scan'[e] = scan[e], tip' = tip, candidate' = candidate,
         \A f \in Scanner \ {e} : scan'[f].pc = "idle" \/ scan'[f].kind # scan[e].kind,
         \A k \in KindsOf(scan[e].kind) : rows'[k] = rows[k]
  PROVE  Undisturbed(e)'
BY DEF Undisturbed, NamesRead, OldRows

LEMMA AloneStep == TypeOK /\ AloneInv /\ [Next]_vars => AloneInv'
<1> SUFFICES ASSUME ScanType, AloneInv, [Next]_vars PROVE AloneInv'
    BY TypeParts
<1>1. ASSUME NEW d \in Scanner, ScanStep(d) PROVE AloneInv'
  <2>1. tip' = tip /\ candidate' = candidate BY <1>1, ScansLeaveRequests
  <2>2. ASSUME NEW s, Set(d, s)
        PROVE  scan'[d] = s /\ \A e \in Scanner \ {d} : scan'[e] = scan[e]
    BY <2>2 DEF Set, ScanType
  <2>3. \A e \in alone : e \in Scanner /\ Undisturbed(e) BY DEF AloneInv, ScanType
  <2>4. scan[d].pc \in {"read", "delete"} => scan[d] \in Reading
    BY DEF ScanType, Idle
  <2>5. scan[d].pc # "idle" => scan[d].kind \in ScanKind
    BY DEF ScanType, Idle, Reading
  \* The others keep what they hold: this one has their kind neither before nor after.
  <2>6. ASSUME NEW e \in alone, e # d, \A f \in Scanner \ {d} : scan'[f] = scan[f],
               scan'[d].pc = "idle" \/ scan'[d].kind # scan[e].kind,
               \A k \in KindsOf(scan[e].kind) : rows'[k] = rows[k]
        PROVE  Undisturbed(e)'
    <3>1. \A f \in Scanner \ {e} : scan'[f].pc = "idle" \/ scan'[f].kind # scan[e].kind
      BY <2>3, <2>6 DEF Undisturbed
    <3>2. scan'[e] = scan[e] BY <2>3, <2>6
    <3> QED BY <2>1, <2>3, <2>6, <3>1, <3>2, StaysUndisturbed
  <2>7. ASSUME NEW k \in ScanKind, StartScan(d, k) PROVE AloneInv'
    <3> DEFINE others == {e \in Scanner : scan[e].pc # "idle" /\ scan[e].kind = k}
               s == [pc |-> "read", kind |-> k, candidates |-> candidate, todo |-> PathsOf(k),
                     found |-> FALSE, names |-> {}]
    <3>1. /\ scan[d].pc = "idle" /\ rows' = rows
          /\ scan'[d] = s /\ \A f \in Scanner \ {d} : scan'[f] = scan[f]
          /\ alone' = (alone \ others) \cup (IF others = {} THEN {d} ELSE {})
      BY <2>2, <2>7 DEF StartScan
    <3>2. s.pc = "read" /\ s.kind = k /\ s.candidates = candidate /\ s.todo = PathsOf(k)
          /\ s.names = {}
      OBVIOUS
    <3> HIDE DEF s
    <3>3. ASSUME NEW e \in alone', e # d PROVE Undisturbed(e)'
      <4>1. e \in alone /\ e \notin others BY <3>1, <3>3
      <4>2. scan[e].kind # k BY <2>3, <4>1 DEF Undisturbed
      <4> QED BY <2>6, <3>1, <3>2, <3>3, <4>1, <4>2
    <3>4. ASSUME d \in alone' PROVE Undisturbed(d)'
      <4>1. d \notin alone BY <2>3, <3>1 DEF Undisturbed
      <4>2. others = {} BY <3>1, <3>4, <4>1
      <4>3. \A e \in Scanner \ {d} : scan'[e].pc = "idle" \/ scan'[e].kind # k
        BY <3>1, <4>2
      <4> QED BY <2>1, <3>1, <3>2, <4>3 DEF Undisturbed, NamesRead
    <3> QED BY <3>3, <3>4 DEF AloneInv
  <2>8. ASSUME NEW p \in Path, ReadFile(d, p) PROVE AloneInv'
    <3>1. /\ scan[d] \in Reading /\ scan[d].pc = "read" /\ p \in scan[d].todo
          /\ rows' = rows /\ alone' = alone
      BY <2>4, <2>8 DEF ReadFile, ScanOnly
    <3> DEFINE file == Content[tip][p]
               found == scan[d].found \/ file.state = "parsed"
                        \/ (file.state = "malformed" /\ scan[d].kind = "dependencies")
               s == [scan[d] EXCEPT !.todo = @ \ {p}, !.found = found, !.names = @ \cup file.names]
    <3>2. /\ s.pc = "read" /\ s.kind = scan[d].kind /\ s.candidates = scan[d].candidates
          /\ s.todo = scan[d].todo \ {p} /\ s.names = scan[d].names \cup Content[tip][p].names
      <4> HIDE DEF found
      <4> QED BY <3>1 DEF Reading
    <3>6. Set(d, s) BY <2>8 DEF ReadFile
    <3> HIDE DEF s, found, file
    <3>3. /\ scan'[d].pc = "read" /\ scan'[d].kind = scan[d].kind
          /\ scan'[d].todo = scan[d].todo \ {p}
          /\ scan'[d].names = scan[d].names \cup Content[tip][p].names
          /\ scan'[d].candidates = scan[d].candidates
          /\ \A f \in Scanner \ {d} : scan'[f] = scan[f]
      BY <2>2, <3>2, <3>6
    <3>4. ASSUME NEW e \in alone, e # d PROVE Undisturbed(e)'
      BY <2>3, <2>6, <3>1, <3>3, <3>4 DEF Undisturbed
    <3>5. ASSUME d \in alone PROVE Undisturbed(d)'
      <4>1. Undisturbed(d) BY <2>3, <3>5
      <4>2. NamesRead(scan[d].kind, scan[d].todo \ {p})
              = NamesRead(scan[d].kind, scan[d].todo) \cup Content[tip][p].names
        <5>1. PathsOf(scan[d].kind) \ (scan[d].todo \ {p})
                = (PathsOf(scan[d].kind) \ scan[d].todo) \cup {p}
          BY <3>1, <4>1 DEF Undisturbed
        <5> QED BY <5>1 DEF NamesRead
      <4> QED BY <2>1, <3>1, <3>3, <4>1, <4>2 DEF Undisturbed, NamesRead
    <3> QED BY <3>1, <3>4, <3>5 DEF AloneInv
  <2>9. CASE EndReading(d) /\ scan[d].found
    <3>1. /\ scan[d] \in Reading /\ scan[d].pc = "read" /\ scan[d].todo = {}
          /\ rows' = rows /\ alone' = alone
          /\ scan'[d] = [scan[d] EXCEPT !.pc = "delete"]
          /\ \A f \in Scanner \ {d} : scan'[f] = scan[f]
      BY <2>2, <2>4, <2>9 DEF EndReading, ScanOnly
    <3>2. /\ scan'[d].pc = "delete" /\ scan'[d].kind = scan[d].kind
          /\ scan'[d].names = scan[d].names /\ scan'[d].candidates = scan[d].candidates
      BY <3>1 DEF Reading
    <3>3. ASSUME NEW e \in alone, e # d PROVE Undisturbed(e)'
      BY <2>3, <2>6, <3>1, <3>2, <3>3 DEF Undisturbed
    <3>4. ASSUME d \in alone PROVE Undisturbed(d)'
      <4>1. Undisturbed(d) BY <2>3, <3>4
      <4> QED BY <2>1, <3>1, <3>2, <4>1 DEF Undisturbed, NamesRead
    <3> QED BY <3>1, <3>3, <3>4 DEF AloneInv
  <2>10. CASE DeleteRows(d)
    <3> DEFINE s == [pc |-> "insert", kind |-> scan[d].kind, candidates |-> scan[d].candidates,
                     names |-> scan[d].names,
                     old |-> [k \in KindsOf(scan[d].kind) |-> OldRows(k)]]
    <3>1. /\ s.pc = "insert" /\ s.kind = scan[d].kind /\ s.names = scan[d].names
          /\ s.candidates = scan[d].candidates
          /\ \A k \in KindsOf(scan[d].kind) : s.old[k] = OldRows(k)
      OBVIOUS
    <3>2. /\ scan[d].pc = "delete" /\ rows' = rows /\ alone' = alone
          /\ scan'[d] = s /\ \A f \in Scanner \ {d} : scan'[f] = scan[f]
      BY <2>2, <2>10 DEF DeleteRows, ScanOnly
    <3> HIDE DEF s
    <3>3. ASSUME NEW e \in alone, e # d PROVE Undisturbed(e)'
      BY <2>3, <2>6, <3>1, <3>2, <3>3 DEF Undisturbed
    <3>4. ASSUME d \in alone PROVE Undisturbed(d)'
      <4>1. Undisturbed(d) BY <2>3, <3>4
      <4>2. \A k : OldRows(k)' = OldRows(k) BY <3>2 DEF OldRows
      <4> QED BY <2>1, <3>1, <3>2, <4>1, <4>2 DEF Undisturbed, NamesRead
    <3> QED BY <3>2, <3>3, <3>4 DEF AloneInv
  <2>11. CASE (EndReading(d) /\ ~scan[d].found) \/ InsertRows(d) \/ ScanFails(d)
    <3>1. /\ scan'[d] = Idle /\ alone' = alone \ {d}
          /\ \A f \in Scanner \ {d} : scan'[f] = scan[f]
          /\ rows' = rows \/ InsertRows(d)
      BY <2>2, <2>11 DEF EndReading, InsertRows, ScanFails, End, ScanOnly
    <3>2. scan'[d].pc = "idle" BY <3>1 DEF Idle
    <3>3. ASSUME NEW e \in alone, e # d PROVE Undisturbed(e)'
      <4>1. Undisturbed(e) /\ e \in Scanner BY <2>3
      <4>2. \A k \in KindsOf(scan[e].kind) : rows'[k] = rows[k]
        <5>1. CASE rows' = rows BY <5>1
        <5>2. CASE InsertRows(d)
          <6>1. scan[d].pc = "insert" BY <5>2 DEF InsertRows
          <6>2. scan[d].kind # scan[e].kind BY <3>3, <4>1, <6>1 DEF Undisturbed
          <6>3. scan[e].kind \in ScanKind
            BY <4>1 DEF Undisturbed, ScanType, Idle, Reading
          <6>4. ASSUME NEW k \in KindsOf(scan[e].kind) PROVE rows'[k] = rows[k]
            <7>1. k \in Kind /\ k \notin KindsOf(scan[d].kind)
              BY <2>5, <6>1, <6>2, <6>3, KindsApart
            <7> QED BY <5>2, <7>1 DEF InsertRows
          <6> QED BY <6>4
        <5> QED BY <3>1, <5>1, <5>2
      <4> QED BY <2>6, <3>1, <3>2, <3>3, <4>2
    <3> QED BY <3>1, <3>3 DEF AloneInv
  <2> QED
    BY <1>1, <2>7, <2>8, <2>9, <2>10, <2>11 DEF ScanStep, EndReading
<1>2. CASE UNCHANGED <<scan, rows, tip, candidate, alone>>
  BY <1>2 DEF AloneInv, Undisturbed, NamesRead, OldRows
<1>3. CASE alone' = {}
  BY <1>3 DEF AloneInv
<1>4. ASSUME NEW h \in Handler, RequestStep(h)
      PROVE  UNCHANGED <<scan, rows, tip, candidate, alone, exact>> \/ (alone' = {} /\ exact' = {})
  <2>1. UNCHANGED <<scan, rows, candidate>> BY <1>4, RequestsLeaveRows
  <2>2. UNCHANGED <<tip, alone, exact>> \/ (alone' = {} /\ exact' = {})
    BY <1>4 DEF RequestStep, StartPush, MeasureStep, getOrganizationStorageBytes,
       getRepositorySize, WalkFails, isWithinLimit, Refuse, ReadRules,
                receivePack, ReceiveFails, AfterPush, graph, Disturb
  <2> QED BY <2>1, <2>2
<1> QED
  BY <1>1, <1>2, <1>3, <1>4, NextParts
     DEF DeleteCandidate, Disturb, CreateRule, Expires, ExpireSize, vars, graph

\* What an undisturbed scan writes
LEMMA WritesWhatIsAsked ==
  ASSUME ScanType, RowsInv, NEW d \in Scanner, Undisturbed(d), InsertRows(d),
         NEW k \in KindsOf(scan[d].kind)
  PROVE  LET detected == {r \in rows'[k] : r.by # ManualRow}
         IN  /\ {r.name : r \in detected} = Asked(k)'
             /\ \A r, q \in detected : r.name = q.name => r = q
<1> DEFINE kept    == {r \in rows[k] : r.by = ManualRow}
           new     == partitionDependencies(d, k)
                        \ IF k = "internal" THEN {} ELSE {r.name : r \in kept}
           fresh   == {[name |-> n, by |-> FreeNumber] : n \in new}
           asked   == UNION {Content[tip][p].names : p \in PathsOf(scan[d].kind)}
<1>1. /\ scan[d].pc = "insert" /\ scan[d].old[k] = OldRows(k)
      /\ scan[d].candidates = candidate /\ scan[d].names = NamesRead(scan[d].kind, {})
      /\ tip' = tip /\ candidate' = candidate
  BY DEF InsertRows, Undisturbed
<1>2. scan[d].kind \in ScanKind BY <1>1 DEF ScanType, Idle, Reading
<1>3. k \in Kind /\ scan[d].kind = IF k = "projects" THEN k ELSE "dependencies"
  BY <1>2, KindsApart
<1>4. rows[k] \ scan[d].old[k] = kept BY <1>1 DEF OldRows
<1>5. rows'[k] = kept \cup fresh
  <2>1. rows'[k] = NewRows(d, k) BY <1>3 DEF InsertRows
  <2> HIDE DEF kept
  <2> QED BY <1>4, <2>1 DEF NewRows
<1>6. FreeNumber # ManualRow BY FreeNumbers
<1>7. {r \in rows'[k] : r.by # ManualRow} = fresh BY <1>5, <1>6
<1>8. {r \in rows'[k] : r.by = ManualRow} = kept BY <1>5, <1>6
<1>9. {r.name : r \in fresh} = new /\ \A r, q \in fresh : r.name = q.name => r = q
  <2> HIDE DEF new
  <2>1. \A r \in fresh : r.name \in new /\ r = [name |-> r.name, by |-> FreeNumber] OBVIOUS
  <2>2. ASSUME NEW n \in new PROVE \E r \in fresh : r.name = n
    <3>1. [name |-> n, by |-> FreeNumber] \in fresh OBVIOUS
    <3>2. [name |-> n, by |-> FreeNumber].name = n OBVIOUS
    <3> HIDE DEF fresh
    <3> QED BY <3>1, <3>2
  <2> HIDE DEF fresh
  <2>3. {r.name : r \in fresh} = new BY <2>1, <2>2
  <2> QED BY <2>1, <2>3
<1>10. scan[d].names = asked BY <1>1 DEF NamesRead
<1>11. Asked(k)' = CASE k = "internal" -> asked \cap candidate
                     [] k = "external" -> (asked \ candidate) \ {r.name : r \in kept}
                     [] k = "projects" -> (asked \cap candidate) \ {r.name : r \in kept}
  <2> HIDE DEF kept
  <2> QED BY <1>1, <1>3, <1>8 DEF Asked
<1>12. new = Asked(k)'
  <2> HIDE DEF kept, asked
  <2> QED BY <1>1, <1>3, <1>10, <1>11 DEF partitionDependencies, Kind
<1> HIDE DEF fresh, new
<1> QED BY <1>7, <1>9, <1>12

LEMMA ExactStep ==
  TypeOK /\ RowsInv /\ AloneInv /\ QuietScanRepairs /\ [Next]_vars => QuietScanRepairs'
<1> SUFFICES ASSUME ScanType, RowsInv, AloneInv, QuietScanRepairs, [Next]_vars
             PROVE  QuietScanRepairs'
    BY TypeParts
<1>1. CASE UNCHANGED <<rows, tip, candidate, exact>>
  <2>1. ASSUME NEW k PROVE Asked(k)' = Asked(k) BY <1>1 DEF Asked
  <2> QED BY <1>1, <2>1 DEF QuietScanRepairs
<1>2. CASE exact' = {}
  BY <1>2 DEF QuietScanRepairs
<1>3. ASSUME NEW h \in Handler, RequestStep(h)
      PROVE  UNCHANGED <<rows, tip, candidate, exact>> \/ exact' = {}
  <2>1. UNCHANGED <<rows, candidate>> BY <1>3, RequestsLeaveRows
  <2>2. UNCHANGED <<tip, exact>> \/ exact' = {}
    BY <1>3 DEF RequestStep, StartPush, MeasureStep, getOrganizationStorageBytes,
       getRepositorySize, WalkFails, isWithinLimit, Refuse, ReadRules,
                receivePack, ReceiveFails, AfterPush, graph, Disturb
  <2> QED BY <2>1, <2>2
<1>4. ASSUME NEW d \in Scanner, ScanStep(d), ~InsertRows(d)
      PROVE  UNCHANGED <<rows, tip, candidate, exact>>
  BY <1>4 DEF ScanStep, StartScan, ReadFile, EndReading, DeleteRows, ScanFails, ScanOnly
<1>5. ASSUME NEW d \in Scanner, InsertRows(d) PROVE QuietScanRepairs'
  <2>1. scan[d].kind \in ScanKind BY <1>5 DEF InsertRows, ScanType, Idle, Reading
  <2>2. tip' = tip /\ candidate' = candidate BY <1>5 DEF InsertRows
  <2> SUFFICES ASSUME NEW s \in exact', NEW k \in KindsOf(s)
               PROVE  LET detected == {r \in rows'[k] : r.by # ManualRow}
                      IN  /\ {r.name : r \in detected} = Asked(k)'
                          /\ \A r, q \in detected : r.name = q.name => r = q
    BY DEF QuietScanRepairs
  <2>3. s \in ScanKind BY <1>5, <2>1 DEF InsertRows, ScanType
  <2>4. CASE s = scan[d].kind
    <3>1. d \in alone BY <1>5, <2>4 DEF InsertRows
    <3>2. Undisturbed(d) BY <3>1 DEF AloneInv
    <3> QED BY <1>5, <2>4, <3>2, WritesWhatIsAsked
  <2>5. CASE s # scan[d].kind
    <3>1. s \in exact BY <1>5, <2>5 DEF InsertRows
    <3>2. k \in Kind /\ k \notin KindsOf(scan[d].kind) BY <2>1, <2>3, <2>5, KindsApart
    <3>3. rows'[k] = rows[k] BY <1>5, <3>2 DEF InsertRows
    <3>4. Asked(k)' = Asked(k) BY <2>2, <3>3 DEF Asked
    <3> QED BY <3>1, <3>3, <3>4 DEF QuietScanRepairs
  <2> QED BY <2>4, <2>5
<1> QED
  BY <1>1, <1>2, <1>3, <1>4, <1>5, NextParts
     DEF DeleteCandidate, Disturb, CreateRule, Expires, ExpireSize, vars, graph, ScanStep

\* A scan that ran alone leaves exactly the rows the tip asks for, each once
\* (Push!QuietScanRepairs).
THEOREM QuietScansRepair == Spec => []QuietScanRepairs
<1> DEFINE Inv == TypeOK /\ RowsInv /\ AloneInv /\ QuietScanRepairs
<1>1. Init => Inv
  BY TypeInit, RowsInit DEF Init, AloneInv, QuietScanRepairs
<1>2. Inv /\ [Next]_vars => Inv'
  BY RowsStep, AloneStep, ExactStep, TypeParts, PushTypeStep, ScanTypeStep, EdgesStep
     DEF PushType, ScanType, EdgesResolve, TypeOK, Caller
<1> QED
  BY <1>1, <1>2, PTL DEF Spec

=============================================================================
