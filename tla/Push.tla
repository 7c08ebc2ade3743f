-------------------------------- MODULE Push --------------------------------
(***************************************************************************)
(* Pushes over Smart-HTTP to the repositories of an organization, from the  *)
(* storage check to the scans they start: the dependency graph and the      *)
(* project memberships read back from the default branch.  One repository,  *)
(* Here, is followed to its rows; of the others only the size is.           *)
(*                                                                         *)
(* Only the default branch is pushed to; Git itself refuses its deletion    *)
(* and compares the old value of a ref it updates.  A scan's transaction    *)
(* runs at READ COMMITTED: what it deletes is what was committed when its   *)
(* delete began.  It reads files under the owner's name as the organization *)
(* has it now, taken here to be where the repository is stored.             *)
(***************************************************************************)
EXTENDS Naturals, FiniteSets

CONSTANTS
  Repository,   \* those of the organization
  Here,         \* the one followed
  Commit, FirstCommit,
  Parent,       \* Commit -> its parent, FirstCommit its own
  Content,      \* Commit -> path -> [state, names]
  Path,         \* manifests, and the project descriptor
  Descriptor,   \* the path of the descriptor
  Name,         \* names of packages and projects
  Manual,       \* names with a row of their own made by hand
  Candidates,   \* names that are repositories or projects of the same owner at first
  Deletable,    \* those of them that may go
  Handler,      \* requests that push
  Writer,       \* those of callers who own the repository or collaborate; the others push
                \* by their role in the organization
  Scanner,
  MaxBusy,      \* bound on requests and scans under way at once
  Limit,        \* max_storage_bytes, in pushes
  MaxPushes,
  Events        \* what may happen: a new "rule", "expiry" of a size, "growth" or "failure" of a walk

ASSUME PushParameters ==
  /\ IsFiniteSet(Repository) /\ Here \in Repository
  /\ IsFiniteSet(Handler) /\ Handler # {} /\ IsFiniteSet(Scanner) /\ IsFiniteSet(Name)
  /\ Writer \subseteq Handler /\ Descriptor \in Path
  /\ FirstCommit \in Commit /\ Parent \in [Commit -> Commit]
  /\ Content \in [Commit -> [Path -> [state : {"absent", "malformed", "parsed"}, names : SUBSET Name]]]
  /\ Manual \subseteq Name /\ Candidates \subseteq Name /\ Deletable \subseteq Candidates /\ Limit \in Nat /\ MaxPushes \in Nat

VARIABLES
  tip,        \* the default branch
  protected,  \* a branch protection rule matches it
  bytes,      \* repository -> what it takes on disk
  cache,      \* repository -> what the size cache says, while the entry is younger than 30 s
  blind,      \* observation: repository -> what was pushed there by requests whose walk of it failed
  handler,
  due,        \* kinds of scans started and not yet run
  scan,
  rows,       \* kind -> rows: [name, by], by "manual" or by a scan's number
  candidate,  \* those of Candidates that are still there
  alone,      \* observation: scans under way that no other and no change has touched
  exact,      \* observation: kinds whose last scan ran alone on what is there now
  pushes

vars == <<tip, protected, bytes, cache, blind, handler, due, scan, rows, candidate, alone, exact, pushes>>
storage == <<bytes, cache, blind>>
graph == <<due, scan, rows, candidate, alone, exact>>

Kind == {"internal", "external", "projects"}
ScanKind == {"dependencies", "projects"}
KindsOf(k) == IF k = "projects" THEN {"projects"} ELSE {"internal", "external"}
PathsOf(k) == IF k = "projects" THEN {Descriptor} ELSE Path \ {Descriptor}

Missing == Limit + MaxPushes + 1     \* no entry in the cache
ManualRow == 0

Idle == [pc |-> "idle"]

Received == [pc : {"size", "rules", "refused"}, to : Repository, ruled : BOOLEAN, blind : BOOLEAN]
Measured == [pc : {"walk"}, to : Repository, ruled : BOOLEAN, size : [Repository -> Nat],
             walking : SUBSET Repository, failed : SUBSET Repository]
Checked  == [pc : {"pack", "after"}, to : Repository, ruled : BOOLEAN, blind : BOOLEAN,
             rules : BOOLEAN, before : Commit]

Reading  == [pc : {"read", "delete"}, kind : ScanKind, candidates : SUBSET Candidates,
             todo : SUBSET Path, found : BOOLEAN, names : SUBSET Name]

TypeOK ==
  /\ tip \in Commit /\ protected \in BOOLEAN
  /\ bytes \in [Repository -> Nat] /\ cache \in [Repository -> Nat] /\ blind \in [Repository -> Nat]
  /\ pushes \in Nat
  /\ handler \in [Handler -> {Idle} \cup Received \cup Measured \cup Checked]
  /\ due \subseteq ScanKind /\ alone \subseteq Scanner /\ exact \subseteq ScanKind
  /\ DOMAIN scan = Scanner /\ DOMAIN rows = Kind
  /\ \A d \in Scanner : \/ scan[d] \in {Idle} \cup Reading
                        \/ scan[d].pc = "insert" /\ scan[d].kind \in ScanKind
  /\ candidate \subseteq Candidates
  /\ \A r \in rows["internal"] \cup rows["projects"] : r.name \in candidate

Init ==
  /\ tip = FirstCommit /\ protected = FALSE
  /\ bytes = [r \in Repository |-> 0] /\ cache = [r \in Repository |-> Missing]
  /\ blind = [r \in Repository |-> 0]
  /\ handler = [h \in Handler |-> Idle]
  /\ due = {} /\ scan = [d \in Scanner |-> Idle]
  /\ candidate = Candidates
  /\ rows = [k \in Kind |-> {[name |-> n, by |-> ManualRow] :
                               n \in IF k = "external" THEN Manual \ candidate
                                     ELSE Manual \cap candidate}]
  /\ alone = {} /\ exact = {} /\ pushes = 0

Become(h, record) == handler' = [handler EXCEPT ![h] = record]

-----------------------------------------------------------------------------
\* The push

Busy == Cardinality({h \in Handler : handler[h].pc # "idle"})
        + Cardinality({d \in Scanner : scan[d].pc # "idle"})

\* gateWrite has let the caller through.
StartPush(h, r) ==
  /\ handler[h].pc = "idle" /\ Busy < MaxBusy
  /\ Become(h, [pc |-> "size", to |-> r, ruled |-> protected, blind |-> FALSE])
  /\ UNCHANGED <<tip, protected, storage, graph, pushes>>

\* Every repository of the organization is measured at once: a size in the cache is taken,
\* any other is walked for.
getOrganizationStorageBytes(h) ==
  /\ handler[h].pc = "size"
  /\ Become(h, [pc |-> "walk", to |-> handler[h].to, ruled |-> handler[h].ruled,
                size |-> [r \in Repository |-> IF cache[r] # Missing THEN cache[r] ELSE bytes[r]],
                walking |-> {r \in Repository : cache[r] = Missing}, failed |-> {}])
  /\ UNCHANGED <<tip, protected, storage, graph, pushes>>

SizeWith(h, r, size) == [handler[h].size EXCEPT ![r] = size]

\* A walk finds all that was there when it began, and any of what came since.  Its size is
\* cached over whatever the cache holds by then.
getRepositorySize(h, r) ==
  /\ handler[h].pc = "walk" /\ r \in handler[h].walking
  /\ \E size \in handler[h].size[r] .. bytes[r] :
       /\ size = handler[h].size[r] \/ "growth" \in Events
       /\ cache' = [cache EXCEPT ![r] = size]
       /\ Become(h, [handler[h] EXCEPT !.size = SizeWith(h, r, size), !.walking = @ \ {r}])
  /\ UNCHANGED <<tip, protected, bytes, blind, graph, pushes>>

\* A file is gone when the walk comes to it: the repository counts as empty, this once.
WalkFails(h, r) ==
  /\ "failure" \in Events
  /\ handler[h].pc = "walk" /\ r \in handler[h].walking
  /\ Become(h, [handler[h] EXCEPT !.size = SizeWith(h, r, 0), !.walking = @ \ {r}, !.failed = @ \cup {r}])
  /\ UNCHANGED <<tip, protected, storage, graph, pushes>>

Usage(size) == Cardinality(UNION {{r} \X (1 .. size[r]) : r \in Repository})

isWithinLimit(h) ==
  /\ handler[h].pc = "walk" /\ handler[h].walking = {}
  /\ Become(h, [pc |-> IF Usage(handler[h].size) < Limit THEN "rules" ELSE "refused",
                to |-> handler[h].to, ruled |-> handler[h].ruled,
                blind |-> handler[h].to \in handler[h].failed])
  /\ UNCHANGED <<tip, protected, storage, graph, pushes>>

Refuse(h) ==
  /\ handler[h].pc = "refused"
  /\ Become(h, Idle)
  /\ UNCHANGED <<tip, protected, storage, graph, pushes>>

\* The rules, then the tip before the push, are read.
ReadRules(h) ==
  /\ handler[h].pc = "rules"
  /\ Become(h, [pc |-> "pack", to |-> handler[h].to, ruled |-> handler[h].ruled,
                blind |-> handler[h].blind, rules |-> protected, before |-> tip])
  /\ UNCHANGED <<tip, protected, storage, graph, pushes>>

\* Mutant: an ancestry check that cannot tell lets the push through
isForcePushOpen(old, new) == FALSE

Up[n \in 0..Cardinality(Commit)] ==
  IF n = 0 THEN [c \in Commit |-> c] ELSE [c \in Commit |-> Parent[Up[n - 1][c]]]

Descends(new, old) == \E n \in 0..Cardinality(Commit) : Up[n][new] = old

isForcePush(old, new) == ~Descends(new, old)

Refused(h, new) == handler[h].rules /\ isForcePush(tip, new)

\* Observation: no scan, ended or under way, ran on what is there any more
Disturb == alone' = {} /\ exact' = {}

Accepts(h, new) == IF handler[h].to = Here THEN {~Refused(h, new)} ELSE BOOLEAN

\* The pack is written, and the hook decides on the ref with the rules of the request.
receivePack(h, new) ==
  LET to == handler[h].to
  IN  /\ handler[h].pc = "pack" /\ pushes < MaxPushes
      /\ pushes' = pushes + 1
      /\ Become(h, [handler[h] EXCEPT !.pc = "after"])
      /\ \E accepted \in Accepts(h, new) :
           /\ bytes' = IF accepted THEN [bytes EXCEPT ![to] = @ + 1] ELSE bytes
           /\ blind' = IF accepted /\ handler[h].blind THEN [blind EXCEPT ![to] = @ + 1] ELSE blind
           /\ IF accepted /\ to = Here
                THEN tip' = new /\ Disturb /\ UNCHANGED <<due, scan, rows, candidate>>
                ELSE UNCHANGED <<tip, graph>>
      /\ UNCHANGED <<protected, cache>>

\* Git failed: 500, and the cache stays.
ReceiveFails(h) ==
  /\ handler[h].pc = "pack"
  /\ Become(h, Idle)
  /\ UNCHANGED <<tip, protected, storage, graph, pushes>>

\* Mutant: the next push reads the size this one read
KeepSizeCache(r) == UNCHANGED cache

invalidateRepositorySizeCache(r) == cache' = [cache EXCEPT ![r] = Missing]

\* The answer to the client, and the scans started without waiting for them.  Those who
\* push by their role in the organization may not scan.
hasWriteAccess(h) == h \in Writer

AfterPush(h) ==
  /\ handler[h].pc = "after"
  /\ invalidateRepositorySizeCache(handler[h].to)
  /\ due' = due \cup (IF handler[h].to = Here /\ tip # handler[h].before /\ hasWriteAccess(h)
                       THEN ScanKind ELSE {})
  /\ Become(h, Idle)
  /\ UNCHANGED <<tip, protected, bytes, blind, scan, rows, candidate, alone, exact, pushes>>

-----------------------------------------------------------------------------
\* A scan: discoverDependencies or reconcileProjectMembership

Set(d, record) == scan' = [scan EXCEPT ![d] = record]
End(d) == Set(d, Idle) /\ alone' = alone \ {d}

StartScan(d, k) ==
  LET others == {e \in Scanner : scan[e].pc # "idle" /\ scan[e].kind = k}
  IN  /\ scan[d].pc = "idle" /\ Busy < MaxBusy
      /\ k \in due /\ due' = due \ {k}
      /\ Set(d, [pc |-> "read", kind |-> k, candidates |-> candidate, todo |-> PathsOf(k),
                 found |-> FALSE, names |-> {}])
      /\ alone' = (alone \ others) \cup (IF others = {} THEN {d} ELSE {})
      /\ UNCHANGED <<tip, protected, storage, handler, rows, candidate, exact, pushes>>

ScanOnly == UNCHANGED <<tip, protected, storage, handler, due, rows, candidate, exact, pushes>>

\* One file after another, each at the tip there is by then.  A malformed manifest counts
\* as found with no dependencies; a malformed descriptor ends the scan.
ReadFile(d, p) ==
  LET file == Content[tip][p]
  IN  /\ scan[d].pc = "read" /\ p \in scan[d].todo
      /\ Set(d, [scan[d] EXCEPT !.todo = @ \ {p},
                                !.found = @ \/ file.state = "parsed"
                                            \/ (file.state = "malformed" /\ scan[d].kind = "dependencies"),
                                !.names = @ \cup file.names])
      /\ ScanOnly /\ UNCHANGED alone

\* Nothing found leaves the rows as they are.
EndReading(d) ==
  /\ scan[d].pc = "read" /\ scan[d].todo = {}
  /\ IF scan[d].found THEN Set(d, [scan[d] EXCEPT !.pc = "delete"]) /\ UNCHANGED alone
                      ELSE End(d)
  /\ ScanOnly

\* Mutant: the delete does not look at the source of a row
OldRowsOfAnySource(k) == {r \in rows[k] : TRUE}

OldRows(k) == {r \in rows[k] : r.by # ManualRow}

DeleteRows(d) ==
  /\ scan[d].pc = "delete"
  /\ Set(d, [pc |-> "insert", kind |-> scan[d].kind, candidates |-> scan[d].candidates,
             names |-> scan[d].names, old |-> [k \in KindsOf(scan[d].kind) |-> OldRows(k)]])
  /\ ScanOnly /\ UNCHANGED alone

\* The numbers of the rows there are, and of those a scan is about to replace
UsedNumbers ==
  {r.by : r \in UNION {rows[k] : k \in Kind}}
  \cup {r.by : r \in UNION {UNION {scan[d].old[k] : k \in DOMAIN scan[d].old} :
                              d \in {e \in Scanner : scan[e].pc = "insert"}}}

FreeNumber ==
  LET numbers == 1 .. (Cardinality(UsedNumbers) + 1)
  IN  CHOOSE i \in numbers : i \notin UsedNumbers /\ \A j \in numbers : j < i => j \in UsedNumbers

\* Mutant: what resolves to a repository is taken for a package, too
PartitionTwice(d, k) == scan[d].names

\* Which of the names read make rows of this kind
partitionDependencies(d, k) ==
  IF k = "external" THEN scan[d].names \ scan[d].candidates
                    ELSE scan[d].names \cap scan[d].candidates

\* The unique index of the edges holds the branch, null in all these rows, and nulls are
\* distinct: no edge is ever skipped there.
NewRows(d, k) ==
  LET kept == rows[k] \ scan[d].old[k]
      skipped == IF k = "internal" THEN {} ELSE {r.name : r \in kept}
  IN  kept \cup {[name |-> n, by |-> FreeNumber] : n \in partitionDependencies(d, k) \ skipped}

\* An edge to a repository deleted meanwhile fails its foreign key and rolls all back.
InsertRows(d) ==
  LET kinds == KindsOf(scan[d].kind)
  IN  /\ scan[d].pc = "insert"
      /\ scan[d].names \cap scan[d].candidates \subseteq candidate
      /\ rows' = [k \in Kind |-> IF k \in kinds THEN NewRows(d, k) ELSE rows[k]]
      /\ exact' = IF d \in alone THEN exact \cup {scan[d].kind} ELSE exact \ {scan[d].kind}
      /\ End(d)
      /\ UNCHANGED <<tip, protected, storage, handler, due, candidate, pushes>>

\* A failure, or a restart: it is logged, and nothing scans again.
ScanFails(d) == scan[d].pc # "idle" /\ End(d) /\ ScanOnly

-----------------------------------------------------------------------------
\* Around them

CreateRule == /\ "rule" \in Events /\ ~protected /\ protected' = TRUE
              /\ UNCHANGED <<tip, storage, handler, graph, pushes>>

\* A repository or project of the owner's goes, and with it the rows that name it.
DeleteCandidate(n) ==
  /\ n \in candidate
  /\ candidate' = candidate \ {n}
  /\ rows' = [rows EXCEPT !["internal"] = {r \in @ : r.name # n},
                          !["projects"] = {r \in @ : r.name # n}]
  /\ Disturb
  /\ UNCHANGED <<tip, protected, storage, handler, due, scan, pushes>>

\* Thirty seconds pass.
ExpireSize(r) == /\ "expiry" \in Events /\ cache[r] # Missing /\ cache' = [cache EXCEPT ![r] = Missing]
                 /\ UNCHANGED <<tip, protected, bytes, blind, handler, graph, pushes>>

Next ==
  \/ \E h \in Handler :
       \/ \E r \in Repository : StartPush(h, r) \/ getRepositorySize(h, r) \/ WalkFails(h, r)
       \/ getOrganizationStorageBytes(h) \/ isWithinLimit(h) \/ Refuse(h) \/ ReadRules(h)
       \/ \E new \in Commit \ {tip} : receivePack(h, new)
       \/ ReceiveFails(h) \/ AfterPush(h)
  \/ \E d \in Scanner :
       \/ \E k \in ScanKind : StartScan(d, k)
       \/ \E p \in Path : ReadFile(d, p)
       \/ EndReading(d) \/ DeleteRows(d) \/ InsertRows(d) \/ ScanFails(d)
  \/ \E n \in Deletable : DeleteCandidate(n)
  \/ CreateRule \/ \E r \in Repository : ExpireSize(r)

Spec == Init /\ [][Next]_vars

-----------------------------------------------------------------------------
\* Properties

\* Requests that pass the storage check together exceed max_storage_bytes, and a size
\* walked before a push and cached after it lets all of them pass once more: n of them
\* bring a repository n(n + 1)/2 - 1 pushes beyond it, and one alone none.  That holds for
\* each repository, not for their sum, for an old size of one makes room for all others;
\* and a request whose walk of the repository failed passes whatever is there
\* (routes/git.routes.ts, git/storage.config.ts: check, cache and invalidation).
StorageOvershoot ==
  LET n == Cardinality(Handler)
  IN  \A r \in Repository : bytes[r] <= Limit + (n * (n + 1)) \div 2 - 1 + blind[r]

\* Branch protection is "enforced for every pusher": a push that began after the rule was
\* there leaves the branch with its history, whatever overlaps it
\* (routes/git.routes.ts, git/hooks/preReceiveHook.ts).
ProtectedHistoryStays ==
  [][\/ tip' = tip
     \/ Descends(tip', tip)
     \/ \E h \in Handler : handler[h].pc = "pack" /\ handler'[h].pc = "after" /\ ~handler[h].ruled]_vars

\* "manually created edges are left untouched": scans of any kind, overlapping or failing,
\* leave the rows made by hand alone, until what they name is deleted
\* (dependencies/discoverDependencies.service.ts, reconcileProjectMembership.service.ts).
ManualRowsStay ==
  [][\A k \in Kind : \A r \in rows[k] :
       r.by = ManualRow => r \in rows'[k] \/ (k # "external" /\ r.name \notin candidate')]_vars

\* A scan that ran alone leaves exactly the rows the tip asks for, each once, whatever
\* earlier overlapping scans left behind; a name with a row made by hand gets no second
\* one, except among the edges, where ManualEdgeWins fails
\* (dependencies/discoverDependencies.service.ts).
Asked(k) ==
  LET names == UNION {Content[tip][p].names : p \in PathsOf(IF k = "projects" THEN k ELSE "dependencies")}
      byHand == {r.name : r \in {q \in rows[k] : q.by = ManualRow}}
  IN  CASE k = "internal" -> names \cap candidate
        [] k = "external" -> (names \ candidate) \ byHand
        [] k = "projects" -> (names \cap candidate) \ byHand

QuietScanRepairs ==
  \A s \in exact : \A k \in KindsOf(s) :
    LET detected == {r \in rows[k] : r.by # ManualRow}
    IN  /\ {r.name : r \in detected} = Asked(k)
        /\ \A r, q \in detected : r.name = q.name => r = q

\* "a manually created edge for the same pair wins; skip rather than dupe": no edge a scan
\* wrote is there beside one made by hand (dependencies/discoverDependencies.service.ts).
ManualEdgeWins ==
  \A r, q \in rows["internal"] : r.name = q.name /\ r.by = ManualRow => q.by = ManualRow
=============================================================================
