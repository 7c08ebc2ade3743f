----------------------------- MODULE Repository -----------------------------
(***************************************************************************)
(* The life of one user's repositories, each a database row and a bare     *)
(* repository on disk that nothing ties together: createRepositoryWithGit, *)
(* initializeRepository, renameRepository, deleteRepository and the        *)
(* generic updateRepository, with pushes in between.  An update may carry   *)
(* a slug or an owner, too, which strands the storage: clients rename with *)
(* renameRepository here, as its comment asks them to.                     *)
(*                                                                         *)
(* Rows and storage are written by separate awaits of the same handler:    *)
(* each is an action, any of which may fail, lose its answer or be the     *)
(* last its process does.                                                  *)
(***************************************************************************)
EXTENDS Naturals, FiniteSets, FiniteSetsExt

CONSTANTS
  Caller,      \* request handlers
  Repo,        \* row ids, never reused
  Slug, Branch,
  Pushed,      \* branches clients push
  ConfigHead,  \* gitStorageConfig.defaultBranch
  Created,     \* places clients create repositories in
  Patched,     \* places the generated update puts repositories in
  Limit,       \* private repositories the organization's plan allows
  Mirrored,    \* whether the organization's slug is in the database
  Serial,      \* whether clients keep operations on the same names apart
  FailAt,      \* steps whose storage operation may fail
  LostAt,      \* steps whose backend call may succeed and answer false
  CrashAt,     \* steps in front of which the process may die
  MaxCrashes   \* bound on those deaths

ASSUME RepositoryAssumption ==
  /\ IsFiniteSet(Caller) /\ Caller # {} /\ IsFiniteSet(Repo)
  /\ {"none", "deleted"} \cap Slug = {}
  /\ ConfigHead \in Branch /\ Pushed \subseteq Branch
  /\ Created \cup Patched \subseteq [org : BOOLEAN, private : BOOLEAN]
  /\ Limit \in Nat /\ MaxCrashes \in Nat

VARIABLES row,     \* repository table
          store,   \* storage path -> bare repository
          call, crashes

vars == <<row, store, call, crashes>>

\* In the organization or not, private or public
Place == [org : BOOLEAN, private : BOOLEAN]

Dir == {"user", "org"}
Path == Dir \X Slug

NoRepo == [slug |-> "none"]
Deleted == [slug |-> "deleted"]
NoStore == [on |-> FALSE, branches |-> {}, head |-> ConfigHead]

Live == {r \in Repo : row[r].slug \in Slug}

Idle == [pc |-> "idle", id |-> {}, slugs |-> {}]

TypeOK ==
  /\ \A r \in Repo : row[r] \in {NoRepo, Deleted}
                                \cup [slug : Slug, place : Place, patched : BOOLEAN]
  /\ store \in [Path -> [on : BOOLEAN, branches : SUBSET Branch, head : Branch]]
  /\ \A p \in Caller : /\ call[p].id \subseteq Repo /\ Cardinality(call[p].id) <= 1
                       /\ call[p].slugs \subseteq Slug
  /\ crashes \in 0..MaxCrashes

\* A repository is addressed and stored under its owner's username.
Home(r) == <<"user", row[r].slug>>

\* Mutant: the plan's last repository is one too many
withinLimitOrEqual(n) == n <= Limit

\* checkLimit over the entitlements of the organization
isWithinLimit(n) == n < Limit

\* Mutant: the organization's slug, mirrored or not
orgSlug(r) == IF row[r].place.org THEN "org" ELSE "user"

\* The organization's slug before the owner's username: rename, initialize and the
\* default-branch sync look there.
getOwnerSlug(r) == IF row[r].place.org /\ Mirrored THEN "org" ELSE "user"

\* Unique index on (owner, slug)
Taken(s) == \E r \in Live : row[r].slug = s

Init ==
  /\ row = [r \in Repo |-> NoRepo]
  /\ store = [x \in Path |-> NoStore]
  /\ call = [p \in Caller |-> Idle]
  /\ crashes = 0

Answer(p) == call' = [call EXCEPT ![p] = Idle]
Goto(p, pc) == call' = [call EXCEPT ![p].pc = pc]

\* A client starts an operation on the repositories ids and the slugs named
MayStart(p, ids, slugs) ==
  /\ call[p].pc = "idle"
  /\ Serial => \A q \in Caller : call[q].id \cap ids = {} /\ call[q].slugs \cap slugs = {}

\* A storage operation at step pc: its result and the boolean it answers
Outcomes(pc, did) ==
  {[store |-> did, ok |-> TRUE]}
    \cup (IF pc \in FailAt THEN {[store |-> store, ok |-> FALSE]} ELSE {})
    \cup (IF pc \in LostAt THEN {[store |-> did, ok |-> FALSE]} ELSE {})

-----------------------------------------------------------------------------
\* Storage (repositoryService).  git.init leaves a repository that is there as it is.

init(x) == IF store[x].on THEN store
           ELSE [store EXCEPT ![x] = [on |-> TRUE, branches |-> {}, head |-> ConfigHead]]

delete(x) == [store EXCEPT ![x] = NoStore]

\* Refused onto a target that exists or from a source that does not
rename(x, y) == IF store[x].on /\ ~store[y].on
                  THEN [store EXCEPT ![x] = NoStore, ![y] = store[x]]
                  ELSE store

\* HEAD moves only to a branch that exists.
setDefaultBranch(x, b) ==
  IF b \in store[x].branches THEN [store EXCEPT ![x].head = b] ELSE store

-----------------------------------------------------------------------------
\* createRepositoryWithGit

\* What counts against the plan: private repositories of the organization
Counted(place) == place.org /\ place.private

PrivateCount == Cardinality({r \in Live : Counted(row[r].place)})

StartCreate(p, s, place) ==
  /\ MayStart(p, {}, {s})
  /\ IF Counted(place) /\ ~isWithinLimit(PrivateCount)
       THEN Answer(p)
       ELSE call' = [call EXCEPT ![p] =
              [pc |-> "insert", id |-> {}, slugs |-> {s}, slug |-> s, place |-> place]]
  /\ UNCHANGED <<row, store, crashes>>

InsertRow(p) ==
  LET c == call[p]
      r == CHOOSE i \in Repo : row[i] = NoRepo
  IN  /\ c.pc = "insert"
      /\ IF Taken(c.slug) \/ ~\E i \in Repo : row[i] = NoRepo
           THEN Answer(p) /\ UNCHANGED row
           ELSE /\ row' = [row EXCEPT ![r] = [slug |-> c.slug, place |-> c.place,
                                              patched |-> FALSE]]
                /\ call' = [call EXCEPT ![p].pc = "init", ![p].id = {r}]
      /\ UNCHANGED <<store, crashes>>

InitStorage(p) ==
  /\ call[p].pc = "init"
  /\ \E o \in Outcomes("init", init(<<"user", call[p].slug>>)) :
       /\ store' = o.store
       /\ IF o.ok THEN Answer(p) ELSE Goto(p, "undoCreate")
  /\ UNCHANGED <<row, crashes>>

UndoCreate(p) ==
  /\ call[p].pc = "undoCreate"
  /\ row' = [r \in Repo |-> IF r \in call[p].id THEN Deleted ELSE row[r]]
  /\ Answer(p)
  /\ UNCHANGED <<store, crashes>>

\* initializeRepository, for a row whose storage is missing (or not)
StartInitialize(p, r) ==
  /\ r \in Live /\ MayStart(p, {r}, {row[r].slug})
  /\ call' = [call EXCEPT ![p] = [pc |-> "initialize", id |-> {r}, slugs |-> {row[r].slug},
                                  path |-> <<getOwnerSlug(r), row[r].slug>>]]
  /\ UNCHANGED <<row, store, crashes>>

Initialize(p) ==
  /\ call[p].pc = "initialize"
  /\ \E o \in Outcomes("initialize", init(call[p].path)) : store' = o.store
  /\ Answer(p)
  /\ UNCHANGED <<row, crashes>>

-----------------------------------------------------------------------------
\* renameRepository: the row, then the storage, then the row back if that failed

StartRename(p, r, s) ==
  /\ r \in Live /\ s # row[r].slug /\ MayStart(p, {r}, {s, row[r].slug})
  /\ IF Taken(s)
       THEN Answer(p)
       ELSE call' = [call EXCEPT ![p] =
              [pc |-> "updateRow", id |-> {r}, slugs |-> {s, row[r].slug},
               dir |-> getOwnerSlug(r), old |-> row[r].slug, new |-> s]]
  /\ UNCHANGED <<row, store, crashes>>

\* UPDATE ... WHERE id: the unique index refuses a slug taken meanwhile; a row that is
\* gone is no error.
SetSlug(p, s) ==
  row' = [r \in Repo |-> IF r \in call[p].id \cap Live THEN [row[r] EXCEPT !.slug = s] ELSE row[r]]

Refused(p, s) == \E r \in Live \ call[p].id : row[r].slug = s

UpdateRow(p) ==
  /\ call[p].pc = "updateRow"
  /\ IF Refused(p, call[p].new)
       THEN Answer(p) /\ UNCHANGED row
       ELSE SetSlug(p, call[p].new) /\ Goto(p, "move")
  /\ UNCHANGED <<store, crashes>>

MoveStorage(p) ==
  LET moved == rename(<<call[p].dir, call[p].old>>, <<call[p].dir, call[p].new>>)
  IN  /\ call[p].pc = "move"
      /\ \E o \in Outcomes("move", moved) :
           /\ store' = o.store
           /\ IF o.ok /\ moved # store THEN Answer(p) ELSE Goto(p, "undoRename")
      /\ UNCHANGED <<row, crashes>>

\* Mutant: the row keeps the slug its storage did not move to
KeepSlug(p) ==
  /\ call[p].pc = "undoRename"
  /\ Answer(p)
  /\ UNCHANGED <<row, store, crashes>>

\* The roll back is not guarded: a slug taken meanwhile makes it throw.
UndoRename(p) ==
  /\ call[p].pc = "undoRename"
  /\ IF Refused(p, call[p].old) THEN UNCHANGED row ELSE SetSlug(p, call[p].old)
  /\ Answer(p)
  /\ UNCHANGED <<store, crashes>>

-----------------------------------------------------------------------------
\* deleteRepository: the storage first, whose failure is swallowed, then the row

StartDelete(p, r) ==
  /\ r \in Live /\ MayStart(p, {r}, {row[r].slug})
  /\ call' = [call EXCEPT ![p] = [pc |-> "unlink", id |-> {r}, slugs |-> {row[r].slug},
                                  path |-> Home(r)]]
  /\ UNCHANGED <<row, store, crashes>>

\* Mutant: the storage is left where it is
rowOnly(p) ==
  /\ call[p].pc = "unlink"
  /\ Goto(p, "deleteRow")
  /\ UNCHANGED <<row, store, crashes>>

deleteRepositoryStorageById(p) ==
  /\ call[p].pc = "unlink"
  /\ \E o \in Outcomes("unlink", delete(call[p].path)) : store' = o.store
  /\ Goto(p, "deleteRow")
  /\ UNCHANGED <<row, crashes>>

DeleteRow(p) ==
  /\ call[p].pc = "deleteRow"
  /\ row' = [r \in Repo |-> IF r \in call[p].id THEN Deleted ELSE row[r]]
  /\ Answer(p)
  /\ UNCHANGED <<store, crashes>>

-----------------------------------------------------------------------------
\* updateRepository.  A patch of the visibility or the organization is one statement, and
\* no limit is asked; patched is an observation.  A patch of the default branch, which no
\* property reads in the row, is followed by HEAD, at the slug the row has by then; a
\* patch of both is the two in turn.

PatchPlace(r, place) ==
  /\ r \in Live
  /\ row' = [row EXCEPT ![r] = [slug |-> row[r].slug, place |-> place, patched |-> TRUE]]
  /\ UNCHANGED <<store, call, crashes>>

UpdateDefaultBranch(p, r, b) ==
  /\ r \in Live /\ MayStart(p, {r}, {row[r].slug})
  /\ call' = [call EXCEPT ![p] = [pc |-> "readRow", id |-> {r}, slugs |-> {row[r].slug}, head |-> b]]
  /\ UNCHANGED <<row, store, crashes>>

ReadRow(p) ==
  LET gone == call[p].id \cap Live = {}
      r == CHOOSE i \in call[p].id : TRUE
  IN  /\ call[p].pc = "readRow"
      /\ IF gone THEN Answer(p)
         ELSE call' = [call EXCEPT ![p] = [pc |-> "sync", id |-> {r}, slugs |-> call[p].slugs,
                         path |-> <<getOwnerSlug(r), row[r].slug>>, head |-> call[p].head]]
      /\ UNCHANGED <<row, store, crashes>>

syncDefaultBranch(p) ==
  /\ call[p].pc = "sync"
  /\ \E o \in Outcomes("sync", setDefaultBranch(call[p].path, call[p].head)) : store' = o.store
  /\ Answer(p)
  /\ UNCHANGED <<row, crashes>>

-----------------------------------------------------------------------------
\* A push is routed by owner and slug through the row to the storage.
Push(r, b) ==
  /\ r \in Live /\ store[Home(r)].on
  /\ store' = [store EXCEPT ![Home(r)].branches = @ \cup {b}]
  /\ UNCHANGED <<row, call, crashes>>

Crash(p) == /\ crashes < MaxCrashes /\ call[p].pc \in CrashAt
            /\ crashes' = crashes + 1
            /\ Answer(p)
            /\ UNCHANGED <<row, store>>

CallStep(p) == InsertRow(p) \/ InitStorage(p) \/ UndoCreate(p) \/ Initialize(p)
               \/ UpdateRow(p) \/ MoveStorage(p) \/ UndoRename(p)
               \/ deleteRepositoryStorageById(p) \/ DeleteRow(p)
               \/ ReadRow(p) \/ syncDefaultBranch(p)

Next ==
  \/ \E p \in Caller :
       \/ \E s \in Slug, place \in Created : StartCreate(p, s, place)
       \/ \E r \in Repo : \/ StartInitialize(p, r)
                          \/ \E s \in Slug : StartRename(p, r, s)
                          \/ StartDelete(p, r)
                          \/ \E b \in Branch : UpdateDefaultBranch(p, r, b)
       \/ CallStep(p)
       \/ Crash(p)
  \/ \E r \in Repo, place \in Patched : PatchPlace(r, place)
  \/ \E r \in Repo, b \in Pushed : Push(r, b)

\* A handler resumes after every await, storage does not fail every time, and clients
\* initialize a repository again while it cannot be cloned.
Fairness ==
  /\ \A p \in Caller : WF_vars(CallStep(p))
  /\ SF_vars(\E p \in Caller, r \in Live : ~store[Home(r)].on /\ StartInitialize(p, r))
  /\ SF_vars(\E p \in Caller : Initialize(p) /\ store' # store)

Spec == Init /\ [][Next]_vars
FairSpec == Spec /\ Fairness

-----------------------------------------------------------------------------
\* Properties

\* Where the storage of r is while its row has moved ahead of it
Location(r) ==
  IF \E p \in Caller : r \in call[p].id /\ call[p].pc \in {"move", "undoRename"}
    THEN LET p == CHOOSE q \in Caller : r \in call[q].id IN <<"user", call[p].old>>
    ELSE Home(r)

\* Storage on disk belongs to a repository there is, or to one being created: failed
\* creations and renames leave nothing a later repository of that name would inherit
\* (RepositoryDelete.plugin.ts, "so nothing is left behind").
NoOrphans ==
  \A x \in Path : store[x].on => \E r \in Live : Location(r) = x

\* The plan's limit is read before the insert, so overlapping creations can pass it, by
\* no more than there are of them.  Only creations are limited: the generated update
\* makes any number of repositories private, and those it touched are left out here
\* (createRepository.ts, checkLimit; authorization/Repository.plugin.ts).
LimitOvershoot ==
  Cardinality({r \in Live : Counted(row[r].place) /\ ~row[r].patched})
    <= Limit + Cardinality(Caller) - 1

\* With finitely many deaths and clients that ask again, a repository whose storage was
\* never made becomes one that can be cloned (GitMutations.plugin.ts,
\* initializeRepository).
BecomesCloneable == \A r \in Repo : r \in Live ~> (r \notin Live \/ store[Home(r)].on)

\* No branch pushed is lost by renaming, failing to rename, re-initializing or changing
\* the default branch, and no repository shows another's branches, a deleted one's
\* included: the detailed operations implement RepositoryContract.
Removed(r) ==
  row[r] = Deleted \/ \E p \in Caller : r \in call[p].id /\ call[p].pc = "deleteRow"

Contract == INSTANCE RepositoryContract WITH
  Repo   <- Repo,
  Branch <- Branch,
  life   <- [r \in Repo |-> IF Removed(r) THEN "deleted"
                           ELSE IF r \in Live THEN "live" ELSE "absent"],
  work   <- [r \in Repo |-> IF r \notin Live \/ Removed(r) THEN {}
                           ELSE store[Location(r)].branches]

ImplementsContract == Contract!ContractSpec
=============================================================================
