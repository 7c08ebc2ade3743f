------------------------------- MODULE GitViews -------------------------------
(***************************************************************************)
(* What is read of a git repository: git/git.service.ts and the fields of  *)
(* the plugins GitTypes and GitDiff that call it.                          *)
(*                                                                         *)
(* A tree is a function from the paths of its files, sequences of names,   *)
(* to [oid, mode]; its directories are the proper prefixes of its paths.   *)
(* A blob is its oid.  A store is                                          *)
(*   [tree, parents, time, heads, tags, current, binary]                   *)
(* with, per commit, its tree, its parents and its time; the branches and  *)
(* tags; the branch of HEAD; the oids with a NUL byte.  A repository whose *)
(* storage is missing is NULL.  A reference is a commit or                 *)
(* <<prefix, name>>.  The backend is taken to answer as the local store    *)
(* does; submodules are left out.                                          *)
(***************************************************************************)
EXTENDS Naturals, SequencesExt

CONSTANT NULL

Commits(store) == DOMAIN store.tree

EmptyTree == <<>>

entryType(tree, path) ==
  IF path \in DOMAIN tree THEN "blob"
  ELSE IF \E file \in DOMAIN tree : IsStrictPrefix(path, file) THEN "tree"
  ELSE NULL

entryOid(tree, path) == IF path \in DOMAIN tree THEN tree[path].oid ELSE NULL

\* What is stored at a path and below it
Under(tree, path) ==
  [file \in {f \in DOMAIN tree : IsPrefix(path, f)} |-> tree[file].oid]

-----------------------------------------------------------------------------
(* References and commits *)

resolveRef(store, ref) ==
  IF ref \in Commits(store) THEN ref
  ELSE IF ref[1] = "refs/heads/" /\ ref[2] \in DOMAIN store.heads THEN store.heads[ref[2]]
  ELSE IF ref[1] = "refs/tags/" /\ ref[2] \in DOMAIN store.tags THEN store.tags[ref[2]]
  ELSE NULL

getHead(store) == resolveRef(store, <<"refs/heads/", store.current>>)

getCommit(store, sha) ==
  IF sha \in Commits(store) THEN [oid |-> sha, parents |-> store.parents[sha]] ELSE NULL

\* What is in every set of commits that has the commit and the parents of its own
History(store, commit) ==
  {c \in Commits(store) :
     \A known \in SUBSET Commits(store) :
       /\ commit \in known
       /\ \A d \in known : ToSet(store.parents[d]) \subseteq known
       => c \in known}

\* The log of the git library: the history, newest first.  No two commits of a
\* history are of the same time.
NewestFirst(store, ref) ==
  LET commit   == resolveRef(store, ref)
      history  == IF commit = NULL THEN {} ELSE History(store, commit)
      Newer(c) == {d \in history : store.time[d] > store.time[c]}
  IN  [i \in 1 .. Cardinality(history) |->
         CHOOSE c \in history : Cardinality(Newer(c)) = i - 1]

\* As many as asked for and skipped are read, then the skipped ones dropped
getLog(store, ref, depth, skip) ==
  LET read == SubSeq(NewestFirst(store, ref), 1,
                     Min({depth + skip, Len(NewestFirst(store, ref))}))
  IN  SubSeq(read, skip + 1, Len(read))

\* The newest commit both have in their history
getMergeBase(store, a, b) ==
  LET x == resolveRef(store, a)
      y == resolveRef(store, b)
      common == IF x = NULL \/ y = NULL THEN {} ELSE History(store, x) \cap History(store, y)
  IN  IF common = {} THEN NULL
      ELSE CHOOSE c \in common : \A d \in common : store.time[d] <= store.time[c]

listBranches(store) ==
  {[name |-> b, sha |-> store.heads[b], isDefault |-> b = store.current] :
     b \in DOMAIN store.heads}

listTags(store) == {[name |-> t, sha |-> store.tags[t]] : t \in DOMAIN store.tags}

-----------------------------------------------------------------------------
(* Files *)

\* An unknown reference, and a path that is no directory, list nothing
getTree(store, ref, path) ==
  LET commit == resolveRef(store, ref)
      files  == IF commit = NULL THEN {}
                ELSE {f \in DOMAIN store.tree[commit] : IsStrictPrefix(path, f)}
  IN  {[path |-> f[Len(path) + 1],
        type |-> entryType(store.tree[commit], SubSeq(f, 1, Len(path) + 1))] : f \in files}

getFileRaw(store, ref, path) ==
  LET commit == resolveRef(store, ref)
  IN  IF commit = NULL \/ path = <<>> THEN NULL ELSE entryOid(store.tree[commit], path)

\* Any blob decodes: the text of a blob is again its oid
getFileContent(store, ref, path) == getFileRaw(store, ref, path)

\* The files whose blob differs.  A name that is a directory on either side
\* is not reported, the files below it are.
collectChangedPaths(base, head) ==
  {path \in DOMAIN base \cup DOMAIN head :
     /\ "tree" \notin {entryType(base, path), entryType(head, path)}
     /\ entryOid(base, path) # entryOid(head, path)}

treeOf(store, ref) ==
  IF ref = NULL THEN EmptyTree ELSE store.tree[resolveRef(store, ref)]

FirstParent(store, commit) ==
  IF store.parents[commit] = <<>> THEN NULL ELSE Head(store.parents[commit])

\* Mutant: a directory is touched when its own path changed
touchedItself(changedPaths, path, type) == path \in changedPaths

touched(changedPaths, path, type) ==
  IF type = "tree" THEN \E p \in changedPaths : IsStrictPrefix(path, p)
  ELSE path \in changedPaths

\* The newest commit that changed the entry against its first parent; an entry
\* no commit changed has none
getTreeLastCommits(store, ref, path) ==
  LET log        == NewestFirst(store, ref)
      Changed(c) == collectChangedPaths(treeOf(store, FirstParent(store, c)), store.tree[c])
      Touching(entry) ==
        {i \in DOMAIN log : touched(Changed(log[i]), Append(path, entry.path), entry.type)}
  IN  {[path |-> e.path, commitOid |-> log[Min(Touching(e))]] :
         e \in {f \in getTree(store, ref, path) : Touching(f) # {}}}

-----------------------------------------------------------------------------
(* Differences.  A NULL base is the empty tree. *)

isBinaryContent(store, oid) == oid \in store.binary

\* Mutant: a deletion is taken for no difference
getChangedOrAdded(store, base, head) ==
  {[path |-> p, status |-> "MODIFIED",
    oldOid |-> entryOid(treeOf(store, base), p), newOid |-> entryOid(treeOf(store, head), p),
    isBinary |-> FALSE] :
     p \in collectChangedPaths(treeOf(store, base), treeOf(store, head))
           \cap DOMAIN treeOf(store, head)}

getChangedFiles(store, base, head) ==
  LET old == treeOf(store, base)
      new == treeOf(store, head)
      Status(p) == IF entryOid(old, p) = NULL THEN "ADDED"
                   ELSE IF entryOid(new, p) = NULL THEN "DELETED"
                   ELSE IF old[p].mode # new[p].mode THEN "TYPE_CHANGED"
                   ELSE "MODIFIED"
      Sample(p) == IF entryOid(new, p) # NULL THEN entryOid(new, p) ELSE entryOid(old, p)
  IN  {[path |-> p, status |-> Status(p), oldOid |-> entryOid(old, p),
        newOid |-> entryOid(new, p), isBinary |-> isBinaryContent(store, Sample(p))] :
         p \in collectChangedPaths(old, new)}

getFileDiffContent(store, base, head, path) ==
  LET new == getFileRaw(store, head, path)
      old == IF base = NULL THEN NULL ELSE getFileRaw(store, base, path)
      isBinary == isBinaryContent(store, IF new # NULL THEN new ELSE old)
  IN  IF new = NULL /\ old = NULL THEN NULL
      ELSE [status   |-> IF old = NULL THEN "ADDED"
                         ELSE IF new = NULL THEN "DELETED" ELSE "MODIFIED",
            isBinary |-> isBinary,
            oldText  |-> IF isBinary THEN NULL ELSE old,
            newText  |-> IF isBinary THEN NULL ELSE new]

-----------------------------------------------------------------------------
(* Fields of the schema *)

commitTree(store, oid) == getTree(store, oid, <<>>)

commitParents(store, oid) ==
  SelectSeq(store.parents[oid], LAMBDA p : getCommit(store, p) # NULL)

commitHistory(store, oid, first, offset) ==
  getLog(store, oid, IF first = NULL THEN 20 ELSE first, IF offset = NULL THEN 0 ELSE offset)

\* A file is binary if it has bytes and no text
treeEntryObject(store, oid, path, type) ==
  IF type = "tree" THEN [entries |-> getTree(store, oid, path)]
  ELSE LET content == getFileContent(store, oid, path)
           raw     == getFileRaw(store, oid, path)
       IN  [isBinary |-> content = NULL /\ raw # NULL, text |-> content]

repositoryRef(store, ref) ==
  IF store = NULL THEN NULL
  ELSE IF ref[1] \notin {"refs/heads/", "refs/tags/"} THEN NULL
  ELSE resolveRef(store, ref)

\* A page of the references and the number of all of them
repositoryRefs(store, prefix, first) ==
  LET refs == IF store = NULL THEN {}
              ELSE IF prefix = "refs/heads/" THEN {b.name : b \in listBranches(store)}
              ELSE IF prefix = "refs/tags/" THEN {t.name : t \in listTags(store)}
              ELSE {}
      limit == IF first = NULL THEN 100 ELSE first
  IN  [nodes |-> SubSeq(SetToSeq(refs), 1, Min({limit, Cardinality(refs)})),
       totalCount |-> Cardinality(refs)]

defaultBranchRef(store, defaultBranch) ==
  IF store = NULL THEN NULL ELSE resolveRef(store, <<"refs/heads/", defaultBranch>>)

repositoryCommit(store, sha) == IF store = NULL THEN NULL ELSE getCommit(store, sha)

\* Unrelated histories are compared with the target's tip
resolvePrRefs(store, pull) ==
  LET source == <<"refs/heads/", pull.sourceBranch>>
      target == <<"refs/heads/", pull.targetBranch>>
      parted == getMergeBase(store, target, source)
  IN  IF store = NULL THEN NULL
      ELSE IF resolveRef(store, source) = NULL THEN NULL
      ELSE [base |-> IF parted = NULL THEN resolveRef(store, target) ELSE parted,
            head |-> resolveRef(store, source)]

pullRequestChangedFiles(store, pull) ==
  LET refs == resolvePrRefs(store, pull)
  IN  IF refs = NULL THEN {} ELSE getChangedFiles(store, refs.base, refs.head)

pullRequestFileDiff(store, pull, path) ==
  LET refs == resolvePrRefs(store, pull)
  IN  IF refs = NULL \/ path = <<>> THEN NULL
      ELSE getFileDiffContent(store, refs.base, refs.head, path)

commitChangedFiles(store, oid) == getChangedFiles(store, FirstParent(store, oid), oid)

commitFileDiff(store, oid, path) ==
  IF path = <<>> THEN NULL ELSE getFileDiffContent(store, FirstParent(store, oid), oid, path)
=============================================================================
