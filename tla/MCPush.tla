------------------------------- MODULE MCPush -------------------------------
(***************************************************************************)
(* Instances of Push: two commits on the first one, so that a push of      *)
(* either over the other rewrites history, and one of them without a       *)
(* readable manifest.  Both handlers may write, and both scanners do the   *)
(* same, so they can be permuted.                                          *)
(***************************************************************************)
EXTENDS Push, TLC

CONSTANTS h1, h2, here, there, c0, c1, c2, npm, descriptor, core, ui, lodash, left

File(state, names) == [state |-> state, names |-> names]

OneParent == [c \in Commit |-> c0]

AllFiles ==
  (c0 :> (npm :> File("parsed", {core, lodash, left}) @@ descriptor :> File("absent", {}))) @@
  (c1 :> (npm :> File("malformed", {}) @@ descriptor :> File("parsed", {core, ui}))) @@
  (c2 :> (npm :> File("parsed", {ui, left}) @@ descriptor :> File("malformed", {})))

Files == [c \in Commit |-> AllFiles[c]]

Alike == Permutations(Handler) \cup Permutations(Scanner)

\* A behaviour looks at the scans of the one repository, or at the sizes of all; either
\* way, everything else stands still.
VARIABLE focus

ScansOnly ==
  /\ \A h \in Handler : handler'[h].pc # "idle" => handler'[h].to = Here
  /\ \A h \in Handler : handler'[h].pc = "walk" =>
        handler'[h].failed = {} /\ handler'[h].walking \in {{}, {Here}, Repository}
  /\ \A r \in Repository \ {Here} : cache'[r] # cache[r] => cache'[r] = 0

SizesOnly == /\ UNCHANGED <<protected, candidate, scan>>
             /\ tip' # c2

InitFocus == Init /\ focus \in {"scans", "sizes"}

NextFocus ==
  /\ Next /\ UNCHANGED focus
  /\ focus = "scans" => ScansOnly
  /\ focus = "sizes" => SizesOnly

SpecFocus == InitFocus /\ [][NextFocus]_<<vars, focus>>
=============================================================================
