------------------------------ MODULE IAVLStore ------------------------------
(***************************************************************************)
(* The saved versions of the app store and how old ones are deleted:       *)
(* IAVLStore, which Application.Commit prunes after every block, and       *)
(* PruningIAVLStore, which a thread of its own prunes in batches.          *)
(*                                                                         *)
(* A version is its number; what a version holds is left to AppStore.      *)
(***************************************************************************)
EXTENDS Integers, FiniteSets

CONSTANTS
  Background,   \* TRUE: PruningIAVLStore, FALSE: IAVLStore
  MaxVersions,  \* configured number of versions to keep, zero to keep all
  BatchSize,    \* PruneBatchSize
  LastVersion,  \* bound on the number of blocks
  MaxRestarts,  \* bound on restarts
  MaxErrors     \* bound on failed deletions

ASSUME ConfigAssumption ==
  /\ Background \in BOOLEAN
  /\ MaxVersions \in Nat /\ BatchSize \in Nat \ {0}
  /\ LastVersion \in Nat /\ MaxRestarts \in Nat /\ MaxErrors \in Nat

VARIABLES
  versions,   \* the saved versions in the node DB
  latest,     \* the version of the tree
  oldestVer,  \* where the pruning thread goes on, zero if unknown
  commit,     \* "idle", or "prune" between SaveVersion and Prune of a Commit
  restarts, errors  \* restarts and failed deletions so far

vars == <<versions, latest, oldestVer, commit, restarts, errors>>

\* maxVersions: at least two versions are kept, unless all are.
Kept == IF MaxVersions # 0 /\ MaxVersions < 2 THEN 2 ELSE MaxVersions

Init ==
  /\ versions = {} /\ latest = 0 /\ oldestVer = 0
  /\ commit = "idle" /\ restarts = 0 /\ errors = 0

-----------------------------------------------------------------------------
SaveVersion ==
  /\ commit = "idle" /\ latest < LastVersion
  /\ latest' = latest + 1
  /\ versions' = versions \cup {latest + 1}
  /\ oldestVer' = IF Background /\ oldestVer = 0 THEN latest + 1 ELSE oldestVer
  /\ commit' = IF Background THEN "idle" ELSE "prune"
  /\ UNCHANGED <<restarts, errors>>

\* IAVLStore.Prune: one version is deleted; an error is only logged.
Prune ==
  /\ commit = "prune"
  /\ commit' = "idle"
  /\ \/ /\ versions' = IF Kept = 0 THEN versions ELSE versions \ {latest - Kept}
        /\ UNCHANGED errors
     \/ /\ Kept # 0 /\ latest - Kept \in versions
        /\ errors < MaxErrors /\ errors' = errors + 1
        /\ UNCHANGED versions
  /\ UNCHANGED <<latest, oldestVer, restarts>>

Least(m, n) == IF m <= n THEN m ELSE n

\* Mutated end of a batch: one version too far.
EndOfBatchInclusive ==
  LET endVer == latest - Kept + 1
  IN  IF endVer - oldestVer > BatchSize THEN oldestVer + BatchSize ELSE endVer

\* The last version of the batch that prune deletes.
EndOfBatch ==
  LET endVer == latest - Kept
      batch == IF endVer - oldestVer > BatchSize THEN oldestVer + BatchSize ELSE endVer
  IN  Least(batch, latest - 2)

\* Mutated prune: a version that could not be deleted is not tried again.
PruneSkipsFailed ==
  /\ Background /\ Kept # 0
  /\ oldestVer # 0 /\ oldestVer <= latest - Kept
  /\ \/ /\ versions' = versions \ (oldestVer .. EndOfBatch)
        /\ UNCHANGED errors
     \/ /\ errors < MaxErrors /\ errors' = errors + 1
        /\ \E failed \in versions \cap (oldestVer .. EndOfBatch) :
             versions' = versions \ (oldestVer .. failed - 1)
  /\ oldestVer' = EndOfBatch + 1
  /\ UNCHANGED <<latest, commit, restarts>>

\* Mutated prune: it waits for one version more than it keeps.
PruneLate ==
  /\ Background /\ Kept # 0
  /\ oldestVer # 0 /\ oldestVer < latest - Kept
  /\ versions' = versions \ (oldestVer .. EndOfBatch)
  /\ oldestVer' = EndOfBatch + 1
  /\ UNCHANGED <<latest, commit, restarts, errors>>

\* PruningIAVLStore.prune, which holds the lock of the store throughout.  It
\* ends at the first version that cannot be deleted.
PruneBatch ==
  /\ Background /\ Kept # 0
  /\ oldestVer # 0 /\ oldestVer <= latest - Kept
  /\ \/ /\ versions' = versions \ (oldestVer .. EndOfBatch)
        /\ oldestVer' = EndOfBatch + 1
        /\ UNCHANGED errors
     \/ /\ errors < MaxErrors /\ errors' = errors + 1
        /\ \E failed \in versions \cap (oldestVer .. EndOfBatch) :
             /\ versions' = versions \ (oldestVer .. failed - 1)
             /\ oldestVer' = failed
  /\ UNCHANGED <<latest, commit, restarts>>

\* The node stops anywhere between these steps; NewIAVLStore and
\* NewPruningIAVLStore load the latest version again.
Restart ==
  /\ restarts < MaxRestarts /\ restarts' = restarts + 1
  /\ commit' = "idle"
  /\ IF Background /\ Kept # 0 /\ BatchSize > 1 /\ versions # {}
       THEN \E v \in versions : (\A w \in versions : v <= w) /\ oldestVer' = v
       ELSE oldestVer' = 0
  /\ UNCHANGED <<versions, latest, errors>>

Next == SaveVersion \/ Prune \/ PruneBatch \/ Restart

Spec == Init /\ [][Next]_vars

-----------------------------------------------------------------------------
\* Properties

\* Types: versions are saved one after the other, and nothing is kept that was
\* not saved.
TypeOK ==
  /\ versions \subseteq 1 .. latest
  /\ latest \in 0 .. LastVersion
  /\ oldestVer \in 0 .. latest
  /\ commit \in {"idle", "prune"}
  /\ restarts \in 0 .. MaxRestarts /\ errors \in 0 .. MaxErrors

\* "always keep at least 2 of the latest versions": whatever is configured,
\* pruned, restarted or fails, the last two versions can be loaded.
RecentKept == (latest - 1 .. latest) \cap (1 .. latest) \subseteq versions

\* The pruning thread never leaves a version behind that it will not come back
\* to: everything older than oldestVer is gone.
NothingLeftBehind == oldestVer # 0 => \A v \in versions : v >= oldestVer

=============================================================================
