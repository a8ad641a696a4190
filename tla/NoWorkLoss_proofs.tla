-------------------------- MODULE NoWorkLoss_proofs --------------------------
(***************************************************************************)
(* Proofs about no-work-loss for every set of paths, contents, commands    *)
(* and starting repositories, any number of commits by another session,    *)
(* and any step failing except read-tree HEAD (ReadTreeWorks).  A failed   *)
(* read-tree drops the branch's history, which TLC exhibits in a run.      *)
(*                                                                         *)
(* The inductive invariant IInv follows what a chain is made of: the disk  *)
(* is untouched until the command runs (DiskStands), the working version   *)
(* of the risk paths moves from tmp to the last tree of the chain to the   *)
(* commit to the branch (Carried), and what earlier findings committed is  *)
(* on the branch and in every commit built on it (Earlier).                *)
(*                                                                         *)
(* What the command then does to the other paths needs more: that they     *)
(* read as git's status found them (Bystanders), which makes WorkingKept   *)
(* inductive for commands whose findings name what they destroy            *)
(* (FindingsCover).  StagedKept follows a staged version from the list to  *)
(* the branch (StagedMoves); it needs a branch with a commit (Born) and a  *)
(* listing that does not fail (ListWorks).  BystandersKept and             *)
(* NoEmptyCommit hold while nobody else commits (NobodyElse).              *)
(***************************************************************************)
EXTENDS NoWorkLoss, SequenceTheorems, TLAPS

\* read-tree HEAD succeeds whenever there is a HEAD to read.
ReadTreeWorks == "seed" \notin Failing

Preserving == {"seed", "headtree", "list", "cacheinfo", "stagedtree", "add",
               "write", "commit", "ref", "reset", "push"}

\* The working version of every path of P is on the branch.
Kept(branch, P) ==
    \A p \in P : stood.disk[p] \in Content => InBranch(branch, p, stood.disk[p])

\* Each path of P had no content in the working tree.
Bare(P) == \A p \in P : stood.disk[p] \notin Content

Before(k) == AtRisk(command[k], seen[1])

Judging1 ==
    /\ seen = << >> => at = 1
    /\ pc \in Preserving => /\ seen # << >> /\ at <= Len(command)
                            /\ risk = Before(at)

DiskStands == pc \notin {"run", "done"} => disk = stood.disk

Carried ==
    /\ pc = "write" => \A p \in risk : tmp[p] = stood.disk[p]
    /\ pc = "commit" => \A p \in risk : trees[Len(trees)][p] = stood.disk[p]
    /\ pc = "ref" => Kept(commit, risk)
    /\ pc \in {"reset", "push"} => Kept(head, risk)

Earlier ==
    /\ \A k \in 1..at-1 : Kept(head, Before(k))
    /\ pc \in Preserving \ {"seed"} /\ ~hasHead => \A k \in 1..at-1 : Bare(Before(k))
    /\ pc \in {"commit", "ref"} /\ commit # << >> => \A k \in 1..at-1 : Kept(commit, Before(k))
    /\ pc = "ref" => commit # << >>
    /\ pc \in {"seed", "headtree", "list", "cacheinfo", "stagedtree", "add", "write"} =>
          commit = << >>

IInv == TypeOK /\ Judging1 /\ DiskStands /\ Carried /\ Earlier

-----------------------------------------------------------------------------
(* Lemmas about the operators. *)

LEMMA EmptyType == Empty \in Tree
BY DEF Empty, Tree, Blob

LEMMA TipType == ASSUME NEW branch \in Seq(Tree) PROVE Tip(branch) \in Tree
BY EmptyType DEF Tip

LEMMA AtRiskType ==
    ASSUME NEW f \in Finding, NEW st PROVE AtRisk(f, st) \subseteq Path
BY DEF AtRisk, Finding

\* A commit on top of a branch keeps all the branch holds, and adds its tree.
LEMMA AppendKeeps ==
    ASSUME NEW branch \in Seq(Tree), NEW t \in Tree, NEW p, NEW c
    PROVE  /\ InBranch(branch, p, c) => InBranch(Append(branch, t), p, c)
           /\ t[p] = c => InBranch(Append(branch, t), p, c)
<1>1. Len(Append(branch, t)) = Len(branch) + 1 /\ Append(branch, t)[Len(branch) + 1] = t
  OBVIOUS
<1>2. \A i \in 1..Len(branch) : Append(branch, t)[i] = branch[i]
  OBVIOUS
<1>3. DOMAIN Append(branch, t) = 1..Len(branch) + 1 /\ DOMAIN branch = 1..Len(branch)
  OBVIOUS
<1>4. ASSUME InBranch(branch, p, c) PROVE InBranch(Append(branch, t), p, c)
  <2>1. PICK i \in 1..Len(branch) : branch[i][p] = c
    BY <1>3, <1>4 DEF InBranch
  <2> QED
    BY <1>2, <1>3, <2>1 DEF InBranch
<1>5. ASSUME t[p] = c PROVE InBranch(Append(branch, t), p, c)
  BY <1>1, <1>3, <1>5 DEF InBranch
<1> QED
  BY <1>4, <1>5

LEMMA AppendKept ==
    ASSUME NEW branch \in Seq(Tree), NEW t \in Tree, NEW P, Kept(branch, P)
    PROVE  Kept(Append(branch, t), P)
BY AppendKeeps DEF Kept

LEMMA NothingInEmpty == ASSUME NEW P, Kept(<< >>, P) PROVE Bare(P)
BY DEF Kept, Bare, InBranch

-----------------------------------------------------------------------------
(* Type correctness, relative to where judging stands. *)

LEMMA InitType == ASSUME Init PROVE TypeOK
<1>1. PICK r \in Repos, c \in Commands :
        /\ disk = r.disk /\ index = r.index /\ head = r.head /\ remote = r.remote
        /\ command = c /\ stood = r
  BY DEF Init
<1>2. r \in Repo /\ c \in Seq(Finding) /\ Len(c) \in Nat
  BY <1>1, ConstantsAssumption
<1>3. disk \in Tree /\ index \in Index /\ head \in Seq(Tree) /\ remote \in Seq(Tree)
  BY <1>1, <1>2 DEF Repo
<1>4. command \in Seq(Finding) /\ stood \in Repo /\ at \in 1..Len(command) + 1
      /\ ran \in 0..Len(command) /\ peers \in 0..Peers
  BY <1>1, <1>2, ConstantsAssumption DEF Init
<1>5. seen \in Seq([tracked : SUBSET Path, untracked : SUBSET Path]) /\ Len(seen) <= 1
  BY DEF Init
<1>6. Build /\ pc = "judge" /\ verdict = "none"
  <2>1. << >> \in Seq(Tree)
    OBVIOUS
  <2>2. trees = << >> /\ commit = << >> /\ tmp = Empty /\ pc = "judge" /\ verdict = "none"
    BY DEF Init
  <2>3. risk = {} /\ hasHead = FALSE /\ headTree = {} /\ staged = {} /\ pushed = FALSE
    BY DEF Init
  <2>4. tmp \in Tree /\ trees \in Seq(Tree) /\ commit \in Seq(Tree)
    BY <2>1, <2>2, EmptyType
  <2>5. risk \subseteq Path /\ headTree \subseteq Tree /\ staged \subseteq Path \X Content
    BY <2>3
  <2> QED
    BY <2>2, <2>3, <2>4, <2>5 DEF Build
<1> QED
  BY <1>3, <1>4, <1>5, <1>6 DEF TypeOK

LEMMA StepType ==
    ASSUME TypeOK, Judging1, [Next]_vars
    PROVE  TypeOK'
<1> USE DEF TypeOK, Build
<1>1. CASE UNCHANGED vars
  BY <1>1 DEF vars, repo, build
<1>2. CASE JudgeDenies
  BY <1>2 DEF JudgeDenies, Deny, repo, build
<1>3. CASE Probe
  <2>1. Status \in [tracked : SUBSET Path, untracked : SUBSET Path]
    BY DEF Status
  <2> QED
    BY <1>3, <2>1 DEF Probe, Judging, repo, build
<1>4. CASE ProbeFails
  BY <1>4 DEF ProbeFails, Deny, repo, build
<1>5. CASE JudgeHarmless
  BY <1>5 DEF JudgeHarmless, Judging, repo, build
<1>6. CASE JudgeAtRisk
  <2>1. command[at] \in Finding
    BY <1>6 DEF JudgeAtRisk, Judging
  <2>2. risk' \subseteq Path
    BY <1>6, <2>1, AtRiskType DEF JudgeAtRisk
  <2>3. Build'
    <3>1. << >> \in Seq(Tree)
      OBVIOUS
    <3>2. trees' \in Seq(Tree) /\ commit' \in Seq(Tree) /\ tmp' \in Tree
      BY <1>6, <3>1, EmptyType DEF JudgeAtRisk
    <3>3. headTree' \subseteq Tree /\ staged' \subseteq Path \X Content
      BY <1>6 DEF JudgeAtRisk
    <3>4. hasHead' \in BOOLEAN /\ pushed' \in BOOLEAN /\ pc' # "commit"
      BY <1>6 DEF JudgeAtRisk
    <3> QED
      BY <2>2, <3>2, <3>3, <3>4
  <2> QED
    BY <1>6, <2>3 DEF JudgeAtRisk, repo
<1>7. CASE Allow
  BY <1>7 DEF Allow, repo, build
<1>8. CASE TempFails
  BY <1>8 DEF TempFails, Deny, Quiet, repo, build
<1>9. CASE Seed
  BY <1>9, EmptyType, TipType DEF Seed, Quiet, repo
<1>10. CASE ReadHeadTree
  BY <1>10, TipType DEF ReadHeadTree, Quiet, repo
<1>11. CASE ListStaged
  BY <1>11 DEF ListStaged, Quiet, repo
<1>12. CASE CacheInfo
  BY <1>12 DEF CacheInfo, Quiet, repo, Tree, Blob
<1>13. CASE StagedTree
  BY <1>13 DEF StagedTree, Quiet, repo
<1>14. CASE StagedGivesUp
  BY <1>14 DEF StagedGivesUp, Quiet, repo, build
<1>15. CASE Add
  BY <1>15 DEF Add, Quiet, repo, Tree
<1>16. CASE AddRefused
  BY <1>16 DEF AddRefused, Deny, Quiet, repo, build
<1>17. CASE WriteTree
  <2>1. Chain \in Seq(Tree) /\ Chain # << >>
    <3>1. trees \in Seq(Tree) /\ tmp \in Tree
      OBVIOUS
    <3>2. Append(trees, tmp) \in Seq(Tree) /\ Len(Append(trees, tmp)) = Len(trees) + 1
      BY <3>1
    <3>3. Append(trees, tmp) # << >>
      BY <3>1, AppendProperties
    <3> QED
      <4>1. CASE trees = << >> \/ trees[Len(trees)] # tmp
        BY <3>2, <3>3, <4>1 DEF Chain
      <4>2. CASE ~(trees = << >> \/ trees[Len(trees)] # tmp)
        BY <3>1, <4>2, Zenon DEF Chain
      <4> QED
        BY <4>1, <4>2
  <2> QED
    BY <1>17, <2>1 DEF WriteTree, Quiet, repo
<1>18. CASE NothingDiffers
  BY <1>18 DEF NothingDiffers, Deny, Quiet, repo, build
<1>19. CASE CommitTree
  <2>1. Parent \in Seq(Tree)
    BY DEF Parent
  <2> QED
    BY <1>19, <2>1 DEF CommitTree, Quiet, repo
<1>20. CASE PreserveFails
  BY <1>20 DEF PreserveFails, Deny, Quiet, repo, build
<1>21. CASE MoveRef
  BY <1>21 DEF MoveRef, Quiet, build
<1>22. CASE MoveRefUnheard
  BY <1>22 DEF MoveRefUnheard, Deny, Quiet, build
<1>23. CASE Reset
  <2>1. index' \in Index
    BY <1>23, TipType DEF Reset, Index, Tree, Entry
  <2> QED
    BY <1>23, <2>1 DEF Reset, Quiet, build
<1>24. CASE Push
  <2>1. at' \in 1..Len(command)' + 1
    BY <1>24 DEF Push, Judging1, Preserving
  <2> QED
    BY <1>24, <2>1 DEF Push
<1>25. CASE Run
  <2>1. disk' \in Tree /\ index' \in Index
    BY <1>25, TipType DEF Run, Tree, Index, Entry, Blob
  <2> QED
    BY <1>25, <2>1 DEF Run, build
<1>26. CASE PeerCommits
  <2>1. index \in Tree
    BY <1>26 DEF PeerCommits, Index, Entry, Tree
  <2> QED
    BY <1>26, <2>1, ConstantsAssumption DEF PeerCommits, build
<1> QED
  BY <1>1, <1>2, <1>3, <1>4, <1>5, <1>6, <1>7, <1>8, <1>9, <1>10, <1>11, <1>12, <1>13,
     <1>14, <1>15, <1>16, <1>17, <1>18, <1>19, <1>20, <1>21, <1>22, <1>23, <1>24, <1>25,
     <1>26 DEF Next, Hook
-----------------------------------------------------------------------------
(* Where judging stands, and the disk. *)

LEMMA StepJudging ==
    ASSUME TypeOK, Judging1, [Next]_vars
    PROVE  Judging1'
<1> USE DEF Judging1, Before, Preserving
<1>1. CASE UNCHANGED vars
  BY <1>1 DEF vars, repo, build
<1>2. CASE JudgeDenies \/ ProbeFails \/ Allow
  BY <1>2 DEF JudgeDenies, ProbeFails, Allow, Deny, Judging, repo, build
<1>3. CASE Probe
  BY <1>3 DEF Probe, Judging, repo, build
<1>4. CASE JudgeHarmless
  BY <1>4 DEF JudgeHarmless, Judging, repo, build
<1>5. CASE JudgeAtRisk
  BY <1>5 DEF JudgeAtRisk, Judging, repo, build
<1>6. CASE TempFails \/ AddRefused \/ NothingDiffers \/ PreserveFails \/ MoveRefUnheard
  BY <1>6 DEF TempFails, AddRefused, NothingDiffers, PreserveFails, MoveRefUnheard, Deny,
              Quiet, repo, build
<1>7. CASE Seed \/ ReadHeadTree \/ ListStaged \/ CacheInfo
  BY <1>7 DEF Seed, ReadHeadTree, ListStaged, CacheInfo, Quiet
<1>8. CASE StagedTree \/ StagedGivesUp \/ Add \/ WriteTree
  BY <1>8 DEF StagedTree, StagedGivesUp, Add, WriteTree, Quiet, build
<1>9. CASE CommitTree \/ MoveRef \/ Reset
  BY <1>9 DEF CommitTree, MoveRef, Reset, Quiet, build
<1>10. CASE Push
  BY <1>10 DEF Push
<1>11. CASE Run
  BY <1>11 DEF Run, build
<1>12. CASE PeerCommits
  BY <1>12 DEF PeerCommits, build
<1> QED
  BY <1>1, <1>2, <1>3, <1>4, <1>5, <1>6, <1>7, <1>8, <1>9, <1>10, <1>11, <1>12
  DEF Next, Hook

LEMMA StepDisk ==
    ASSUME TypeOK, DiskStands, [Next]_vars
    PROVE  DiskStands'
<1> USE DEF DiskStands
<1>1. CASE UNCHANGED vars
  BY <1>1 DEF vars, repo, build
<1>2. CASE JudgeDenies \/ ProbeFails \/ Allow \/ Probe \/ JudgeHarmless \/ JudgeAtRisk
  BY <1>2 DEF JudgeDenies, ProbeFails, Allow, Probe, JudgeHarmless, JudgeAtRisk, Deny,
              Judging, repo
<1>3. CASE TempFails \/ AddRefused \/ NothingDiffers \/ PreserveFails \/ MoveRefUnheard
  BY <1>3 DEF TempFails, AddRefused, NothingDiffers, PreserveFails, MoveRefUnheard, Deny,
              Quiet, repo
<1>4. CASE Seed \/ ReadHeadTree \/ ListStaged \/ CacheInfo
  BY <1>4 DEF Seed, ReadHeadTree, ListStaged, CacheInfo, Quiet, repo
<1>5. CASE StagedTree \/ StagedGivesUp \/ Add \/ WriteTree
  BY <1>5 DEF StagedTree, StagedGivesUp, Add, WriteTree, Quiet, repo
<1>6. CASE CommitTree \/ MoveRef \/ Reset \/ Push
  BY <1>6 DEF CommitTree, MoveRef, Reset, Push, Quiet, repo
<1>7. CASE Run
  BY <1>7 DEF Run
<1>8. CASE PeerCommits
  BY <1>8 DEF PeerCommits
<1> QED
  BY <1>1, <1>2, <1>3, <1>4, <1>5, <1>6, <1>7, <1>8 DEF Next, Hook

-----------------------------------------------------------------------------
(* What a preservation carries from the disk to the branch. *)

\* The last tree of the chain is the working version.
LEMMA ChainEndsInTmp ==
    ASSUME trees \in Seq(Tree), tmp \in Tree
    PROVE  Chain # << >> /\ Chain[Len(Chain)] = tmp
<1>1. Append(trees, tmp)[Len(Append(trees, tmp))] = tmp /\ Append(trees, tmp) # << >>
  BY AppendProperties
<1>2. CASE trees = << >> \/ trees[Len(trees)] # tmp
  BY <1>1, <1>2 DEF Chain
<1>3. CASE ~(trees = << >> \/ trees[Len(trees)] # tmp)
  BY <1>3, Zenon DEF Chain
<1> QED
  BY <1>2, <1>3

\* Taking the first tree off a chain leaves its last one, or ends it.
LEMMA TailKeepsLast ==
    ASSUME NEW S, NEW s \in Seq(S), s # << >>
    PROVE  /\ Head(s) \in S /\ Tail(s) \in Seq(S)
           /\ Tail(s) = << >> => Head(s) = s[Len(s)]
           /\ Tail(s) # << >> => Tail(s)[Len(Tail(s))] = s[Len(s)]
<1>1. /\ Head(s) \in S /\ Tail(s) \in Seq(S) /\ Len(Tail(s)) = Len(s) - 1
      /\ \A i \in 1..Len(Tail(s)) : Tail(s)[i] = s[i+1]
  BY HeadTailProperties
<1>2. PICK t \in Seq(S) : t = Tail(s)
  BY <1>1
<1>3. Len(t) \in Nat /\ Len(s) = Len(t) + 1 /\ Head(s) = s[1]
      /\ \A i \in 1..Len(t) : t[i] = s[i+1]
  BY <1>1, <1>2
<1>4. CASE Len(t) = 0
  BY <1>1, <1>2, <1>3, <1>4
<1>5. CASE Len(t) # 0
  <2>1. t[Len(t)] = s[Len(s)] /\ t # << >>
    BY <1>3, <1>5
  <2> QED
    BY <1>1, <1>2, <2>1
<1> QED
  BY <1>3, <1>4, <1>5

LEMMA CarriedStep ==
    ASSUME TypeOK, Judging1, DiskStands, Carried, [Next]_vars
    PROVE  Carried'
<1>1. CASE UNCHANGED vars
  BY <1>1 DEF vars, repo, build, Carried, Kept, InBranch
<1>2. CASE JudgeDenies \/ ProbeFails \/ Allow \/ Probe \/ JudgeHarmless \/ JudgeAtRisk
  BY <1>2 DEF JudgeDenies, ProbeFails, Allow, Probe, JudgeHarmless, JudgeAtRisk, Deny,
              Judging, Carried
<1>3. CASE TempFails \/ AddRefused \/ NothingDiffers \/ PreserveFails \/ MoveRefUnheard
  BY <1>3 DEF TempFails, AddRefused, NothingDiffers, PreserveFails, MoveRefUnheard, Deny,
              Carried
<1>4. CASE Seed \/ ReadHeadTree \/ ListStaged \/ CacheInfo
  BY <1>4 DEF Seed, ReadHeadTree, ListStaged, CacheInfo, Carried
<1>5. CASE StagedTree \/ StagedGivesUp
  BY <1>5 DEF StagedTree, StagedGivesUp, Carried
<1>6. CASE Add
  <2>1. pc' = "write" /\ disk = stood.disk /\ stood' = stood /\ risk' = risk /\ risk \subseteq Path
    BY <1>6 DEF Add, Quiet, DiskStands, TypeOK, Build
  <2>2. \A p \in risk : tmp'[p] = disk[p]
    BY <1>6, <2>1 DEF Add
  <2> QED
    BY <2>1, <2>2 DEF Carried
<1>7. CASE WriteTree
  <2>1. pc' = "commit" /\ trees' = Chain /\ risk' = risk /\ stood' = stood
    BY <1>7 DEF WriteTree, Quiet
  <2>2. Chain[Len(Chain)] = tmp
    BY ChainEndsInTmp DEF TypeOK, Build
  <2>3. \A p \in risk : tmp[p] = stood.disk[p]
    BY <1>7 DEF WriteTree, Carried
  <2> QED
    BY <2>1, <2>2, <2>3 DEF Carried
<1>8. CASE CommitTree
  <2>1. trees \in Seq(Tree) /\ trees # << >> /\ Parent \in Seq(Tree)
    BY <1>8 DEF CommitTree, TypeOK, Build, Parent
  <2>2. \A p \in risk : trees[Len(trees)][p] = stood.disk[p]
    BY <1>8 DEF CommitTree, Carried
  <2>3. trees' = Tail(trees) /\ commit' = Append(Parent, Head(trees)) /\ risk' = risk
        /\ stood' = stood /\ pc' = (IF trees' = << >> THEN "ref" ELSE "commit")
    BY <1>8 DEF CommitTree, Quiet
  <2>4. CASE trees' = << >>
    <3>1. Head(trees) \in Tree /\ \A p \in risk : Head(trees)[p] = stood.disk[p]
      BY <2>1, <2>2, <2>3, <2>4, TailKeepsLast
    <3>2. Kept(commit', risk)
      BY <2>1, <2>3, <3>1, AppendKeeps DEF Kept
    <3> QED
      BY <2>3, <2>4, <3>2 DEF Carried, Kept
  <2>5. CASE trees' # << >>
    <3>1. Tail(trees)[Len(Tail(trees))] = trees[Len(trees)]
      BY <2>1, <2>3, <2>5, TailKeepsLast
    <3> QED
      BY <2>2, <2>3, <2>5, <3>1 DEF Carried
  <2> QED
    BY <2>4, <2>5
<1>9. CASE MoveRef
  BY <1>9 DEF MoveRef, Quiet, build, Carried, Kept
<1>10. CASE Reset
  BY <1>10 DEF Reset, Quiet, build, Carried, Kept
<1>11. CASE Push \/ Run
  BY <1>11 DEF Push, Run, Carried
<1>12. CASE PeerCommits
  <2>1. index \in Tree
    BY <1>12 DEF PeerCommits, TypeOK, Index, Entry, Tree
  <2>2. head' = Append(head, index) /\ UNCHANGED << pc, build, stood >>
    BY <1>12 DEF PeerCommits
  <2>3. Kept(head, risk) => Kept(head', risk)
    BY <2>1, <2>2, AppendKept DEF TypeOK
  <2> QED
    BY <2>2, <2>3 DEF Carried, Kept, build
<1> QED
  BY <1>1, <1>2, <1>3, <1>4, <1>5, <1>6, <1>7, <1>8, <1>9, <1>10, <1>11, <1>12
  DEF Next, Hook

-----------------------------------------------------------------------------
(* What earlier findings committed stays on the branch. *)

LEMMA EarlierStep ==
    ASSUME TypeOK, Judging1, Carried, Earlier, ReadTreeWorks, [Next]_vars
    PROVE  Earlier'
<1> USE DEF Before
<1>1. CASE UNCHANGED vars
  BY <1>1 DEF vars, repo, build, Earlier, Kept, Bare, InBranch
<1>2. CASE JudgeDenies \/ ProbeFails \/ Allow
  BY <1>2 DEF JudgeDenies, ProbeFails, Allow, Deny, repo, Earlier, Kept, Preserving
<1>3. CASE Probe
  BY <1>3 DEF Probe, Judging, Judging1, repo, Earlier, Preserving
<1>4. CASE JudgeHarmless
  <2>1. at \in Nat \ {0} /\ at' = at + 1 /\ pc = "judge" /\ pc' = pc /\ AtRisk(command[at], seen[1]) = {}
        /\ UNCHANGED << command, seen, head, stood >>
    BY <1>4 DEF JudgeHarmless, Judging, TypeOK, repo
  <2>2. \A k \in 1..at : Kept(head, AtRisk(command[k], seen[1]))
    BY <2>1 DEF Earlier, Kept
  <2> QED
    BY <2>1, <2>2 DEF Earlier, Kept, Preserving
<1>5. CASE JudgeAtRisk
  BY <1>5 DEF JudgeAtRisk, Judging, repo, Earlier, Kept
<1>6. CASE TempFails \/ AddRefused \/ NothingDiffers \/ PreserveFails
  BY <1>6 DEF TempFails, AddRefused, NothingDiffers, PreserveFails, Deny, Quiet, repo,
              Earlier, Kept, Preserving
<1>7. CASE Seed
  <2>1. hasHead' \/ head = << >>
    BY <1>7 DEF Seed, ReadTreeWorks, Fails
  <2>2. head = << >> => \A k \in 1..at-1 : Bare(AtRisk(command[k], seen[1]))
    BY NothingInEmpty DEF Earlier
  <2>3. pc' \in {"headtree", "add"} /\ commit' = << >>
    BY <1>7 DEF Seed, Earlier, Preserving
  <2> QED
    BY <1>7, <2>1, <2>2, <2>3 DEF Seed, Quiet, repo, Earlier, Kept, Bare, Preserving
<1>8. CASE ReadHeadTree \/ ListStaged \/ CacheInfo
  BY <1>8 DEF ReadHeadTree, ListStaged, CacheInfo, Quiet, repo, Earlier, Kept, Bare, Preserving
<1>9. CASE StagedTree \/ StagedGivesUp \/ Add \/ WriteTree
  BY <1>9 DEF StagedTree, StagedGivesUp, Add, WriteTree, Quiet, repo, build, Earlier, Kept,
              Bare, Preserving
<1>10. CASE CommitTree
  <2>1. trees \in Seq(Tree) /\ trees # << >> /\ Parent \in Seq(Tree)
    BY <1>10 DEF CommitTree, TypeOK, Build, Parent
  <2>2. \A k \in 1..at-1 : Kept(Parent, AtRisk(command[k], seen[1]))
    BY <1>10 DEF CommitTree, Earlier, Parent, Kept, Bare, Preserving
  <2>3. Head(trees) \in Tree
    BY <2>1, TailKeepsLast
  <2>4. \A k \in 1..at-1 : Kept(Append(Parent, Head(trees)), AtRisk(command[k], seen[1]))
    BY <2>1, <2>2, <2>3, AppendKept
  <2>5. commit' = Append(Parent, Head(trees)) /\ commit' # << >> /\ pc' \in {"commit", "ref"}
        /\ UNCHANGED << head, hasHead, at, command, seen, stood >>
    BY <1>10, <2>1, <2>3, AppendProperties DEF CommitTree, Quiet, repo
  <2>6. pc = "commit"
    BY <1>10 DEF CommitTree
  <2> QED
    BY <2>4, <2>5, <2>6 DEF Earlier, Kept, Bare, Preserving
<1>11. CASE MoveRef \/ MoveRefUnheard
  <2>1. pc = "ref" /\ head' = commit /\ pc' \in {"reset", "done"}
        /\ UNCHANGED << hasHead, commit, at, command, seen, stood >>
    BY <1>11 DEF MoveRef, MoveRefUnheard, Deny, Quiet, build
  <2> QED
    BY <2>1 DEF Earlier, Kept, Bare, Preserving
<1>12. CASE Reset
  BY <1>12 DEF Reset, Quiet, build, Earlier, Kept, Bare, Preserving
<1>13. CASE Push
  <2>1. at \in Nat \ {0} /\ at' = at + 1 /\ pc = "push" /\ pc' = "judge"
        /\ UNCHANGED << command, seen, head, stood >>
    BY <1>13 DEF Push, TypeOK
  <2>2. Kept(head, AtRisk(command[at], seen[1]))
    BY <2>1 DEF Carried, Judging1, Preserving
  <2>3. \A k \in 1..at : Kept(head, AtRisk(command[k], seen[1]))
    BY <2>1, <2>2 DEF Earlier
  <2> QED
    BY <2>1, <2>3 DEF Earlier, Kept, Preserving
<1>14. CASE Run
  BY <1>14 DEF Run, build, Earlier, Kept, Preserving
<1>15. CASE PeerCommits
  <2>1. index \in Tree
    BY <1>15 DEF PeerCommits, TypeOK, Index, Entry, Tree
  <2>2. head' = Append(head, index) /\ UNCHANGED << pc, build, at, command, seen, stood >>
    BY <1>15 DEF PeerCommits
  <2>3. \A k \in 1..at-1 : Kept(head', AtRisk(command[k], seen[1]))
    BY <2>1, <2>2, AppendKept DEF TypeOK, Earlier
  <2> QED
    BY <2>2, <2>3 DEF Earlier, Kept, Bare, build, Preserving
<1> QED
  BY <1>1, <1>2, <1>3, <1>4, <1>5, <1>6, <1>7, <1>8, <1>9, <1>10, <1>11, <1>12, <1>13,
     <1>14, <1>15 DEF Next, Hook

-----------------------------------------------------------------------------
(* Paths no finding endangers, and what the command does to them. *)

\* Every finding that touches paths names the class of content its effect
\* destroys: a discard overwrites tracked content, a removal untracked content.
FindingsCover ==
    \A c \in Commands : \A i \in 1..Len(c) : c[i].paths # {} =>
        /\ c[i].effect = "discard" => "tracked" \in c[i].haz
        /\ c[i].effect = "remove" => "untracked" \in c[i].haz

Aside(p) == \A k \in 1..Len(command) : p \notin Before(k)

Judged1 ==
    /\ command \in Commands
    /\ seen = << >> => pc \in {"judge", "done"}
    /\ pc = "run" => at = Len(command) + 1

\* A path that git did not list as untracked is in the index.
Known(p) == p \notin seen[1].untracked /\ stood.disk[p] \in Content => index[p] # Absent

\* A path that git did not list as changed reads the same in the index, at the
\* tip and in all that is being built on the tip.
Steady(p) ==
    /\ index[p] = Tip(head)[p]
    /\ index[p] # Absent => index[p] = stood.disk[p]
    /\ pc \in {"headtree", "list", "cacheinfo", "stagedtree", "add", "write"} => tmp[p] = index[p]
    /\ pc \in {"add", "write", "commit"} => \A i \in 1..Len(trees) : trees[i][p] = index[p]
    /\ pc \in {"commit", "ref"} /\ commit # << >> => Tip(commit)[p] = index[p]

\* Only staged entries at risk are copied, the chain is empty until a staged
\* version is put into it, and a commit that moves the branch has a tree.
Chained ==
    /\ pc \in {"seed", "headtree", "list", "cacheinfo", "stagedtree"} => trees = << >>
    /\ pc \in {"ref", "reset"} => commit # << >>
    /\ pc = "cacheinfo" => \A e \in staged : e[1] \in risk

Bystanders ==
    seen # << >> => \A p \in Path : Aside(p) => /\ Known(p)
                                                /\ p \notin seen[1].tracked => Steady(p)

\* The working content is on the disk or on the branch.
Safe == \A p \in Path : stood.disk[p] \in Content =>
            disk[p] = stood.disk[p] \/ InBranch(head, p, stood.disk[p])

WInv == IInv /\ Judged1 /\ Chained /\ Bystanders /\ Safe

LEMMA StepJudged ==
    ASSUME TypeOK, Judging1, Judged1, [Next]_vars
    PROVE  Judged1'
<1> USE DEF Judged1
<1>1. CASE UNCHANGED vars
  BY <1>1 DEF vars, repo, build
<1>2. CASE JudgeDenies \/ ProbeFails \/ JudgeHarmless \/ JudgeAtRisk
  BY <1>2 DEF JudgeDenies, ProbeFails, JudgeHarmless, JudgeAtRisk, Deny, Judging
<1>3. CASE Probe
  BY <1>3 DEF Probe, Judging
<1>4. CASE Allow
  <2>1. command \in Seq(Finding) \ {<< >>}
    BY ConstantsAssumption
  <2>2. Len(command) >= 1
    BY <2>1, EmptySeq
  <2>3. at = Len(command) + 1
    <3>1. Len(command) \in Nat /\ at \in 1..Len(command) + 1 /\ at > Len(command)
      BY <1>4, <2>1 DEF Allow, TypeOK
    <3> QED
      BY <3>1
  <2>4. seen # << >>
    BY <2>2, <2>3 DEF Judging1, TypeOK
  <2> QED
    BY <1>4, <2>3, <2>4 DEF Allow
<1>5. CASE TempFails \/ AddRefused \/ NothingDiffers \/ PreserveFails \/ MoveRefUnheard
  BY <1>5 DEF TempFails, AddRefused, NothingDiffers, PreserveFails, MoveRefUnheard, Deny, Quiet
<1>6. CASE Seed \/ ReadHeadTree \/ ListStaged \/ CacheInfo \/ StagedTree \/ StagedGivesUp
  BY <1>6 DEF Seed, ReadHeadTree, ListStaged, CacheInfo, StagedTree, StagedGivesUp, Quiet
<1>7. CASE Add \/ WriteTree \/ CommitTree \/ MoveRef \/ Reset
  BY <1>7 DEF Add, WriteTree, CommitTree, MoveRef, Reset, Quiet
<1>8. CASE Push
  BY <1>8 DEF Push
<1>9. CASE Run
  BY <1>9 DEF Run
<1>10. CASE PeerCommits
  BY <1>10 DEF PeerCommits
<1> QED
  BY <1>1, <1>2, <1>3, <1>4, <1>5, <1>6, <1>7, <1>8, <1>9, <1>10 DEF Next, Hook

LEMMA StepChained ==
    ASSUME TypeOK, Judging1, Chained, [Next]_vars
    PROVE  Chained'
<1> USE DEF Chained
<1>1. CASE UNCHANGED vars
  BY <1>1 DEF vars, repo, build
<1>2. CASE JudgeDenies \/ ProbeFails \/ JudgeHarmless \/ JudgeAtRisk \/ Allow \/ Probe
  BY <1>2 DEF JudgeDenies, ProbeFails, JudgeHarmless, JudgeAtRisk, Allow, Probe, Deny, Judging
<1>3. CASE TempFails \/ AddRefused \/ NothingDiffers \/ PreserveFails \/ MoveRefUnheard
  BY <1>3 DEF TempFails, AddRefused, NothingDiffers, PreserveFails, MoveRefUnheard, Deny, Quiet
<1>4. CASE Seed \/ ReadHeadTree \/ ListStaged \/ CacheInfo \/ StagedTree \/ StagedGivesUp
  BY <1>4 DEF Seed, ReadHeadTree, ListStaged, CacheInfo, StagedTree, StagedGivesUp, Quiet, build
<1>5. CASE Add \/ WriteTree \/ MoveRef \/ Reset
  BY <1>5 DEF Add, WriteTree, MoveRef, Reset, Quiet, build
<1>6. CASE CommitTree
  <2>1. trees \in Seq(Tree) /\ trees # << >> /\ Parent \in Seq(Tree)
    BY <1>6 DEF CommitTree, TypeOK, Build, Parent
  <2>2. Head(trees) \in Tree
    BY <2>1, TailKeepsLast
  <2>3. commit' # << >>
    BY <1>6, <2>1, <2>2, AppendProperties DEF CommitTree
  <2> QED
    BY <1>6, <2>3 DEF CommitTree
<1>7. CASE Push
  BY <1>7 DEF Push
<1>8. CASE Run
  BY <1>8 DEF Run, build
<1>9. CASE PeerCommits
  BY <1>9 DEF PeerCommits, build
<1> QED
  BY <1>1, <1>2, <1>3, <1>4, <1>5, <1>6, <1>7, <1>8, <1>9 DEF Next, Hook

LEMMA TipAppend ==
    ASSUME NEW branch \in Seq(Tree), NEW t \in Tree
    PROVE  Tip(Append(branch, t)) = t
BY AppendProperties DEF Tip

\* A command spares a path no finding endangers: what it overwrites there is
\* what it writes, and what it removes is at the tip.
LEMMA RunSpares ==
    ASSUME IInv, Judged1, Bystanders, FindingsCover, Run,
           NEW p \in Path, Aside(p), p \in Hit(command[ran + 1])
    PROVE  /\ index'[p] = index[p]
           /\ stood.disk[p] \in Content => \/ disk'[p] = stood.disk[p]
                                           \/ Tip(head)[p] = stood.disk[p]
<1> DEFINE f == command[ran + 1]
<1>1. ran + 1 \in 1..Len(command) /\ f \in Finding
  BY DEF IInv, TypeOK, Run
<1>2. seen # << >>
  BY DEF Run, Judged1
<1>3. p \in f.paths /\ p \notin AtRisk(f, seen[1])
  BY <1>1 DEF Aside, Before, Hit
<1>4. /\ f.effect = "discard" => "tracked" \in f.haz
      /\ f.effect = "remove" => "untracked" \in f.haz
  BY <1>1, <1>3 DEF FindingsCover, Judged1
<1>5. "tracked" \in f.haz => p \notin seen[1].tracked
  BY <1>3 DEF AtRisk
<1>6. "untracked" \in f.haz => p \notin seen[1].untracked
  BY <1>3 DEF AtRisk
<1>7. Known(p) /\ (p \notin seen[1].tracked => Steady(p))
  BY <1>2 DEF Bystanders
<1>8. index'[p] = (IF f.effect = "discard" THEN Tip(head)[p] ELSE index[p])
      /\ disk'[p] = (IF f.effect = "discard" THEN Tip(head)[p] ELSE Absent)
  BY DEF Run, IInv, TypeOK, Index, Tree
<1>9. CASE f.effect = "discard"
  <2>1. Steady(p)
    BY <1>4, <1>5, <1>7, <1>9
  <2>2. index[p] # Absent
    BY <1>9, <2>1 DEF Hit, InGit, Steady
  <2> QED
    BY <1>8, <1>9, <2>1, <2>2 DEF Steady
<1>10. CASE f.effect = "remove"
  <2>1. ASSUME stood.disk[p] \in Content PROVE Tip(head)[p] = stood.disk[p]
    <3>1. index[p] # Absent
      BY <1>4, <1>6, <1>7, <1>10, <2>1 DEF Known
    <3>2. "tracked" \in f.haz
      BY <1>10, <3>1 DEF Hit
    <3>3. Steady(p)
      BY <1>5, <1>7, <3>2
    <3> QED
      BY <3>1, <3>3 DEF Steady
  <2> QED
    BY <1>8, <1>10, <2>1
<1> QED
  BY <1>1, <1>9, <1>10 DEF Finding

\* What stands at the tip is on the branch.
LEMMA TipInBranch ==
    ASSUME NEW branch \in Seq(Tree), NEW p \in Path, Tip(branch)[p] \in Content
    PROVE  InBranch(branch, p, Tip(branch)[p])
<1>1. branch # << >>
  BY ConstantsAssumption DEF Tip, Empty
<1>2. Len(branch) \in DOMAIN branch
  BY <1>1, EmptySeq
<1> QED
  BY <1>1, <1>2 DEF Tip, InBranch

\* A chain is what it was and the working version.
LEMMA ChainMembers ==
    ASSUME trees \in Seq(Tree), tmp \in Tree
    PROVE  \A i \in 1..Len(Chain) : Chain[i] = tmp \/ \E j \in 1..Len(trees) : Chain[i] = trees[j]
<1>1. \A i \in 1..Len(Append(trees, tmp)) :
        Append(trees, tmp)[i] = tmp \/ \E j \in 1..Len(trees) : Append(trees, tmp)[i] = trees[j]
  OBVIOUS
<1> QED
  BY <1>1 DEF Chain

LEMMA StepBystanders ==
    ASSUME WInv, FindingsCover, ReadTreeWorks, [Next]_vars
    PROVE  Bystanders'
<1> SUFFICES ASSUME seen' # << >>, NEW p \in Path, Aside(p)'
             PROVE  /\ Known(p)'
                    /\ p \notin seen'[1].tracked => Steady(p)'
  BY DEF Bystanders
<1>a. TypeOK /\ Judging1 /\ DiskStands /\ Judged1 /\ Chained /\ Bystanders
  BY DEF WInv, IInv
<1>b. ASSUME seen # << >>, seen' = seen, command' = command, stood' = stood
      PROVE  Aside(p) /\ Known(p) /\ (p \notin seen[1].tracked => Steady(p))
  BY <1>b DEF Aside, Before, AtRisk, WInv, Bystanders
<1>c. ASSUME seen # << >>, seen' = seen, command' = command, stood' = stood, pc \in Preserving
      PROVE  p \notin risk
  BY <1>a, <1>b, <1>c DEF Judging1, Aside, TypeOK
<1>1. CASE UNCHANGED vars
  BY <1>1, <1>b DEF vars, repo, build, Known, Steady
<1>2. CASE JudgeDenies \/ ProbeFails \/ Allow \/ JudgeHarmless
  BY <1>2, <1>b DEF JudgeDenies, ProbeFails, Allow, JudgeHarmless, Deny, repo, build,
                    Known, Steady
<1>3. CASE JudgeAtRisk
  BY <1>3, <1>b DEF JudgeAtRisk, repo, Known, Steady
<1>4. CASE Probe
  <2>1. seen'[1] = Status /\ disk = stood.disk
        /\ UNCHANGED << disk, index, head, stood, pc, build >>
    BY <1>4, <1>a DEF Probe, Judging, DiskStands, repo
  <2>2. pc' = "judge"
    BY <1>4, <2>1 DEF Probe, Judging
  <2>3. Known(p)'
    BY <2>1, ConstantsAssumption DEF Known, Status
  <2>4. p \notin seen'[1].tracked => index[p] = Tip(head)[p] /\ (index[p] # Absent => index[p] = disk[p])
    BY <2>1 DEF Status
  <2> QED
    BY <2>1, <2>2, <2>3, <2>4 DEF Steady
<1>5. CASE TempFails \/ AddRefused \/ NothingDiffers \/ PreserveFails
  BY <1>5, <1>b DEF TempFails, AddRefused, NothingDiffers, PreserveFails, Deny, Quiet,
                    repo, build, Known, Steady
<1>6. CASE Seed
  <2>1. Known(p) /\ (p \notin seen[1].tracked => Steady(p))
    BY <1>6, <1>a, <1>b DEF Seed, Quiet, Judged1
  <2>2. tmp' = Tip(head) /\ pc' \in {"headtree", "add"} /\ trees' = << >> /\ Len(<< >>) = 0
        /\ UNCHANGED << index, head, seen, stood >>
    BY <1>6, <1>a DEF Seed, Quiet, ReadTreeWorks, Fails, Tip, Chained, repo
  <2> QED
    BY <2>1, <2>2 DEF Known, Steady
<1>7. CASE ReadHeadTree
  <2>1. Known(p) /\ (p \notin seen[1].tracked => Steady(p))
    BY <1>7, <1>a, <1>b DEF ReadHeadTree, Quiet, Judged1
  <2> QED
    BY <1>7, <2>1 DEF ReadHeadTree, Quiet, repo, Known, Steady
<1>8. CASE ListStaged \/ StagedGivesUp
  <2>1. Known(p) /\ (p \notin seen[1].tracked => Steady(p))
    BY <1>8, <1>a, <1>b DEF ListStaged, StagedGivesUp, Quiet, Judged1
  <2>2. pc \in {"list", "cacheinfo", "stagedtree"} /\ pc' \in {"add", "cacheinfo"}
        /\ trees' = << >> /\ Len(<< >>) = 0
        /\ UNCHANGED << index, head, seen, stood, tmp >>
    BY <1>8, <1>a DEF ListStaged, StagedGivesUp, Quiet, Chained, repo, build
  <2> QED
    BY <2>1, <2>2 DEF Known, Steady
<1>9. CASE CacheInfo
  <2>1. Known(p) /\ (p \notin seen[1].tracked => Steady(p)) /\ p \notin risk
    BY <1>9, <1>a, <1>b, <1>c DEF CacheInfo, Quiet, Judged1, Preserving
  <2>2. PICK e \in staged : tmp' = [tmp EXCEPT ![e[1]] = e[2]]
    BY <1>9 DEF CacheInfo
  <2>3. e[1] # p /\ tmp \in Tree
    BY <1>9, <1>a, <2>1 DEF CacheInfo, Chained, TypeOK, Build
  <2>4. tmp'[p] = tmp[p]
    BY <2>2, <2>3 DEF Tree
  <2> QED
    BY <1>9, <2>1, <2>4 DEF CacheInfo, Quiet, repo, Known, Steady
<1>10. CASE StagedTree
  <2>1. Known(p) /\ (p \notin seen[1].tracked => Steady(p))
    BY <1>10, <1>a, <1>b DEF StagedTree, Quiet, Judged1
  <2>2. \A i \in 1..Len(trees') : trees'[i] = tmp
    BY <1>10 DEF StagedTree
  <2> QED
    BY <1>10, <2>1, <2>2 DEF StagedTree, Quiet, repo, Known, Steady
<1>11. CASE Add
  <2>1. Known(p) /\ (p \notin seen[1].tracked => Steady(p)) /\ p \notin risk
    BY <1>11, <1>a, <1>b, <1>c DEF Add, Quiet, Judged1, Preserving
  <2>2. tmp'[p] = tmp[p]
    BY <1>11, <2>1 DEF Add
  <2> QED
    BY <1>11, <2>1, <2>2 DEF Add, Quiet, repo, Known, Steady
<1>12. CASE WriteTree
  <2>1. Known(p) /\ (p \notin seen[1].tracked => Steady(p))
    BY <1>12, <1>a, <1>b DEF WriteTree, Quiet, Judged1
  <2>2. trees \in Seq(Tree) /\ tmp \in Tree
    BY <1>a DEF TypeOK, Build
  <2>4. \A i \in 1..Len(Chain) : Chain[i] = tmp \/ \E j \in 1..Len(trees) : Chain[i] = trees[j]
    BY <2>2, ChainMembers
  <2>5. trees' = Chain /\ pc = "write" /\ pc' = "commit"
        /\ UNCHANGED << index, head, seen, stood, commit >>
    BY <1>12 DEF WriteTree, Quiet, repo
  <2>6. p \notin seen[1].tracked => \A i \in 1..Len(trees') : trees'[i][p] = index[p]
    BY <2>1, <2>4, <2>5 DEF Steady
  <2>7. commit = << >>
    BY <2>5 DEF WInv, IInv, Earlier
  <2> QED
    BY <2>1, <2>5, <2>6, <2>7 DEF Known, Steady
<1>13. CASE CommitTree
  <2>1. Known(p) /\ (p \notin seen[1].tracked => Steady(p))
    BY <1>13, <1>a, <1>b DEF CommitTree, Quiet, Judged1
  <2>2. trees \in Seq(Tree) /\ trees # << >> /\ Parent \in Seq(Tree)
    BY <1>13, <1>a DEF CommitTree, TypeOK, Build, Parent
  <2>3. Head(trees) \in Tree
    BY <2>2, TailKeepsLast
  <2>4. Tip(commit') = Head(trees)
    BY <1>13, <2>2, <2>3, TipAppend DEF CommitTree
  <2>5. Head(trees) = trees[1] /\ 1 \in 1..Len(trees)
        /\ \A i \in 1..Len(Tail(trees)) : Tail(trees)[i] = trees[i+1] /\ i + 1 \in 1..Len(trees)
    BY <2>2, HeadTailProperties, EmptySeq
  <2>6. p \notin seen[1].tracked =>
          Head(trees)[p] = index[p] /\ \A i \in 1..Len(Tail(trees)) : Tail(trees)[i][p] = index[p]
    BY <1>13, <2>1, <2>5 DEF CommitTree, Steady
  <2>7. trees' = Tail(trees) /\ pc' \in {"commit", "ref"} /\ UNCHANGED << index, head, seen, stood >>
    BY <1>13 DEF CommitTree, Quiet, repo
  <2>8. p \notin seen[1].tracked =>
          Tip(commit')[p] = index[p] /\ \A i \in 1..Len(trees') : trees'[i][p] = index[p]
    BY <2>4, <2>6, <2>7
  <2> QED
    BY <2>1, <2>7, <2>8 DEF Known, Steady
<1>14. CASE MoveRef \/ MoveRefUnheard
  <2>1. Known(p) /\ (p \notin seen[1].tracked => Steady(p))
    BY <1>14, <1>a, <1>b DEF MoveRef, MoveRefUnheard, Quiet, Judged1
  <2>2. head' = commit /\ commit # << >> /\ pc = "ref" /\ pc' \in {"reset", "done"}
        /\ UNCHANGED << index, seen, stood >>
    BY <1>14, <1>a DEF MoveRef, MoveRefUnheard, Deny, Quiet, Chained
  <2> QED
    BY <2>1, <2>2 DEF Known, Steady
<1>15. CASE Reset
  <2>1. Known(p) /\ (p \notin seen[1].tracked => Steady(p)) /\ p \notin risk
    BY <1>15, <1>a, <1>b, <1>c DEF Reset, Quiet, Judged1, Preserving
  <2>2. index'[p] = index[p]
    BY <1>15, <2>1 DEF Reset
  <2> QED
    BY <1>15, <2>1, <2>2 DEF Reset, Quiet, Known, Steady
<1>16. CASE Push
  <2>1. Known(p) /\ (p \notin seen[1].tracked => Steady(p))
    BY <1>16, <1>a, <1>b DEF Push, Judged1
  <2> QED
    BY <1>16, <2>1 DEF Push, Known, Steady
<1>17. CASE Run
  <2>1. Aside(p) /\ Known(p) /\ (p \notin seen[1].tracked => Steady(p))
    BY <1>17, <1>a, <1>b DEF Run, Judged1
  <2>2. index'[p] = index[p]
    <3>1. CASE p \in Hit(command[ran + 1])
      BY <1>17, <1>a, <2>1, <3>1, RunSpares DEF WInv
    <3>2. CASE p \notin Hit(command[ran + 1])
      BY <1>17, <3>2 DEF Run
    <3> QED
      BY <3>1, <3>2
  <2>3. pc' \in {"run", "done"} /\ UNCHANGED << head, seen, stood >>
    BY <1>17 DEF Run
  <2> QED
    BY <2>1, <2>2, <2>3 DEF Known, Steady
<1>18. CASE PeerCommits
  <2>1. index \in Tree /\ head \in Seq(Tree)
    BY <1>18, <1>a DEF PeerCommits, TypeOK, Index, Entry, Tree
  <2>2. head' = Append(head, index)
        /\ UNCHANGED << pc, build, index, command, seen, stood >>
    BY <1>18 DEF PeerCommits
  <2>3. Tip(head') = index
    BY <2>1, <2>2, TipAppend
  <2>4. Known(p) /\ (p \notin seen[1].tracked => Steady(p))
    BY <1>b, <2>2
  <2> QED
    BY <2>2, <2>3, <2>4 DEF build, Known, Steady
<1> QED
  BY <1>1, <1>2, <1>3, <1>4, <1>5, <1>6, <1>7, <1>8, <1>9, <1>10, <1>11, <1>12, <1>13,
     <1>14, <1>15, <1>16, <1>17, <1>18 DEF Next, Hook

LEMMA StepSafe ==
    ASSUME WInv, FindingsCover, [Next]_vars
    PROVE  Safe'
<1> SUFFICES ASSUME NEW p \in Path, (stood.disk[p] \in Content)'
             PROVE  (disk[p] = stood.disk[p] \/ InBranch(head, p, stood.disk[p]))'
  BY DEF Safe
<1>a. TypeOK /\ Judging1 /\ DiskStands /\ Earlier /\ Judged1 /\ Bystanders /\ Safe
  BY DEF WInv, IInv
<1>1. CASE UNCHANGED << disk, head, stood >>
  BY <1>1, <1>a DEF Safe, InBranch
<1>2. CASE MoveRef \/ MoveRefUnheard
  BY <1>2, <1>a DEF MoveRef, MoveRefUnheard, Quiet, DiskStands
<1>3. CASE Run
  <2>1. stood' = stood /\ head' = head /\ stood.disk[p] \in Content /\ seen # << >>
        /\ at = Len(command) + 1 /\ ran + 1 \in 1..Len(command)
    BY <1>3, <1>a DEF Run, Judged1, TypeOK
  <2>2. CASE ~Aside(p)
    <3>1. PICK k \in 1..Len(command) : p \in Before(k)
      BY <2>2 DEF Aside
    <3>2. k \in 1..at - 1
      BY <2>1, <3>1, <1>a DEF TypeOK
    <3>3. Kept(head, Before(k))
      BY <1>a, <3>2 DEF Earlier
    <3> QED
      BY <2>1, <3>1, <3>3 DEF Kept
  <2>3. CASE Aside(p) /\ p \in Hit(command[ran + 1])
    <3>1. disk'[p] = stood.disk[p] \/ Tip(head)[p] = stood.disk[p]
      BY <1>3, <1>a, <2>1, <2>3, RunSpares DEF WInv
    <3>2. Tip(head)[p] = stood.disk[p] => InBranch(head, p, stood.disk[p])
      BY <1>a, <2>1, TipInBranch DEF TypeOK
    <3> QED
      BY <2>1, <3>1, <3>2
  <2>4. CASE p \notin Hit(command[ran + 1])
    BY <1>3, <1>a, <2>1, <2>4 DEF Run, Safe
  <2> QED
    BY <2>2, <2>3, <2>4
<1>4. CASE PeerCommits
  <2>1. index \in Tree /\ head \in Seq(Tree) /\ head' = Append(head, index)
        /\ UNCHANGED << disk, stood >>
    BY <1>4, <1>a DEF PeerCommits, TypeOK, Index, Entry, Tree
  <2> QED
    BY <1>a, <2>1, AppendKeeps DEF Safe
<1>5. CASE JudgeDenies \/ Probe \/ ProbeFails \/ JudgeHarmless \/ JudgeAtRisk \/ Allow \/ TempFails
  BY <1>1, <1>5 DEF JudgeDenies, Probe, ProbeFails, JudgeHarmless, JudgeAtRisk, Allow, TempFails,
                    Quiet, repo
<1>6. CASE Seed \/ ReadHeadTree \/ ListStaged \/ CacheInfo \/ StagedTree \/ StagedGivesUp \/ Add
  BY <1>1, <1>6 DEF Seed, ReadHeadTree, ListStaged, CacheInfo, StagedTree, StagedGivesUp, Add,
                    Quiet, repo
<1>7. CASE AddRefused \/ WriteTree \/ NothingDiffers \/ CommitTree \/ PreserveFails \/ Reset \/ Push
  BY <1>1, <1>7 DEF AddRefused, WriteTree, NothingDiffers, CommitTree, PreserveFails, Reset, Push,
                    Quiet, repo
<1>8. CASE UNCHANGED vars
  BY <1>1, <1>8 DEF vars, repo
<1> QED
  BY <1>2, <1>3, <1>4, <1>5, <1>6, <1>7, <1>8 DEF Next, Hook

-----------------------------------------------------------------------------
(* The same paths while nobody else commits. *)

NobodyElse == Peers = 0

\* A path no finding endangers reads as it stood, in the index, at the tip and
\* in all that is being built on the tip.
AsStood(p) ==
    /\ index[p] = stood.index[p]
    /\ Tip(head)[p] = Tip(stood.head)[p]
    /\ pc \in {"headtree", "list", "cacheinfo", "stagedtree", "add", "write"} =>
          tmp[p] = Tip(stood.head)[p]
    /\ pc \in {"add", "write", "commit"} =>
          \A i \in 1..Len(trees) : trees[i][p] = Tip(stood.head)[p]
    /\ pc \in {"commit", "ref"} /\ commit # << >> => Tip(commit)[p] = Tip(stood.head)[p]

Undisturbed ==
    /\ ran > 0 => pc \in {"run", "done"}
    /\ ran = 0 => disk = stood.disk
    /\ seen = << >> => ran = 0 /\ index = stood.index /\ head = stood.head
    /\ seen # << >> /\ ran = 0 => \A p \in Path : Aside(p) => AsStood(p)

LEMMA StepUndisturbed ==
    ASSUME WInv, Undisturbed, NobodyElse, ReadTreeWorks, [Next]_vars
    PROVE  Undisturbed'
<1>a. TypeOK /\ Judging1 /\ DiskStands /\ Earlier /\ Judged1 /\ Chained /\ ran \in Nat
  BY DEF WInv, IInv, TypeOK
<1>b. ~PeerCommits
  BY DEF PeerCommits, NobodyElse, TypeOK, WInv, IInv
<1>0. CASE Run
  <2>1. ran' # 0 /\ ran' > 0 /\ pc' \in {"run", "done"} /\ seen' # << >>
    BY <1>0, <1>a DEF Run, Judged1
  <2> QED
    BY <2>1 DEF Undisturbed
<1>1. CASE UNCHANGED vars
  BY <1>1 DEF vars, repo, build, Undisturbed, AsStood, Aside, Before, AtRisk
<1>2. CASE Hook
  <2>1. ran' = ran /\ stood' = stood /\ disk' = disk /\ command' = command
        /\ (ran > 0 => pc' \in {"run", "done"})
    <3>1. CASE JudgeDenies \/ ProbeFails \/ JudgeHarmless \/ JudgeAtRisk \/ Allow \/ Probe
      BY <3>1, <1>a DEF JudgeDenies, ProbeFails, JudgeHarmless, JudgeAtRisk, Allow, Probe, Deny,
                        Judging, Undisturbed, repo
    <3>2. CASE TempFails \/ AddRefused \/ NothingDiffers \/ PreserveFails \/ MoveRefUnheard
      BY <3>2 DEF TempFails, AddRefused, NothingDiffers, PreserveFails, MoveRefUnheard, Deny,
                  Quiet, repo
    <3>3. CASE Seed \/ ReadHeadTree \/ ListStaged \/ CacheInfo \/ StagedTree \/ StagedGivesUp
      BY <3>3, <1>a DEF Seed, ReadHeadTree, ListStaged, CacheInfo, StagedTree, StagedGivesUp, Quiet,
                        repo, Undisturbed
    <3>4. CASE Add \/ WriteTree \/ CommitTree \/ MoveRef \/ Reset \/ Push
      BY <3>4, <1>a DEF Add, WriteTree, CommitTree, MoveRef, Reset, Push, Quiet, repo, Undisturbed
    <3> QED
      BY <1>2, <3>1, <3>2, <3>3, <3>4 DEF Hook
  <2>2. seen' = << >> => seen = << >> /\ pc \in {"judge", "done"} /\ UNCHANGED << index, head >>
    <3>1. seen' # seen => seen' # << >>
      BY <1>2 DEF Hook, JudgeDenies, ProbeFails, JudgeHarmless, JudgeAtRisk, Allow, Probe,
                  TempFails, Seed, ReadHeadTree, ListStaged, CacheInfo, StagedTree, StagedGivesUp,
                  Add, AddRefused, WriteTree, NothingDiffers, CommitTree, PreserveFails, MoveRef,
                  MoveRefUnheard, Reset, Push, Quiet
    <3>2. seen = << >> => pc \in {"judge", "done"}
      BY <1>a DEF Judged1
    <3>3. pc \in {"judge", "done"} => UNCHANGED << index, head >>
      BY <1>2 DEF Hook, JudgeDenies, ProbeFails, JudgeHarmless, JudgeAtRisk, Allow, Probe, repo,
                  TempFails, Seed, ReadHeadTree, ListStaged, CacheInfo, StagedTree, StagedGivesUp,
                  Add, AddRefused, WriteTree, NothingDiffers, CommitTree, PreserveFails, MoveRef,
                  MoveRefUnheard, Reset, Push, Quiet
    <3> QED
      BY <3>1, <3>2, <3>3
  <2>3. ASSUME seen' # << >>, ran = 0, NEW p \in Path, Aside(p)' PROVE AsStood(p)'
    <3>b. ASSUME seen # << >>, seen' = seen
          PROVE  Aside(p) /\ AsStood(p)
      BY <2>1, <2>3, <3>b DEF Aside, Before, AtRisk, Undisturbed
    <3>c. ASSUME seen # << >>, seen' = seen, pc \in Preserving
          PROVE  p \notin risk
      BY <1>a, <3>b, <3>c DEF Judging1, Aside, TypeOK
    <3>2. CASE JudgeDenies \/ ProbeFails \/ Allow \/ JudgeHarmless
      BY <2>3, <3>2, <3>b DEF JudgeDenies, ProbeFails, Allow, JudgeHarmless, Deny, repo, build, AsStood
    <3>3. CASE JudgeAtRisk
      BY <3>3, <3>b DEF JudgeAtRisk, repo, AsStood
    <3>4. CASE Probe
      BY <3>4 DEF Probe, Judging, Undisturbed, repo, AsStood
    <3>5. CASE TempFails \/ AddRefused \/ NothingDiffers \/ PreserveFails
      BY <2>3, <3>5, <3>b DEF TempFails, AddRefused, NothingDiffers, PreserveFails, Deny, Quiet,
                        repo, build, AsStood
    <3>6. CASE Seed
      <4>1. AsStood(p)
        BY <3>6, <1>a, <3>b DEF Seed, Quiet, Judged1
      <4>2. tmp' = Tip(head) /\ pc' \in {"headtree", "add"} /\ trees' = << >> /\ Len(<< >>) = 0
            /\ UNCHANGED << index, head, stood >>
        BY <3>6, <1>a DEF Seed, Quiet, ReadTreeWorks, Fails, Tip, Chained, repo
      <4> QED
        BY <4>1, <4>2 DEF AsStood
    <3>7. CASE ReadHeadTree
      <4>1. AsStood(p)
        BY <3>7, <1>a, <3>b DEF ReadHeadTree, Quiet, Judged1
      <4> QED
        BY <3>7, <4>1 DEF ReadHeadTree, Quiet, repo, AsStood
    <3>8. CASE ListStaged \/ StagedGivesUp
      <4>1. AsStood(p)
        BY <3>8, <1>a, <3>b DEF ListStaged, StagedGivesUp, Quiet, Judged1
      <4>2. pc \in {"list", "cacheinfo", "stagedtree"} /\ pc' \in {"add", "cacheinfo"}
            /\ trees' = << >> /\ Len(<< >>) = 0
            /\ UNCHANGED << index, head, stood, tmp >>
        BY <3>8, <1>a DEF ListStaged, StagedGivesUp, Quiet, Chained, repo, build
      <4> QED
        BY <4>1, <4>2 DEF AsStood
    <3>9. CASE CacheInfo
      <4>1. AsStood(p) /\ p \notin risk
        BY <3>9, <1>a, <3>b, <3>c DEF CacheInfo, Quiet, Judged1, Preserving
      <4>2. PICK e \in staged : tmp' = [tmp EXCEPT ![e[1]] = e[2]]
        BY <3>9 DEF CacheInfo
      <4>3. e[1] # p /\ tmp \in Tree
        BY <3>9, <1>a, <4>1 DEF CacheInfo, Chained, TypeOK, Build
      <4>4. tmp'[p] = tmp[p]
        BY <4>2, <4>3 DEF Tree
      <4> QED
        BY <3>9, <4>1, <4>4 DEF CacheInfo, Quiet, repo, AsStood
    <3>10. CASE StagedTree
      <4>1. AsStood(p)
        BY <3>10, <1>a, <3>b DEF StagedTree, Quiet, Judged1
      <4>2. \A i \in 1..Len(trees') : trees'[i] = tmp
        BY <3>10 DEF StagedTree
      <4> QED
        BY <3>10, <4>1, <4>2 DEF StagedTree, Quiet, repo, AsStood
    <3>11. CASE Add
      <4>1. AsStood(p) /\ p \notin risk
        BY <3>11, <1>a, <3>b, <3>c DEF Add, Quiet, Judged1, Preserving
      <4>2. tmp'[p] = tmp[p]
        BY <3>11, <4>1 DEF Add
      <4> QED
        BY <3>11, <4>1, <4>2 DEF Add, Quiet, repo, AsStood
    <3>12. CASE WriteTree
      <4>1. AsStood(p)
        BY <3>12, <1>a, <3>b DEF WriteTree, Quiet, Judged1
      <4>2. trees \in Seq(Tree) /\ tmp \in Tree
        BY <1>a DEF TypeOK, Build
      <4>3. \A i \in 1..Len(Chain) : Chain[i] = tmp \/ \E j \in 1..Len(trees) : Chain[i] = trees[j]
        BY <4>2, ChainMembers
      <4>4. trees' = Chain /\ pc = "write" /\ pc' = "commit"
            /\ UNCHANGED << index, head, stood, commit >>
        BY <3>12 DEF WriteTree, Quiet, repo
      <4>5. \A i \in 1..Len(trees') : trees'[i][p] = Tip(stood.head)[p]
        BY <4>1, <4>3, <4>4 DEF AsStood
      <4>6. commit = << >>
        BY <1>a, <4>4 DEF Earlier
      <4> QED
        BY <4>1, <4>4, <4>5, <4>6 DEF AsStood
    <3>13. CASE CommitTree
      <4>1. AsStood(p)
        BY <3>13, <1>a, <3>b DEF CommitTree, Quiet, Judged1
      <4>2. trees \in Seq(Tree) /\ trees # << >> /\ Parent \in Seq(Tree)
        BY <3>13, <1>a DEF CommitTree, TypeOK, Build, Parent
      <4>3. Head(trees) \in Tree
        BY <4>2, TailKeepsLast
      <4>4. Tip(commit') = Head(trees)
        BY <3>13, <4>2, <4>3, TipAppend DEF CommitTree
      <4>5. Head(trees) = trees[1] /\ 1 \in 1..Len(trees)
            /\ \A i \in 1..Len(Tail(trees)) : Tail(trees)[i] = trees[i+1] /\ i + 1 \in 1..Len(trees)
        BY <4>2, HeadTailProperties, EmptySeq
      <4>6. /\ Head(trees)[p] = Tip(stood.head)[p]
            /\ \A i \in 1..Len(Tail(trees)) : Tail(trees)[i][p] = Tip(stood.head)[p]
        BY <3>13, <4>1, <4>5 DEF CommitTree, AsStood
      <4>7. trees' = Tail(trees) /\ pc' \in {"commit", "ref"} /\ UNCHANGED << index, head, stood >>
        BY <3>13 DEF CommitTree, Quiet, repo
      <4>8. Tip(commit')[p] = Tip(stood.head)[p]
            /\ \A i \in 1..Len(trees') : trees'[i][p] = Tip(stood.head)[p]
        BY <4>4, <4>6, <4>7
      <4> QED
        BY <4>1, <4>7, <4>8 DEF AsStood
    <3>14. CASE MoveRef \/ MoveRefUnheard
      <4>1. AsStood(p)
        BY <3>14, <1>a, <3>b DEF MoveRef, MoveRefUnheard, Quiet, Judged1
      <4>2. head' = commit /\ commit # << >> /\ pc = "ref" /\ pc' \in {"reset", "done"}
            /\ UNCHANGED << index, stood >>
        BY <3>14, <1>a DEF MoveRef, MoveRefUnheard, Deny, Quiet, Chained
      <4> QED
        BY <4>1, <4>2 DEF AsStood
    <3>15. CASE Reset
      <4>1. AsStood(p) /\ p \notin risk
        BY <3>15, <1>a, <3>b, <3>c DEF Reset, Quiet, Judged1, Preserving
      <4>2. index'[p] = index[p]
        BY <3>15, <4>1 DEF Reset
      <4> QED
        BY <3>15, <4>1, <4>2 DEF Reset, Quiet, AsStood
    <3>16. CASE Push
      <4>1. AsStood(p)
        BY <3>16, <1>a, <3>b DEF Push, Judged1
      <4> QED
        BY <3>16, <4>1 DEF Push, AsStood
    <3> QED
      BY <1>2, <3>2, <3>3, <3>4, <3>5, <3>6, <3>7, <3>8, <3>9, <3>10, <3>11, <3>12, <3>13,
         <3>14, <3>15, <3>16 DEF Hook
  <2> QED
    BY <2>1, <2>2, <2>3 DEF Undisturbed
<1> QED
  BY <1>b, <1>0, <1>1, <1>2 DEF Next

-----------------------------------------------------------------------------
(* What is said of the remote. *)

Fits == /\ pc \in {"reset", "push"} => IsPrefix(commit, head)
        /\ pc \in Preserving => ~pushed
        /\ PushedMeansRemote

\* A branch is a prefix of itself and of itself with one commit more.
LEMMA PrefixSelf == ASSUME NEW b \in Seq(Tree) PROVE IsPrefix(b, b)
BY DEF IsPrefix

LEMMA PrefixAppend ==
    ASSUME NEW b \in Seq(Tree), NEW h \in Seq(Tree), NEW t \in Tree, IsPrefix(b, h)
    PROVE  IsPrefix(b, Append(h, t))
<1>1. Len(b) <= Len(h) /\ SubSeq(b, 1, Len(b)) = SubSeq(h, 1, Len(b))
  BY DEF IsPrefix
<1>2. Len(Append(h, t)) = Len(h) + 1 /\ SubSeq(Append(h, t), 1, Len(b)) = SubSeq(h, 1, Len(b))
  BY <1>1
<1> QED
  BY <1>1, <1>2 DEF IsPrefix

LEMMA StepFits ==
    ASSUME TypeOK, Fits, [Next]_vars
    PROVE  Fits'
<1> USE DEF Fits, PushedMeansRemote, Preserving
<1>1. CASE UNCHANGED vars
  BY <1>1 DEF vars, repo, build
<1>2. CASE JudgeDenies \/ ProbeFails \/ Allow \/ Probe \/ JudgeHarmless
  BY <1>2 DEF JudgeDenies, ProbeFails, Allow, Probe, JudgeHarmless, Deny, Judging, repo, build
<1>3. CASE JudgeAtRisk
  BY <1>3 DEF JudgeAtRisk
<1>4. CASE TempFails \/ AddRefused \/ NothingDiffers \/ PreserveFails \/ MoveRefUnheard
  BY <1>4 DEF TempFails, AddRefused, NothingDiffers, PreserveFails, MoveRefUnheard, Deny,
              Quiet, repo, build
<1>5. CASE Seed \/ ReadHeadTree \/ ListStaged \/ CacheInfo
  BY <1>5 DEF Seed, ReadHeadTree, ListStaged, CacheInfo, repo
<1>6. CASE StagedTree \/ StagedGivesUp \/ Add \/ WriteTree
  BY <1>6 DEF StagedTree, StagedGivesUp, Add, WriteTree, repo, build
<1>7. CASE CommitTree
  BY <1>7 DEF CommitTree, repo
<1>8. CASE MoveRef
  BY <1>8, PrefixSelf DEF MoveRef, build, TypeOK, Build
<1>9. CASE Reset
  BY <1>9 DEF Reset, build
<1>10. CASE Push
  BY <1>10 DEF Push
<1>11. CASE Run
  BY <1>11 DEF Run, build
<1>12. CASE PeerCommits
  <2>1. index \in Tree
    BY <1>12 DEF PeerCommits, TypeOK, Index, Entry, Tree
  <2>2. IsPrefix(commit, head) => IsPrefix(commit, head')
    BY <1>12, <2>1, PrefixAppend DEF PeerCommits, TypeOK, Build
  <2> QED
    BY <1>12, <2>2 DEF PeerCommits, build
<1> QED
  BY <1>1, <1>2, <1>3, <1>4, <1>5, <1>6, <1>7, <1>8, <1>9, <1>10, <1>11, <1>12
  DEF Next, Hook

-----------------------------------------------------------------------------
(* The staged versions, on a branch that has a commit. *)

\* The branch has a commit, and what is staged can be listed.
Born    == \A r \in Repos : r.head # << >>
ListWorks == "list" \notin Failing

StagedOn(branch, P) ==
    \A p \in P : stood.index[p] \in Content => InBranch(branch, p, stood.index[p])

Earlier1(p) == \E k \in 1..at-1 : p \in Before(k)

\* The index stands until the reset of a preservation, and then what stood in
\* it is on the branch and in every commit built on it.
IndexStands ==
    /\ head # << >>
    /\ pc \in Preserving \ {"seed"} => hasHead
    /\ pc \notin {"run", "done"} =>
          \A p \in Path : index[p] = stood.index[p] \/ Earlier1(p) \/ (pc = "push" /\ p \in risk)
    /\ \A k \in 1..at-1 : StagedOn(head, Before(k))
    /\ pc \in {"commit", "ref"} /\ commit # << >> => \A k \in 1..at-1 : StagedOn(commit, Before(k))
    /\ pc = "push" => StagedOn(head, risk)
    /\ \A p \in Path : stood.index[p] \in Content =>
          index[p] = stood.index[p] \/ InBranch(head, p, stood.index[p])

InChain(p, c) == \E i \in DOMAIN trees : trees[i][p] = c

\* The staged version of a path at risk moves from the list to the temporary
\* index, to the chain, to the commit and to the branch.
Moves(p, c) ==
    /\ pc = "cacheinfo" => << p, c >> \in staged \/ tmp[p] = c \/ InBranch(head, p, c)
    /\ pc = "stagedtree" => tmp[p] = c \/ InBranch(head, p, c)
    /\ pc \in {"add", "write"} => InChain(p, c) \/ InBranch(head, p, c)
    /\ pc = "commit" => InChain(p, c) \/ InBranch(Parent, p, c)
    /\ pc = "ref" => InBranch(commit, p, c)
    /\ pc = "reset" => InBranch(head, p, c)

StagedMoves ==
    /\ pc \in {"list", "cacheinfo", "stagedtree"} =>
          \A t \in headTree : \E i \in DOMAIN head : head[i] = t
    /\ pc = "cacheinfo" => \A e \in staged : e[2] = index[e[1]]
    /\ \A p \in risk : index[p] \in Content => Moves(p, index[p])

SInv == WInv /\ IndexStands /\ StagedMoves

LEMMA StepStagedMoves ==
    ASSUME SInv, ReadTreeWorks, ListWorks, [Next]_vars
    PROVE  StagedMoves'
<1>a. TypeOK /\ Judging1 /\ Earlier /\ Chained /\ IndexStands /\ StagedMoves
  BY DEF SInv, WInv, IInv
<1>b. /\ head \in Seq(Tree) /\ head # << >> /\ index \in Index /\ tmp \in Tree
      /\ trees \in Seq(Tree) /\ commit \in Seq(Tree) /\ risk \subseteq Path
  BY <1>a DEF TypeOK, Build, IndexStands
<1> USE DEF StagedMoves
<1>1. CASE UNCHANGED vars
  BY <1>1, <1>a DEF vars, repo, build, Moves, InChain, InBranch, Parent
<1>2. CASE JudgeDenies \/ ProbeFails \/ Allow \/ Probe \/ JudgeHarmless \/ JudgeAtRisk
  BY <1>2 DEF JudgeDenies, ProbeFails, Allow, Probe, JudgeHarmless, JudgeAtRisk, Deny,
              Judging, Moves
<1>3. CASE TempFails \/ AddRefused \/ NothingDiffers \/ PreserveFails \/ MoveRefUnheard
  BY <1>3 DEF TempFails, AddRefused, NothingDiffers, PreserveFails, MoveRefUnheard, Deny, Moves
<1>4. CASE Seed
  <2>1. pc' = "headtree"
    BY <1>4, <1>b DEF Seed, ReadTreeWorks, Fails
  <2> QED
    BY <2>1 DEF Moves
<1>5. CASE ReadHeadTree
  <2>1. headTree' \subseteq {Tip(head)} /\ pc' = "list" /\ head' = head
    BY <1>5 DEF ReadHeadTree, repo
  <2>2. Tip(head) = head[Len(head)] /\ Len(head) \in DOMAIN head
    BY <1>b, EmptySeq DEF Tip
  <2> QED
    BY <2>1, <2>2 DEF Moves
<1>6. CASE ListStaged
  <2>1. staged' = {<< p, index[p] >> : p \in {q \in risk : /\ index[q] # Tip(head)[q]
                                                            /\ index[q] \in Content}}
        /\ pc' \in {"add", "cacheinfo"} /\ (pc' = "add" => staged' = {}) /\ pc = "list"
        /\ UNCHANGED << head, index, risk, headTree, trees, tmp >>
    BY <1>6 DEF ListStaged, repo
  <2>2. \A p \in risk : index[p] \in Content =>
            << p, index[p] >> \in staged' \/ InBranch(head, p, index[p])
    BY <2>1, <1>b, TipInBranch
  <2>3. \A e \in staged' : e[2] = index[e[1]]
    BY <2>1
  <2> QED
    BY <2>1, <2>2, <2>3, <1>a DEF Moves
<1>7. CASE CacheInfo
  <2>1. PICK e \in staged : tmp' = [tmp EXCEPT ![e[1]] = e[2]] /\ staged' = staged \ {e}
    BY <1>7 DEF CacheInfo
  <2>2. pc = "cacheinfo" /\ pc' = (IF staged' = {} THEN "stagedtree" ELSE "cacheinfo")
        /\ UNCHANGED << head, index, risk, headTree >>
    BY <1>7 DEF CacheInfo, repo
  <2>3. e[2] = index[e[1]]
    BY <2>2, <1>a
  <2>4. ASSUME NEW p \in risk, index[p] \in Content PROVE Moves(p, index[p])'
    <3>1. << p, index[p] >> \in staged \/ tmp[p] = index[p] \/ InBranch(head, p, index[p])
      BY <2>2, <2>4, <1>a DEF Moves
    <3>2. e = << p, index[p] >> => tmp'[p] = index[p]
      BY <2>1, <2>4, <1>b DEF Tree
    <3>3. tmp[p] = index[p] => tmp'[p] = index[p]
      BY <2>1, <2>3, <2>4, <1>b DEF Tree
    <3>4. << p, index[p] >> \in staged' \/ tmp'[p] = index[p] \/ InBranch(head, p, index[p])
      BY <2>1, <3>1, <3>2, <3>3
    <3> QED
      BY <2>2, <3>4 DEF Moves, InBranch
  <2>5. \A t \in headTree' : \E i \in DOMAIN head' : head'[i] = t
    BY <2>2, <1>a
  <2>6. \A d \in staged' : d[2] = index'[d[1]]
    BY <2>1, <2>2, <1>a
  <2>7. \A p \in risk' : index'[p] \in Content => Moves(p, index[p])'
    BY <2>2, <2>4
  <2> QED
    BY <2>5, <2>6, <2>7
<1>8. CASE StagedTree
  <2>1. pc = "stagedtree" /\ pc' = "add" /\ trees' = (IF tmp \in headTree THEN << >> ELSE << tmp >>)
        /\ UNCHANGED << head, index, risk, tmp >>
    BY <1>8 DEF StagedTree, repo
  <2>2. ASSUME NEW p \in risk, index[p] \in Content PROVE Moves(p, index[p])'
    <3>1. tmp[p] = index[p] \/ InBranch(head, p, index[p])
      BY <2>1, <2>2, <1>a DEF Moves
    <3>2. tmp \in headTree /\ tmp[p] = index[p] => InBranch(head, p, index[p])
      BY <2>1, <1>a DEF InBranch
    <3>3. tmp \notin headTree /\ tmp[p] = index[p] => InChain(p, index[p])'
      BY <2>1 DEF InChain
    <3> QED
      BY <2>1, <3>1, <3>2, <3>3 DEF Moves, InBranch, InChain
  <2> QED
    BY <2>1, <2>2
<1>9. CASE StagedGivesUp
  BY <1>9 DEF StagedGivesUp, ListWorks, Fails
<1>10. CASE Add
  BY <1>10, <1>a DEF Add, repo, Moves, InChain, InBranch
<1>11. CASE WriteTree
  <2>1. trees' = Chain /\ pc = "write" /\ pc' = "commit" /\ UNCHANGED << head, index, risk, commit, hasHead >>
    BY <1>11 DEF WriteTree, repo
  <2>2. \A i \in DOMAIN trees : i \in DOMAIN Append(trees, tmp) /\ Append(trees, tmp)[i] = trees[i]
    BY <1>b
  <2>3. \A i \in DOMAIN trees : i \in DOMAIN Chain /\ Chain[i] = trees[i]
    BY <2>2 DEF Chain
  <2>4. hasHead /\ commit = << >>
    BY <2>1, <1>a DEF IndexStands, Preserving, Earlier
  <2>5. Parent' = head
    BY <2>1, <2>4 DEF Parent
  <2>6. \A p \in risk : index[p] \in Content => InChain(p, index[p]) \/ InBranch(head, p, index[p])
    BY <2>1, <1>a DEF Moves
  <2>7. \A p, c : InChain(p, c) => InChain(p, c)'
    BY <2>1, <2>3 DEF InChain
  <2>8. ASSUME NEW p \in risk, index[p] \in Content PROVE Moves(p, index[p])'
    <3>1. PICK c \in Content : c = index[p] /\ index'[p] = c
      BY <2>1, <2>8
    <3>2. InChain(p, c) \/ InBranch(head, p, c)
      BY <2>6, <2>8, <3>1
    <3>3. InChain(p, c)' \/ InBranch(Parent', p, c)
      BY <2>5, <2>7, <3>2
    <3> QED
      BY <2>1, <3>1, <3>3 DEF Moves, InChain, InBranch
  <2> QED
    BY <2>1, <2>8
<1>12. CASE CommitTree
  <2>1. trees # << >> /\ Parent \in Seq(Tree) /\ pc = "commit" /\ pc' \in {"commit", "ref"}
        /\ (pc' = "ref" => trees' = << >>)
        /\ commit' = Append(Parent, Head(trees)) /\ trees' = Tail(trees)
        /\ UNCHANGED << head, index, risk, hasHead >>
    BY <1>12, <1>a, <1>b DEF CommitTree, TypeOK, Build, Parent, repo
  <2>2. Head(trees) \in Tree /\ Head(trees) = trees[1] /\ Len(Tail(trees)) = Len(trees) - 1
        /\ \A i \in 1..Len(Tail(trees)) : Tail(trees)[i] = trees[i+1]
    BY <2>1, <1>b, HeadTailProperties
  <2>3. commit' # << >> /\ Parent' = commit'
    BY <2>1, <2>2, AppendProperties DEF Parent
  <2>4. ASSUME NEW p \in risk, index[p] \in Content
        PROVE  InChain(p, index[p])' \/ InBranch(commit', p, index[p])
    <3>1. InChain(p, index[p]) \/ InBranch(Parent, p, index[p])
      BY <2>1, <2>4, <1>a DEF Moves
    <3>2. CASE InBranch(Parent, p, index[p])
      BY <2>1, <2>2, <3>2, AppendKeeps
    <3>3. CASE InChain(p, index[p])
      <4>1. PICK i \in 1..Len(trees) : trees[i][p] = index[p]
        BY <3>3, <1>b DEF InChain
      <4>2. CASE i = 1
        BY <2>1, <2>2, <4>1, <4>2, AppendKeeps
      <4>3. CASE i # 1
        <5>1. Len(trees) \in Nat /\ i - 1 \in 1..Len(Tail(trees)) /\ (i - 1) + 1 = i
          BY <2>2, <4>3, <1>b
        <5>2. Tail(trees)[i - 1][p] = index[p] /\ DOMAIN Tail(trees) = 1..Len(Tail(trees))
          BY <2>1, <2>2, <4>1, <5>1, <1>b, HeadTailProperties
        <5> QED
          BY <2>1, <5>1, <5>2 DEF InChain
      <4> QED
        BY <4>2, <4>3
    <3> QED
      BY <3>1, <3>2, <3>3
  <2>5. pc' = "ref" => DOMAIN trees' = {}
    BY <2>1
  <2>6. \A p \in risk : index[p] \in Content => (pc' = "ref" => InBranch(commit', p, index[p]))
    BY <2>4, <2>5 DEF InChain
  <2>7. \A p \in risk : index[p] \in Content => Moves(p, index[p])'
    BY <2>1, <2>3, <2>4, <2>6 DEF Moves, InBranch, InChain
  <2> QED
    BY <2>1, <2>7
<1>13. CASE MoveRef
  BY <1>13, <1>a DEF MoveRef, build, Moves, InBranch
<1>14. CASE Reset \/ Push \/ Run
  BY <1>14 DEF Reset, Push, Run, Moves
<1>15. CASE PeerCommits
  <2>1. index \in Tree /\ head' = Append(head, index)
        /\ UNCHANGED << pc, build, index >>
    BY <1>15, <1>b DEF PeerCommits, Index, Entry, Tree
  <2>2. \A p, c : InBranch(head, p, c) => InBranch(head', p, c)
    BY <2>1, <1>b, AppendKeeps
  <2>3. \A p, c : InBranch(Parent, p, c) => InBranch(Parent', p, c)
    BY <2>1, <2>2 DEF Parent, build
  <2>4. ASSUME NEW p, NEW c, Moves(p, c) PROVE Moves(p, c)'
    <3>1. UNCHANGED << pc, staged, tmp, commit >> /\ (InChain(p, c)' <=> InChain(p, c))
      BY <2>1 DEF build, InChain
    <3>2. InBranch(head, p, c) => InBranch(head, p, c)'
      BY <2>2
    <3>3. InBranch(Parent, p, c) => InBranch(Parent, p, c)'
      BY <2>3
    <3>4. InBranch(commit, p, c) => InBranch(commit, p, c)'
      BY <3>1
    <3> QED
      BY <2>4, <3>1, <3>2, <3>3, <3>4 DEF Moves
  <2>5. \A i \in DOMAIN head : i \in DOMAIN head' /\ head'[i] = head[i]
    BY <2>1, <1>b
  <2> QED
    BY <2>1, <2>4, <2>5, <1>a DEF build
<1> QED
  BY <1>1, <1>2, <1>3, <1>4, <1>5, <1>6, <1>7, <1>8, <1>9, <1>10, <1>11, <1>12, <1>13,
     <1>14, <1>15 DEF Next, Hook

\* At the reset, what stood staged at a path at risk is on the branch.
LEMMA ResetFinds ==
    ASSUME SInv, pc = "reset"
    PROVE  StagedOn(head, risk)
<1> SUFFICES ASSUME NEW p \in risk, stood.index[p] \in Content
             PROVE  InBranch(head, p, stood.index[p])
  BY DEF StagedOn
<1>1. p \in Path /\ (index[p] = stood.index[p] \/ Earlier1(p))
  BY DEF SInv, IndexStands, WInv, IInv, TypeOK, Build
<1>2. CASE index[p] = stood.index[p]
  BY <1>2 DEF SInv, StagedMoves, Moves
<1>3. CASE Earlier1(p)
  BY <1>3 DEF SInv, IndexStands, StagedOn, Earlier1
<1> QED
  BY <1>1, <1>2, <1>3

LEMMA StepIndex ==
    ASSUME SInv, ReadTreeWorks, FindingsCover, [Next]_vars
    PROVE  IndexStands'
<1>a. TypeOK /\ Judging1 /\ Earlier /\ Judged1 /\ Chained /\ IndexStands
  BY DEF SInv, WInv, IInv
<1>b. /\ head \in Seq(Tree) /\ head # << >> /\ index \in Index
      /\ trees \in Seq(Tree) /\ commit \in Seq(Tree) /\ at \in Nat \ {0} /\ stood \in Repo
  BY <1>a DEF TypeOK, Build, IndexStands
<1> USE DEF Before, Earlier1, StagedOn
<1>1. CASE UNCHANGED vars
  BY <1>1, <1>a DEF vars, repo, build, IndexStands, InBranch
<1>2. CASE JudgeDenies \/ ProbeFails \/ Allow
  BY <1>2, <1>a DEF JudgeDenies, ProbeFails, Allow, Deny, repo, build, IndexStands, Preserving
<1>3. CASE Probe
  <2>1. at = 1 /\ UNCHANGED << at, pc, head, index, stood >> /\ pc = "judge"
    BY <1>3, <1>a DEF Probe, Judging, Judging1, repo
  <2> QED
    BY <2>1, <1>a DEF IndexStands, Preserving
<1>4. CASE JudgeHarmless
  <2>1. at' = at + 1 /\ pc = "judge" /\ pc' = pc /\ AtRisk(command[at], seen[1]) = {}
        /\ UNCHANGED << command, seen, head, index, stood >>
    BY <1>4 DEF JudgeHarmless, Judging, repo
  <2>2. \A k \in 1..at : StagedOn(head, AtRisk(command[k], seen[1]))
    BY <2>1, <1>a, <1>b DEF IndexStands
  <2>3. \A p : Earlier1(p) => Earlier1(p)'
    BY <2>1, <1>b
  <2>4. \A p \in Path : index[p] = stood.index[p] \/ Earlier1(p)
    BY <2>1, <1>a DEF IndexStands
  <2>5. \A p \in Path : index'[p] = stood'.index[p] \/ Earlier1(p)'
    BY <2>1, <2>3, <2>4
  <2> QED
    BY <2>1, <2>2, <2>5, <1>a, <1>b DEF IndexStands, Preserving
<1>5. CASE JudgeAtRisk
  BY <1>5, <1>a DEF JudgeAtRisk, Judging, repo, IndexStands
<1>6. CASE TempFails \/ AddRefused \/ NothingDiffers \/ PreserveFails
  BY <1>6, <1>a DEF TempFails, AddRefused, NothingDiffers, PreserveFails, Deny, Quiet, repo,
              IndexStands, Preserving
<1>7. CASE Seed
  <2>1. hasHead' /\ pc' = "headtree" /\ UNCHANGED << head, index, at, command, seen, stood >> /\ pc = "seed"
    BY <1>7, <1>b DEF Seed, Quiet, repo, ReadTreeWorks, Fails
  <2> QED
    BY <2>1, <1>a DEF IndexStands, Preserving
<1>8. CASE ReadHeadTree \/ ListStaged \/ CacheInfo
  BY <1>8, <1>a DEF ReadHeadTree, ListStaged, CacheInfo, Quiet, repo, IndexStands, Preserving
<1>9. CASE StagedTree \/ StagedGivesUp \/ Add
  BY <1>9, <1>a DEF StagedTree, StagedGivesUp, Add, Quiet, repo, build, IndexStands, Preserving
<1>10. CASE WriteTree
  BY <1>10, <1>a DEF WriteTree, Quiet, repo, Earlier, Preserving, IndexStands
<1>11. CASE CommitTree
  <2>1. trees # << >> /\ Parent \in Seq(Tree)
    BY <1>11, <1>a DEF CommitTree, TypeOK, Build, Parent
  <2>2. \A k \in 1..at-1 : StagedOn(Parent, AtRisk(command[k], seen[1]))
    BY <1>11, <1>a DEF CommitTree, IndexStands, Parent, Preserving
  <2>3. Head(trees) \in Tree
    BY <2>1, <1>b, TailKeepsLast
  <2>4. \A k \in 1..at-1 : StagedOn(Append(Parent, Head(trees)), AtRisk(command[k], seen[1]))
    BY <2>1, <2>2, <2>3, AppendKeeps
  <2>5. commit' = Append(Parent, Head(trees)) /\ pc' \in {"commit", "ref"} /\ pc = "commit"
        /\ UNCHANGED << head, index, hasHead, at, command, seen, stood >>
    BY <1>11 DEF CommitTree, Quiet, repo
  <2> QED
    BY <2>4, <2>5, <1>a DEF IndexStands, Preserving
<1>12. CASE MoveRef \/ MoveRefUnheard
  <2>1. pc = "ref" /\ head' = commit /\ commit # << >> /\ pc' \in {"reset", "done"}
        /\ UNCHANGED << index, hasHead, commit, at, command, seen, stood >>
    BY <1>12, <1>a DEF MoveRef, MoveRefUnheard, Deny, Quiet, build, Chained
  <2>2. \A k \in 1..at-1 : StagedOn(commit, AtRisk(command[k], seen[1]))
    BY <2>1, <1>a DEF IndexStands
  <2>3. \A p \in Path : index[p] = stood.index[p] \/ Earlier1(p)
    BY <2>1, <1>a DEF IndexStands
  <2>4. \A p \in Path : stood.index[p] \in Content =>
          index[p] = stood.index[p] \/ InBranch(commit, p, stood.index[p])
    BY <2>2, <2>3
  <2> QED
    BY <2>1, <2>2, <2>3, <2>4, <1>a DEF IndexStands, Preserving
<1>13. CASE Reset
  <2>1. pc = "reset" /\ pc' = "push" /\ UNCHANGED << head, risk, hasHead, at, command, seen, stood >>
    BY <1>13 DEF Reset, Quiet, build
  <2>2. StagedOn(head, risk)
    BY <2>1, ResetFinds
  <2>3. \A p \in Path : p \in risk \/ index'[p] = index[p]
    BY <1>13 DEF Reset
  <2>4. \A p \in Path : index'[p] = stood.index[p] \/ Earlier1(p) \/ p \in risk
    BY <2>1, <2>3, <1>a DEF IndexStands
  <2>5. \A p \in Path : stood.index[p] \in Content =>
          index'[p] = stood.index[p] \/ InBranch(head, p, stood.index[p])
    BY <2>2, <2>3, <1>a DEF IndexStands
  <2> QED
    BY <2>1, <2>2, <2>4, <2>5, <1>a DEF IndexStands, Preserving
<1>14. CASE Push
  <2>1. at' = at + 1 /\ pc = "push" /\ pc' = "judge" /\ risk = AtRisk(command[at], seen[1])
        /\ UNCHANGED << command, seen, head, index, stood >>
    BY <1>14, <1>a DEF Push, Judging1, Preserving
  <2>2. \A k \in 1..at : StagedOn(head, AtRisk(command[k], seen[1]))
    BY <2>1, <1>a, <1>b DEF IndexStands
  <2>3. \A p : Earlier1(p) \/ p \in risk => Earlier1(p)'
    BY <2>1, <1>b
  <2>4. \A p \in Path : index[p] = stood.index[p] \/ Earlier1(p) \/ p \in risk
    BY <2>1, <1>a DEF IndexStands
  <2>5. \A p \in Path : index'[p] = stood'.index[p] \/ Earlier1(p)'
    BY <2>1, <2>3, <2>4
  <2> QED
    BY <2>1, <2>2, <2>5, <1>a, <1>b DEF IndexStands, Preserving
<1>15. CASE Run
  <2>1. pc = "run" /\ pc' \in {"run", "done"} /\ at = Len(command) + 1
        /\ UNCHANGED << head, hasHead, at, command, seen, stood >>
    BY <1>15, <1>a DEF Run, Judged1, build
  <2>2. ASSUME NEW p \in Path, stood.index[p] \in Content
        PROVE  index'[p] = stood.index[p] \/ InBranch(head, p, stood.index[p])
    <3>1. CASE ~Aside(p)
      <4>1. PICK k \in 1..at-1 : p \in AtRisk(command[k], seen[1])
        BY <2>1, <3>1, <1>a DEF Aside, TypeOK
      <4> QED
        BY <2>2, <4>1, <1>a DEF IndexStands
    <3>2. CASE Aside(p) /\ p \in Hit(command[ran + 1])
      <4>1. index'[p] = index[p]
        BY <1>15, <3>2, RunSpares DEF SInv, WInv
      <4> QED
        BY <2>2, <4>1, <1>a DEF IndexStands
    <3>3. CASE p \notin Hit(command[ran + 1])
      <4>1. index'[p] = index[p]
        BY <1>15, <3>3 DEF Run
      <4> QED
        BY <2>2, <4>1, <1>a DEF IndexStands
    <3> QED
      BY <3>1, <3>2, <3>3
  <2> QED
    BY <2>1, <2>2, <1>a DEF IndexStands, Preserving
<1>16. CASE PeerCommits
  <2>1. index \in Tree /\ head' = Append(head, index)
        /\ UNCHANGED << pc, build, index, at, command, seen, stood >>
    BY <1>16, <1>b DEF PeerCommits, Index, Entry, Tree
  <2>2. \A p, c : InBranch(head, p, c) => InBranch(head', p, c)
    BY <2>1, <1>b, AppendKeeps
  <2>3. head' # << >>
    BY <2>1, <1>b, AppendProperties
  <2> QED
    BY <2>1, <2>2, <2>3, <1>a DEF IndexStands, build, Preserving
<1> QED
  BY <1>1, <1>2, <1>3, <1>4, <1>5, <1>6, <1>7, <1>8, <1>9, <1>10, <1>11, <1>12, <1>13,
     <1>14, <1>15, <1>16 DEF Next, Hook

-----------------------------------------------------------------------------
(* No commit repeats its parent, when HEAD's tree can be read. *)

HeadTreeWorks == "headtree" \notin Failing

\* A branch that repeats no tree after those that stood.
Fresh(branch) == \A i \in 2..Len(branch) : i > Len(stood.head) => branch[i] # branch[i-1]

Differing ==
    /\ Fresh(head)
    /\ pc \in {"commit", "ref"} => Fresh(commit)
    /\ pc \in Preserving \ {"seed"} /\ hasHead => head # << >>
    /\ pc = "headtree" => hasHead
    /\ pc \in {"seed", "headtree"} => headTree = {}
    /\ pc \in {"list", "cacheinfo", "stagedtree", "add", "write"} =>
          headTree = (IF hasHead THEN {Tip(head)} ELSE {})
    /\ pc \in {"add", "write"} => trees = << >> \/ (Len(trees) = 1 /\ trees[1] \notin headTree)
    /\ pc = "commit" => /\ \A i \in 2..Len(trees) : trees[i] # trees[i-1]
                        /\ Parent # << >> => trees[1] # Tip(Parent)

LEMMA AppendFresh ==
    ASSUME NEW branch \in Seq(Tree), NEW t \in Tree, Fresh(branch),
           branch # << >> => t # Tip(branch)
    PROVE  Fresh(Append(branch, t))
<1> SUFFICES ASSUME NEW i \in 2..Len(Append(branch, t)), i > Len(stood.head)
             PROVE  Append(branch, t)[i] # Append(branch, t)[i-1]
  BY DEF Fresh
<1>1. Len(Append(branch, t)) = Len(branch) + 1 /\ Len(branch) \in Nat
      /\ Append(branch, t)[Len(branch) + 1] = t
      /\ \A j \in 1..Len(branch) : Append(branch, t)[j] = branch[j]
  OBVIOUS
<1>2. CASE i = Len(branch) + 1
  <2>1. branch # << >> /\ Len(branch) \in 1..Len(branch) /\ i - 1 = Len(branch)
    BY <1>1, <1>2
  <2>2. Tip(branch) = branch[Len(branch)]
    BY <2>1 DEF Tip
  <2> QED
    BY <1>1, <1>2, <2>1, <2>2
<1>3. CASE i # Len(branch) + 1
  <2>1. i \in 2..Len(branch) /\ i - 1 \in 1..Len(branch) /\ i \in 1..Len(branch)
    BY <1>1, <1>3
  <2> QED
    BY <1>1, <2>1 DEF Fresh
<1> QED
  BY <1>2, <1>3

LEMMA PairProperties ==
    ASSUME NEW s \in Seq(Tree), NEW t \in Tree, Len(s) = 1
    PROVE  Len(Append(s, t)) = 2 /\ Append(s, t)[1] = s[1] /\ Append(s, t)[2] = t
<1>1. Len(Append(s, t)) = Len(s) + 1 /\ Append(s, t)[Len(s) + 1] = t
      /\ \A i \in 1..Len(s) : Append(s, t)[i] = s[i]
  OBVIOUS
<1> QED
  BY <1>1

LEMMA SecondProperties ==
    ASSUME NEW s \in Seq(Tree), s # << >>, Tail(s) # << >>
    PROVE  2 \in 2..Len(s) /\ Tail(s)[1] = s[2]
<1>1. /\ Tail(s) \in Seq(Tree) /\ Len(Tail(s)) = Len(s) - 1
      /\ \A i \in 1..Len(Tail(s)) : Tail(s)[i] = s[i+1]
  BY HeadTailProperties
<1>2. PICK t \in Seq(Tree) : t = Tail(s)
  BY <1>1
<1>3. Len(t) \in Nat /\ Len(t) # 0 /\ Len(s) = Len(t) + 1 /\ \A i \in 1..Len(t) : t[i] = s[i+1]
  BY <1>1, <1>2
<1>4. 1 \in 1..Len(t) /\ t[1] = s[2] /\ 2 \in 2..Len(s)
  BY <1>3
<1> QED
  BY <1>2, <1>4

LEMMA StepDiffering ==
    ASSUME WInv, Differing, NobodyElse, ReadTreeWorks, HeadTreeWorks, [Next]_vars
    PROVE  Differing'
<1>a. TypeOK /\ Judging1 /\ Earlier /\ Judged1 /\ Chained
  BY DEF WInv, IInv
<1>b. /\ head \in Seq(Tree) /\ tmp \in Tree /\ trees \in Seq(Tree) /\ commit \in Seq(Tree)
  BY <1>a DEF TypeOK, Build
<1>c. ~PeerCommits
  BY <1>a DEF PeerCommits, NobodyElse, TypeOK
<1>d. stood' = stood
  BY DEF Next, Hook, JudgeDenies, ProbeFails, JudgeHarmless, JudgeAtRisk, Allow, Probe, TempFails,
         Seed, ReadHeadTree, ListStaged, CacheInfo, StagedTree, StagedGivesUp, Add, AddRefused,
         WriteTree, NothingDiffers, CommitTree, PreserveFails, MoveRef, MoveRefUnheard, Reset,
         Push, Run, PeerCommits, Quiet, vars
<1>1. CASE UNCHANGED vars
  BY <1>1 DEF vars, repo, build, Differing, Fresh, Parent
<1>2. CASE JudgeDenies \/ ProbeFails \/ Allow \/ Probe \/ JudgeHarmless
  BY <1>2, <1>d DEF JudgeDenies, ProbeFails, Allow, Probe, JudgeHarmless, Deny, Judging, repo,
                    Differing, Fresh, Preserving
<1>3. CASE JudgeAtRisk
  BY <1>3, <1>d DEF JudgeAtRisk, repo, Differing, Fresh
<1>4. CASE TempFails \/ AddRefused \/ NothingDiffers \/ PreserveFails
  BY <1>4, <1>d DEF TempFails, AddRefused, NothingDiffers, PreserveFails, Deny, Quiet, repo,
                    Differing, Fresh, Preserving
<1>5. CASE Seed
  <2>1. head' = head /\ headTree' = {} /\ trees' = << >>
        /\ \/ head # << >> /\ hasHead' = TRUE /\ pc' = "headtree"
           \/ hasHead' = FALSE /\ pc' = "add"
    BY <1>5, <1>a DEF Seed, ReadTreeWorks, Fails, Differing, Chained, repo
  <2> QED
    BY <2>1, <1>d DEF Differing, Fresh, Preserving
<1>6. CASE ReadHeadTree
  BY <1>6, <1>d DEF ReadHeadTree, HeadTreeWorks, Fails, repo, Differing, Fresh, Preserving
<1>7. CASE ListStaged \/ CacheInfo \/ StagedGivesUp
  BY <1>7, <1>a, <1>d DEF ListStaged, CacheInfo, StagedGivesUp, repo, build, Differing, Fresh,
                          Chained, Preserving
<1>8. CASE StagedTree
  <2>1. trees' = (IF tmp \in headTree THEN << >> ELSE << tmp >>) /\ pc = "stagedtree" /\ pc' = "add"
        /\ UNCHANGED << head, headTree, hasHead >>
    BY <1>8 DEF StagedTree, repo
  <2>2. trees' = << >> \/ (Len(trees') = 1 /\ trees'[1] \notin headTree)
    BY <2>1
  <2> QED
    BY <2>1, <2>2, <1>d DEF Differing, Fresh, Preserving
<1>9. CASE Add
  BY <1>9, <1>d DEF Add, repo, Differing, Fresh, Preserving
<1>10. CASE WriteTree
  <2>1. trees' = Chain /\ ~(Len(Chain) = 1 /\ Chain[1] \in headTree) /\ pc = "write" /\ pc' = "commit"
        /\ UNCHANGED << head, hasHead, commit >>
    BY <1>10 DEF WriteTree, repo
  <2>2. commit = << >> /\ headTree = (IF hasHead THEN {Tip(head)} ELSE {})
        /\ (trees = << >> \/ (Len(trees) = 1 /\ trees[1] \notin headTree))
        /\ (hasHead => head # << >>)
    BY <2>1, <1>a DEF Earlier, Differing, Preserving
  <2>3. /\ Chain # << >> /\ Chain[1] \notin headTree
        /\ \A i \in 2..Len(Chain) : Chain[i] # Chain[i-1]
    <3>1. CASE trees = << >>
      <4>1. Chain = << tmp >>
        BY <3>1, <1>b DEF Chain
      <4> QED
        BY <2>1, <4>1
    <3>2. CASE trees # << >> /\ trees[Len(trees)] = tmp
      <4>1. Chain = trees
        BY <3>2, Zenon DEF Chain
      <4>2. Len(trees) = 1 /\ trees[1] \notin headTree
        BY <2>2, <3>2
      <4> QED
        BY <3>2, <4>1, <4>2
    <3>3. CASE trees # << >> /\ trees[Len(trees)] # tmp
      <4>1. Chain = Append(trees, tmp) /\ Len(trees) = 1 /\ trees[1] \notin headTree
        BY <2>2, <3>3 DEF Chain
      <4>2. Len(Append(trees, tmp)) = 2 /\ Append(trees, tmp)[1] = trees[1] /\ Append(trees, tmp)[2] = tmp
        BY <4>1, <1>b, PairProperties
      <4>3. Append(trees, tmp) # << >> /\ trees[1] # tmp
        BY <3>3, <4>1, <1>b, AppendProperties
      <4>4. \A i \in 2..2 : i = 2 /\ i - 1 = 1
        OBVIOUS
      <4>5. Chain # << >> /\ Chain[1] \notin headTree
        BY <4>1, <4>2, <4>3
      <4>6. \A i \in 2..Len(Chain) : Chain[i] # Chain[i-1]
        BY <4>1, <4>2, <4>3, <4>4
      <4> QED
        BY <4>5, <4>6
    <3> QED
      BY <3>1, <3>2, <3>3
  <2>4. Parent' = (IF hasHead THEN head ELSE << >>)
    BY <2>1, <2>2 DEF Parent
  <2>5. Parent' # << >> => trees'[1] # Tip(Parent')
    BY <2>1, <2>2, <2>3, <2>4
  <2>6. Fresh(commit)' /\ Fresh(head)'
    BY <2>1, <2>2, <1>d DEF Fresh, Differing
  <2>8. pc' \in Preserving \ {"seed"} /\ hasHead' => head' # << >>
    BY <2>1, <2>2
  <2>7. \A i \in 2..Len(trees') : trees'[i] # trees'[i-1]
    BY <2>1, <2>3
  <2> QED
    BY <2>1, <2>5, <2>6, <2>7, <2>8 DEF Differing
<1>11. CASE CommitTree
  <2>1. trees # << >> /\ Parent \in Seq(Tree) /\ pc = "commit" /\ pc' \in {"commit", "ref"}
        /\ commit' = Append(Parent, Head(trees)) /\ trees' = Tail(trees)
        /\ UNCHANGED << head, hasHead >>
    BY <1>11, <1>a, <1>b DEF CommitTree, TypeOK, Build, Parent, repo
  <2>2. Head(trees) \in Tree /\ Head(trees) = trees[1] /\ Len(Tail(trees)) = Len(trees) - 1
        /\ \A i \in 1..Len(Tail(trees)) : Tail(trees)[i] = trees[i+1]
    BY <2>1, <1>b, HeadTailProperties
  <2>a. commit' # << >> /\ Tip(commit') = Head(trees)
    BY <2>1, <2>2, AppendProperties, TipAppend
  <2>3. commit' # << >> /\ Parent' = commit' /\ Tip(commit') = Head(trees)
    BY <2>a DEF Parent
  <2>4. /\ \A i \in 2..Len(trees) : trees[i] # trees[i-1]
        /\ Parent # << >> => trees[1] # Tip(Parent)
        /\ Fresh(Parent)
    BY <2>1 DEF Differing, Parent, Fresh
  <2>5. Fresh(commit')
    BY <2>1, <2>2, <2>4, AppendFresh
  <2>6. \A i \in 2..Len(trees') : trees'[i] # trees'[i-1]
    <3>1. \A i \in 2..Len(Tail(trees)) : /\ i \in 1..Len(Tail(trees)) /\ i - 1 \in 1..Len(Tail(trees))
                                         /\ i + 1 \in 2..Len(trees) /\ (i + 1) - 1 = (i - 1) + 1
      BY <2>1, <2>2, <1>b
    <3> QED
      BY <2>1, <2>2, <2>4, <3>1
  <2>7. pc' = "commit" => trees'[1] # Tip(commit')
    <3>1. pc' = "commit" => Tail(trees) # << >>
      BY <1>11 DEF CommitTree
    <3>2. ASSUME Tail(trees) # << >> PROVE Tail(trees)[1] # trees[1]
      <4>1. 2 \in 2..Len(trees) /\ Tail(trees)[1] = trees[2] /\ 2 - 1 = 1
        BY <2>1, <3>2, <1>b, SecondProperties
      <4> QED
        BY <2>4, <4>1
    <3> QED
      BY <2>1, <2>2, <2>3, <3>1, <3>2
  <2>8. Fresh(commit)' /\ Fresh(head)'
    BY <2>1, <2>5, <1>d DEF Fresh, Differing
  <2> QED
    BY <2>1, <2>3, <2>6, <2>7, <2>8 DEF Differing, Preserving
<1>12. CASE MoveRef \/ MoveRefUnheard
  <2>1. pc = "ref" /\ head' = commit /\ commit # << >> /\ pc' \in {"reset", "done"}
    BY <1>12, <1>a DEF MoveRef, MoveRefUnheard, Deny, Chained
  <2> QED
    BY <2>1, <1>d DEF Differing, Fresh
<1>13. CASE Reset
  BY <1>13, <1>d DEF Reset, build, Differing, Fresh, Preserving
<1>14. CASE Push \/ Run
  BY <1>14, <1>d DEF Push, Run, Differing, Fresh, Preserving
<1> QED
  BY <1>c, <1>1, <1>2, <1>3, <1>4, <1>5, <1>6, <1>7, <1>8, <1>9, <1>10, <1>11, <1>12, <1>13,
     <1>14 DEF Next, Hook

-----------------------------------------------------------------------------
(* The theorems. *)

\* Nothing is judged at the start.
LEMMA InitInv == ASSUME Init PROVE IInv
<1>1. pc = "judge" /\ at = 1 /\ seen = << >> /\ disk = stood.disk
  BY DEF Init
<1> QED
  BY <1>1, InitType DEF IInv, Judging1, Preserving, DiskStands, Carried, Earlier

\* The invariant of a preservation, for every failure but read-tree's.
THEOREM Inductive == ASSUME ReadTreeWorks PROVE Spec => []IInv
<1>1. IInv /\ [Next]_vars => IInv'
  BY StepType, StepJudging, StepDisk, CarriedStep, EarlierStep DEF IInv
<1> QED
  BY <1>1, InitInv, PTL DEF Spec

\* Every variable keeps its type.
THEOREM TypeCorrect == ASSUME ReadTreeWorks PROVE Spec => []TypeOK
<1>1. IInv => TypeOK
  BY DEF IInv
<1> QED
  BY <1>1, Inductive, PTL

\* A finding that was let through has its working content on the branch,
\* whatever else failed and whatever another session committed meanwhile.
THEOREM LetThroughMeansCommitted ==
    ASSUME ReadTreeWorks PROVE Spec => []JudgedIsCommitted
<1>1. IInv => JudgedIsCommitted
  BY DEF IInv, Earlier, Kept, Before, JudgedIsCommitted
<1> QED
  BY <1>1, Inductive, PTL

LEMMA InitKeeps == ASSUME Init PROVE WInv
<1>1. pc = "judge" /\ seen = << >> /\ disk = stood.disk /\ trees = << >> /\ command \in Commands
  BY DEF Init
<1> QED
  BY <1>1, InitInv DEF WInv, Judged1, Chained, Bystanders, Safe

\* The invariant with what happens to paths no finding endangers.
THEOREM Sparing == ASSUME ReadTreeWorks, FindingsCover PROVE Spec => []WInv
<1>1. WInv /\ [Next]_vars => WInv'
  <2> SUFFICES ASSUME WInv, [Next]_vars PROVE WInv'
    OBVIOUS
  <2>1. IInv'
    BY StepType, StepJudging, StepDisk, CarriedStep, EarlierStep DEF WInv, IInv
  <2>2. Judged1' /\ Chained'
    BY StepJudged, StepChained DEF WInv, IInv
  <2>3. Bystanders' /\ Safe'
    BY StepBystanders, StepSafe
  <2> QED
    BY <2>1, <2>2, <2>3 DEF WInv
<1> QED
  BY <1>1, InitKeeps, PTL DEF Spec

\* Content that stood only in the working tree is on the disk or on the branch
\* for ever, when every finding names what its command destroys.
THEOREM WorkingAlwaysKept ==
    ASSUME ReadTreeWorks, FindingsCover PROVE Spec => []WorkingKept
<1>1. WInv => WorkingKept
  BY DEF WInv, Safe, WorkingKept, Held
<1> QED
  BY <1>1, Sparing, PTL

\* Until the command runs, a path no finding endangers reads as it did, on the
\* disk, in the index and at the tip, when nobody else commits.
THEOREM BystandersAlwaysKept ==
    ASSUME ReadTreeWorks, FindingsCover, NobodyElse PROVE Spec => []BystandersKept
<1>1. Init => Undisturbed
  BY DEF Init, Undisturbed
<1>2. WInv /\ Undisturbed /\ [Next]_vars => Undisturbed'
  BY StepUndisturbed
<1>3. WInv /\ Undisturbed => BystandersKept
  BY DEF WInv, IInv, TypeOK, Undisturbed, Aside, Before, AsStood, BystandersKept
<1> QED
  BY <1>1, <1>2, <1>3, Sparing, PTL DEF Spec

\* The notice says "and pushed" only of a commit the remote has, for every
\* failure but read-tree's.
THEOREM PushedIsRemote == ASSUME ReadTreeWorks PROVE Spec => []PushedMeansRemote
<1>1. Init => Fits
  BY DEF Init, Fits, PushedMeansRemote, Preserving
<1>2. TypeOK /\ Fits /\ [Next]_vars => Fits'
  BY StepFits
<1>3. Fits => PushedMeansRemote
  BY DEF Fits
<1> QED
  BY <1>1, <1>2, <1>3, TypeCorrect, PTL DEF Spec

\* A staged version is in the index or on the branch for ever, on a branch that
\* has a commit, when what is staged can be listed.
THEOREM StagedAlwaysKept ==
    ASSUME ReadTreeWorks, ListWorks, Born, FindingsCover PROVE Spec => []StagedKept
<1>1. Init => IndexStands /\ StagedMoves
  <2> SUFFICES ASSUME Init PROVE IndexStands /\ StagedMoves
    OBVIOUS
  <2>1. pc = "judge" /\ at = 1 /\ index = stood.index /\ head # << >> /\ risk = {}
    BY DEF Init, Born
  <2> QED
    BY <2>1 DEF IndexStands, StagedMoves, Preserving
<1>2. SInv /\ WInv' /\ [Next]_vars => SInv'
  BY StepIndex, StepStagedMoves DEF SInv
<1>3. IndexStands => StagedKept
  BY DEF IndexStands, StagedKept, Held
<1> QED
  BY <1>1, <1>2, <1>3, Sparing, PTL DEF Spec, SInv

\* No commit of the hook repeats its parent's tree, when nobody else commits and
\* HEAD's tree can be read.
THEOREM NeverEmpty ==
    ASSUME ReadTreeWorks, HeadTreeWorks, NobodyElse, FindingsCover PROVE Spec => []NoEmptyCommit
<1>1. Init => Differing
  <2> SUFFICES ASSUME Init PROVE Differing
    OBVIOUS
  <2>1. pc = "judge" /\ head = stood.head
    BY DEF Init
  <2>2. Len(head) \in Nat
    BY InitType DEF TypeOK
  <2> QED
    BY <2>1, <2>2 DEF Differing, Fresh, Preserving
<1>2. WInv /\ Differing /\ [Next]_vars => Differing'
  BY StepDiffering
<1>3. Differing => NoEmptyCommit
  BY DEF Differing, Fresh, NoEmptyCommit
<1> QED
  BY <1>1, <1>2, <1>3, Sparing, PTL DEF Spec

=============================================================================
