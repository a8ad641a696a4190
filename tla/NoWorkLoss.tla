------------------------------ MODULE NoWorkLoss ------------------------------
(***************************************************************************)
(* no-work-loss (noworkloss/decide.go, preserve.go, repo.go): before a     *)
(* destructive command runs, the hook commits what the command would       *)
(* destroy onto the current branch, and then lets the command run.         *)
(*                                                                         *)
(* One invocation judges the findings of one command in order.  The        *)
(* repository is external: git commands are steps that read and write it,  *)
(* any step named in Failing may fail or time out, and up to Peers commits *)
(* of another session or of the user land between any two steps.           *)
(*                                                                         *)
(* A branch is the sequence of its trees, root first; a commit is named by *)
(* its branch, as a hash names its history.  A tree maps paths to contents.*)
(***************************************************************************)
EXTENDS Naturals, Sequences, SequencesExt

CONSTANTS Path, Content,
          Absent,      (* a path that a tree, the index or the disk lacks    *)
          Unmerged,    (* an index entry at a conflict stage                 *)
          Repos,       (* the repositories a behaviour may start from        *)
          Commands,    (* the commands it may judge, as their findings       *)
          Failing,     (* the steps that may fail                            *)
          Peers        (* bound: commits another session makes meanwhile     *)

Blob  == Content \cup {Absent}
Entry == Blob \cup {Unmerged}
Tree  == [Path -> Blob]
Index == [Path -> Entry]

Steps == {"probe", "temp", "seed", "headtree", "list", "add", "write", "commit",
          "ref", "refUnheard", "reset", "push", "pushUnheard"}

\* A finding covers paths, endangers hazard classes, and the command either
\* discards what differs from HEAD or removes the files.  denied: judge
\* refuses it whatever the tree holds (always, unresolved path, unsafe ref).
Finding == [paths : SUBSET Path, haz : SUBSET {"tracked", "untracked"},
            effect : {"discard", "remove"}, denied : BOOLEAN]

Repo == [disk : Tree, index : Index, head : Seq(Tree), remote : Seq(Tree)]

ASSUME ConstantsAssumption ==
    /\ Absent \notin Content /\ Unmerged \notin Blob
    /\ Repos \subseteq Repo /\ Commands \subseteq Seq(Finding) \ {<< >>}
    /\ Failing \subseteq Steps /\ Peers \in Nat

VARIABLES
    disk, index, head, remote,   \* the repository
    command, at,                 \* the findings, and the one being judged
    seen,                        \* repoCache: status, read once per command
    pc, verdict,
    risk,                        \* names: the paths commitPaths is given
    tmp, hasHead, headTree,      \* GIT_INDEX_FILE and what is known of HEAD
    staged,                      \* index entries still to copy into tmp
    trees, commit, pushed,
    ran,                         \* findings whose effect the command has had
    peers,
    stood                        \* history: the repository when judging began

repo  == << disk, index, head, remote >>
build == << risk, tmp, hasHead, headTree, staged, trees, commit, pushed >>
vars  == << repo, command, at, seen, pc, verdict, build, ran, peers, stood >>

Empty == [p \in Path |-> Absent]
Tip(branch) == IF branch = << >> THEN Empty ELSE branch[Len(branch)]

\* git status --porcelain=v2: a path staged or deleted in the index and still
\* on disk is listed twice, as changed and as untracked.
Status == [tracked   |-> {p \in Path : \/ index[p] # Tip(head)[p]
                                       \/ index[p] # Absent /\ index[p] # disk[p]},
           untracked |-> {p \in Path : index[p] = Absent /\ disk[p] # Absent}]

\* Mutant: only tracked modifications count as at risk.
AtRisk_TrackedOnly(f, st) == IF "tracked" \in f.haz THEN f.paths \cap st.tracked ELSE {}

\* atRisk and describeAtRisk: the names of the classes the finding endangers.
AtRisk(f, st) ==
    f.paths \cap ((IF "tracked" \in f.haz THEN st.tracked ELSE {})
             \cup (IF "untracked" \in f.haz THEN st.untracked ELSE {}))

Fails(step) == step \in Failing

Init ==
    \E r \in Repos, c \in Commands :
        /\ disk = r.disk /\ index = r.index /\ head = r.head /\ remote = r.remote
        /\ command = c /\ at = 1 /\ ran = 0
        /\ seen = << >>
        /\ pc = "judge" /\ verdict = "none"
        /\ risk = {} /\ tmp = Empty /\ hasHead = FALSE /\ headTree = {}
        /\ staged = {} /\ trees = << >> /\ commit = << >> /\ pushed = FALSE
        /\ peers = 0
        /\ stood = r

-----------------------------------------------------------------------------
(* judge, and analyze's loop around it.                                     *)

Deny == pc' = "done" /\ verdict' = "deny"

Judging == pc = "judge" /\ at <= Len(command)

\* always, an operand the shell walk cannot resolve, an unreachable ref.
JudgeDenies ==
    /\ Judging /\ command[at].denied
    /\ Deny
    /\ UNCHANGED << repo, command, at, seen, build, ran, peers, stood >>

\* repoCache.probe: one status per directory for the whole command.
Probe ==
    /\ Judging /\ ~command[at].denied /\ seen = << >>
    /\ seen' = << Status >>
    /\ UNCHANGED << repo, command, at, pc, verdict, build, ran, peers, stood >>

ProbeFails ==
    /\ Judging /\ ~command[at].denied /\ seen = << >> /\ Fails("probe")
    /\ Deny
    /\ UNCHANGED << repo, command, at, seen, build, ran, peers, stood >>

JudgeHarmless ==
    /\ Judging /\ ~command[at].denied /\ seen # << >>
    /\ AtRisk(command[at], seen[1]) = {}
    /\ at' = at + 1
    /\ UNCHANGED << repo, command, seen, pc, verdict, build, ran, peers, stood >>

JudgeAtRisk ==
    /\ Judging /\ ~command[at].denied /\ seen # << >>
    /\ AtRisk(command[at], seen[1]) # {}
    /\ risk' = AtRisk(command[at], seen[1])
    /\ tmp' = Empty /\ hasHead' = FALSE /\ headTree' = {} /\ staged' = {}
    /\ trees' = << >> /\ commit' = << >> /\ pushed' = FALSE
    /\ pc' = "seed"
    /\ UNCHANGED << repo, command, at, seen, verdict, ran, peers, stood >>

\* No finding denied the command: the hook stays silent or notices, and it runs.
Allow ==
    /\ pc = "judge" /\ at > Len(command)
    /\ pc' = "run" /\ verdict' = "allow"
    /\ UNCHANGED << repo, command, at, seen, build, ran, peers, stood >>

-----------------------------------------------------------------------------
(* commitPaths.                                                             *)

Quiet == UNCHANGED << command, at, seen, ran, peers, stood >>

\* read-tree HEAD: any failure reads as a repository with no commits, and
\* then stagedTree is not tried.
Seed ==
    /\ pc = "seed"
    /\ \/ head # << >> /\ hasHead' = TRUE /\ tmp' = Tip(head) /\ pc' = "headtree"
       \/ /\ head = << >> \/ Fails("seed")
          /\ hasHead' = FALSE /\ tmp' = Empty /\ pc' = "add"
    /\ UNCHANGED << repo, verdict, risk, headTree, staged, trees, commit, pushed >> /\ Quiet

\* rev-parse HEAD^{tree}: headTree is empty when it fails.
ReadHeadTree ==
    /\ pc = "headtree"
    /\ headTree' \in {{Tip(head)}} \cup (IF Fails("headtree") THEN {{}} ELSE {})
    /\ pc' = "list"
    /\ UNCHANGED << repo, verdict, risk, tmp, hasHead, staged, trees, commit, pushed >> /\ Quiet

\* diff --cached, then ls-files --stage of what it names: deleted and unmerged
\* entries yield no record.
ListStaged ==
    /\ pc = "list"
    /\ staged' = {<< p, index[p] >> : p \in {q \in risk : /\ index[q] # Tip(head)[q]
                                                          /\ index[q] \in Content}}
    /\ pc' = IF staged' = {} THEN "add" ELSE "cacheinfo"
    /\ UNCHANGED << repo, verdict, risk, tmp, hasHead, headTree, trees, commit, pushed >> /\ Quiet

\* update-index --cacheinfo, one entry at a time.
CacheInfo ==
    /\ pc = "cacheinfo"
    /\ \E e \in staged :
        /\ tmp' = [tmp EXCEPT ![e[1]] = e[2]]
        /\ staged' = staged \ {e}
    /\ pc' = IF staged' = {} THEN "stagedtree" ELSE "cacheinfo"
    /\ UNCHANGED << repo, verdict, risk, hasHead, headTree, trees, commit, pushed >> /\ Quiet

\* Mutant: the staged tree is built and never put in the chain.
StagedTree_Dropped ==
    /\ pc = "stagedtree"
    /\ pc' = "add" /\ UNCHANGED trees
    /\ UNCHANGED << repo, verdict, risk, tmp, hasHead, headTree, staged, commit, pushed >> /\ Quiet

StagedTree ==
    /\ pc = "stagedtree"
    /\ trees' = IF tmp \in headTree THEN << >> ELSE << tmp >>
    /\ pc' = "add"
    /\ UNCHANGED << repo, verdict, risk, tmp, hasHead, headTree, staged, commit, pushed >> /\ Quiet

\* Any failure inside stagedTree answers "": nothing was staged.
StagedGivesUp ==
    /\ pc \in {"list", "cacheinfo", "stagedtree"} /\ Fails("list")
    /\ pc' = "add"
    /\ UNCHANGED << repo, verdict, build >> /\ Quiet

\* git refuses a pathspec that neither the disk nor the temp index knows.
Addable == \A p \in risk : disk[p] # Absent \/ tmp[p] # Absent

Add ==
    /\ pc = "add" /\ Addable
    /\ tmp' = [p \in Path |-> IF p \in risk THEN disk[p] ELSE tmp[p]]
    /\ pc' = "write"
    /\ UNCHANGED << repo, verdict, risk, hasHead, headTree, staged, trees, commit, pushed >> /\ Quiet

AddRefused ==
    /\ pc = "add" /\ ~Addable
    /\ Deny
    /\ UNCHANGED << repo, build >> /\ Quiet

\* The staged tree when it differs, then the working tree when it differs.
Chain == IF trees = << >> \/ trees[Len(trees)] # tmp THEN Append(trees, tmp) ELSE trees

\* Mutant: nothing asks whether the chain says more than HEAD does.
WriteTree_Always ==
    /\ pc = "write" /\ trees' = Chain /\ pc' = "commit"
    /\ UNCHANGED << repo, verdict, risk, tmp, hasHead, headTree, staged, commit, pushed >> /\ Quiet

WriteTree ==
    /\ pc = "write"
    /\ ~(Len(Chain) = 1 /\ Chain[1] \in headTree)
    /\ trees' = Chain /\ pc' = "commit"
    /\ UNCHANGED << repo, verdict, risk, tmp, hasHead, headTree, staged, commit, pushed >> /\ Quiet

\* Nothing differs from HEAD: no commit, and judge falls through to a denial.
NothingDiffers ==
    /\ pc = "write" /\ Len(Chain) = 1 /\ Chain[1] \in headTree
    /\ Deny
    /\ UNCHANGED << repo, build >> /\ Quiet

\* The first commit names HEAD, as it is now, as its parent; the next names it.
Parent == IF commit # << >> THEN commit ELSE IF hasHead THEN head ELSE << >>

CommitTree ==
    /\ pc = "commit"
    /\ commit' = Append(Parent, Head(trees))
    /\ trees' = Tail(trees)
    /\ pc' = IF trees' = << >> THEN "ref" ELSE "commit"
    /\ UNCHANGED << repo, verdict, risk, tmp, hasHead, headTree, staged, pushed >> /\ Quiet

\* add, write-tree, commit-tree or update-ref failed: judge denies.
PreserveFails ==
    /\ pc \in {"add", "write", "commit", "ref"} /\ Fails(pc)
    /\ Deny
    /\ UNCHANGED << repo, build >> /\ Quiet

\* Mutant: an update-ref that failed reads as a preservation.
MoveRef_Unchecked ==
    /\ pc = "ref"
    /\ head' \in {commit} \cup (IF Fails("ref") THEN {head} ELSE {})
    /\ pc' = "reset"
    /\ UNCHANGED << disk, index, remote, verdict, build >> /\ Quiet

\* update-ref HEAD commit, with no old value to compare.
MoveRef ==
    /\ pc = "ref"
    /\ head' = commit /\ pc' = "reset"
    /\ UNCHANGED << disk, index, remote, verdict, build >> /\ Quiet

\* The timeout fired after the ref moved: runGit answers an error all the same.
MoveRefUnheard ==
    /\ pc = "ref" /\ Fails("refUnheard")
    /\ head' = commit
    /\ Deny
    /\ UNCHANGED << disk, index, remote, build >> /\ Quiet

\* Mutant: reset without a pathspec.
Reset_Everything ==
    /\ pc = "reset" /\ pc' = "push"
    /\ index' = Tip(commit)
    /\ UNCHANGED << disk, head, remote, verdict, build >> /\ Quiet

\* reset -q commit -- paths; its failure is ignored.
Reset ==
    /\ pc = "reset"
    /\ \/ index' = [p \in Path |-> IF p \in risk THEN Tip(commit)[p] ELSE index[p]]
       \/ Fails("reset") /\ UNCHANGED index
    /\ pc' = "push"
    /\ UNCHANGED << disk, head, remote, verdict, build >> /\ Quiet

\* Mutant: a refused push is not looked at.
Push_Claims ==
    /\ pc = "push"
    /\ remote' = (IF IsPrefix(remote, head) /\ ~Fails("push") THEN head ELSE remote)
    /\ pushed' = TRUE
    /\ pc' = "judge" /\ at' = at + 1
    /\ UNCHANGED << disk, index, head, command, seen, verdict, ran, peers, stood,
                    risk, tmp, hasHead, headTree, staged, trees, commit >>

\* push origin HEAD: best effort, fast-forward only.  A push that times out
\* may have reached the remote.
Push ==
    /\ pc = "push"
    /\ \/ IsPrefix(remote, head) /\ remote' = head /\ pushed' = TRUE
       \/ (Fails("push") \/ ~IsPrefix(remote, head)) /\ UNCHANGED remote /\ pushed' = FALSE
       \/ Fails("pushUnheard") /\ IsPrefix(remote, head) /\ remote' = head /\ pushed' = FALSE
    /\ pc' = "judge" /\ at' = at + 1
    /\ UNCHANGED << disk, index, head, command, seen, verdict, ran, peers, stood,
                    risk, tmp, hasHead, headTree, staged, trees, commit >>

-----------------------------------------------------------------------------
(* What is outside the hook: the command itself and another committer.      *)

InGit(p) == index[p] # Absent \/ Tip(head)[p] # Absent

\* Which paths of a finding the command touches: rm every one, git clean the
\* untracked, a hard reset or checkout the tracked.
Hit(f) == {p \in f.paths : \/ f.effect = "discard" /\ InGit(p)
                           \/ f.effect = "remove" /\ ("tracked" \in f.haz \/ index[p] = Absent)}

Run ==
    /\ pc = "run" /\ ran < Len(command)
    /\ LET f == command[ran + 1]
           to(p) == IF f.effect = "discard" THEN Tip(head)[p] ELSE Absent
       IN  /\ disk' = [p \in Path |-> IF p \in Hit(f) THEN to(p) ELSE disk[p]]
           /\ index' = [p \in Path |-> IF f.effect = "discard" /\ p \in Hit(f)
                                       THEN Tip(head)[p] ELSE index[p]]
    /\ ran' = ran + 1
    /\ pc' = IF ran' = Len(command) THEN "done" ELSE "run"
    /\ UNCHANGED << head, remote, command, at, seen, verdict, build, peers, stood >>

\* Another session commits its index.
PeerCommits ==
    /\ pc # "done" /\ peers < Peers
    /\ Unmerged \notin {index[p] : p \in Path} /\ index # Tip(head)
    /\ head' = Append(head, index)
    /\ peers' = peers + 1
    /\ UNCHANGED << disk, index, remote, command, at, seen, pc, verdict, build, ran, stood >>

\* CreateTemp failed.
TempFails ==
    /\ pc = "seed" /\ Fails("temp")
    /\ Deny
    /\ UNCHANGED << repo, build >> /\ Quiet

Hook == \/ JudgeDenies \/ Probe \/ ProbeFails \/ JudgeHarmless \/ JudgeAtRisk \/ Allow
        \/ TempFails \/ Seed \/ ReadHeadTree \/ ListStaged \/ CacheInfo \/ StagedTree
        \/ StagedGivesUp \/ Add \/ AddRefused \/ WriteTree \/ NothingDiffers \/ CommitTree
        \/ PreserveFails \/ MoveRef \/ MoveRefUnheard \/ Reset \/ Push

Next == Hook \/ Run \/ PeerCommits

Spec == Init /\ [][Next]_vars
-----------------------------------------------------------------------------
(* Properties.                                                              *)

\* Every variable keeps its type.
Build == /\ risk \subseteq Path /\ tmp \in Tree /\ hasHead \in BOOLEAN
         /\ headTree \subseteq Tree /\ staged \subseteq Path \X Content
         /\ trees \in Seq(Tree) /\ commit \in Seq(Tree) /\ pushed \in BOOLEAN
         /\ pc = "commit" => trees # << >>
TypeOK ==
    /\ disk \in Tree /\ index \in Index /\ head \in Seq(Tree) /\ remote \in Seq(Tree)
    /\ command \in Seq(Finding) /\ at \in 1..Len(command) + 1 /\ ran \in 0..Len(command)
    /\ seen \in Seq([tracked : SUBSET Path, untracked : SUBSET Path]) /\ Len(seen) <= 1
    /\ pc \in {"judge", "seed", "headtree", "list", "cacheinfo", "stagedtree", "add",
               "write", "commit", "ref", "reset", "push", "run", "done"}
    /\ verdict \in {"none", "allow", "deny"}
    /\ Build
    /\ peers \in 0..Peers
    /\ stood \in Repo

InBranch(branch, p, c) == \E i \in DOMAIN branch : branch[i][p] = c

\* What git or the disk can still give back.
Held(p, c) == c = disk[p] \/ c = index[p] \/ InBranch(head, p, c)

\* "Once that commit exists, the destructive command is safe by construction"
\* (decision-model.md): when a finding has been judged and let through, the
\* working content of every path it endangers is on the branch, whatever git
\* steps failed on the way and whatever another session committed meanwhile.
JudgedIsCommitted ==
    seen # << >> =>
        \A k \in 1..at-1 : \A p \in AtRisk(command[k], seen[1]) :
            stood.disk[p] \in Content => InBranch(head, p, stood.disk[p])

\* The invariant of decision-model.md: content that stood only in the working
\* tree is never lost by a command the hook allows, nor by the hook itself.
WorkingKept ==
    \A p \in Path : stood.disk[p] \in Content => Held(p, stood.disk[p])

\* "A staged version that differs gets a commit of its own first"
\* (preserve.go): neither the command nor the hook's own reset of the index
\* loses content that stood only in the index.
StagedKept ==
    \A p \in Path : stood.index[p] \in Content => Held(p, stood.index[p])

\* Until the command itself runs, a path no finding endangers reads as it did:
\* same disk, same index entry, same content at the tip ("Everything else must
\* read exactly as it did", decision-model.md).
BystandersKept ==
    seen # << >> /\ ran = 0 =>
        \A p \in Path :
            (\A k \in DOMAIN command : p \notin AtRisk(command[k], seen[1])) =>
                /\ disk[p] = stood.disk[p] /\ index[p] = stood.index[p]
                /\ Tip(head)[p] = Tip(stood.head)[p]

\* "A tree equal to its parent makes no commit": the hook writes no empty
\* commit, in any order of the staged and the working version.
NoEmptyCommit ==
    \A i \in 2..Len(head) : i > Len(stood.head) => head[i] # head[i-1]

\* The notice says "and pushed" only when the remote has the commit.
PushedMeansRemote == pushed => IsPrefix(commit, remote)
=============================================================================
