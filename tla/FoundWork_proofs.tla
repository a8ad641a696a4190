--------------------------- MODULE FoundWork_proofs ---------------------------
(***************************************************************************)
(* Proofs about found work for every set of repositories, hooks and        *)
(* submodules, every failure and every surprise.                           *)
(*                                                                         *)
(* A hook decides on the branch once (Stay, ToSession) and commits and     *)
(* pushes in later steps, while other hooks, the session and the user go   *)
(* on.  OffDefault says what is left of its decision: the repository it is *)
(* at is not on the default branch, or somebody switched it under the      *)
(* hook, git misled it, or there is nothing to tell the branch by.         *)
(*                                                                         *)
(* Account follows the work a hook answers for.  It can always be found    *)
(* (Findable): in the working tree, in a stash, in what HEAD contains or   *)
(* on the remote.  What of it still stands in the tree of the repository   *)
(* the hook is at is in its probe's answer, and none of it when the hook   *)
(* pushes (Decided).  The work of a repository it is done with is safe or  *)
(* reported (Accounted).  Keeps says what no step of anybody undoes.       *)
(*                                                                         *)
(* Tied follows gitlinks, for one hook at a time and whatever .gitmodules  *)
(* lists: the submodules of what is still to be visited come first, are    *)
(* seen to or were passed over (Prepared), and what the hook is about to   *)
(* push leaves no submodule at another commit (Linked).                    *)
(*                                                                         *)
(* What a call of commitFound may reach is the least set that holds with a *)
(* repository its submodules (BeneathParts); Dirty is a recursive function,*)
(* of which the proofs need what DirtyUnfolds says.                        *)
(***************************************************************************)
EXTENDS FoundWork, SequenceTheorems, TLAPS

-----------------------------------------------------------------------------
(* The branch a hook pushes.                                                *)

Placed == {"commit", "push"}

Shapes ==
    /\ branch \in [Repo -> Branch]
    /\ pc \in [Hook -> {"idle", "read", "truncate", "write", "probe", "count", "place",
                        "commit", "push"}]
    /\ DOMAIN todo = Hook /\ DOMAIN disturbed = Hook /\ DOMAIN remote = Repo
    /\ todo = [h \in Hook |-> todo[h]] /\ disturbed = [h \in Hook |-> disturbed[h]]
    /\ remote = [r \in Repo |-> remote[r]]

OffDefault ==
    \A h \in Hook : pc[h] \in Placed /\ Cur(h) \in Repo =>
        branch[Cur(h)] # "default" \/ Cur(h) \in disturbed[h] \/ ~Nameable(Cur(h))

IInv == Shapes /\ OffDefault

LEMMA InitInv == ASSUME Init PROVE IInv
<1>1. branch \in [Repo -> Branch]
  BY DEF Init, Branch
<1>2. pc = [h \in Hook |-> "idle"] /\ todo = [h \in Hook |-> << >>]
      /\ disturbed = [h \in Hook |-> {}] /\ remote = [r \in Repo |-> {0}]
  BY DEF Init
<1> QED
  BY <1>1, <1>2 DEF IInv, Shapes, OffDefault, Placed

LEMMA StepShapes == ASSUME Shapes, [Next]_vars PROVE Shapes'
<1> USE DEF Shapes
<1>1. CASE UNCHANGED vars
  BY <1>1 DEF vars, repos, hook, story
<1>2. ASSUME NEW r \in Repo, Others(r) PROVE Shapes'
  BY <1>2 DEF Others, Edit, UserCommit, Conflict, Resolve, UserSwitch, UserBranch, Disturb,
              NewCommit, Branch, hook
<1>3. ASSUME NEW h \in Hook, NEW k \in Calls, NEW r \in Repo, Begin(h, k, r) PROVE Shapes'
  BY <1>3 DEF Begin, repos
<1>4. ASSUME NEW h \in Hook, BeginStop(h) PROVE Shapes'
  BY <1>4 DEF BeginStop, repos
<1>5. ASSUME NEW h \in Hook, Works(h) PROVE Shapes'
  <2>1. CASE ReadList(h) \/ TruncateList(h) \/ WriteList(h) \/ StopReads(h)
    BY <2>1 DEF ReadList, TruncateList, WriteList, StopReads, Recorded, Gone, repos, story
  <2>2. CASE Probe(h) \/ ProbeFails(h) \/ Count(h) \/ CountFails(h) \/ NoOrigin(h)
    BY <2>2 DEF Probe, ProbeFails, Count, CountFails, NoOrigin, Judge, Goto, Leave, Fail, Done,
                Quiet, Faulty, repos, story
  <2>3. ASSUME NEW t \in Reading, Stay(h, t) \/ ToSession(h, t) \/ SwitchFails(h, t)
        PROVE  Shapes'
    BY <2>3 DEF Stay, ToSession, SwitchFails, Truly, Misled, Onward, Goto, Leave, Fail, Quiet,
                Faulty, Branch, repos, story
  <2>4. CASE Commit(h) \/ NoCommitMade(h) \/ CommitFails(h)
    BY <2>4 DEF Commit, NoCommitMade, CommitFails, NewCommit, Goto, Leave, Fail, Quiet, Faulty,
                repos, story
  <2>5. CASE Push(h) \/ PushRefused(h) \/ PushUnheard(h)
    BY <2>5 DEF Push, PushRefused, PushUnheard, Leave, Fail, Done, Quiet, Faulty, repos, story
  <2>6. CASE Answer(h) \/ AnswerStash(h) \/ AnswerStop(h)
    BY <2>6 DEF Answer, AnswerStash, AnswerStop, Gone, repos
  <2>7. CASE Descend(h) \/ DescendBlind(h)
    BY <2>7 DEF Descend, DescendBlind, Enter, Quiet, Faulty, repos, story
  <2> QED
    BY <1>5, <2>1, <2>2, <2>3, <2>4, <2>5, <2>6, <2>7 DEF Works
<1> QED
  BY <1>1, <1>2, <1>3, <1>4, <1>5 DEF Next

\* A step of one hook that leaves the branches alone and nobody's decision behind
\* keeps what the hooks have decided.
LEMMA OwnStep ==
    ASSUME Shapes, OffDefault, NEW h \in Hook, branch' = branch,
           \A g \in Hook \ {h} : /\ pc'[g] = pc[g] /\ todo'[g] = todo[g]
                                 /\ disturbed'[g] = disturbed[g],
           pc'[h] \notin Placed \/ (/\ pc[h] \in Placed /\ todo'[h] = todo[h]
                                    /\ disturbed'[h] = disturbed[h])
    PROVE  OffDefault'
BY DEF OffDefault, Cur, Nameable

\* What others do on a branch is noted for every hook that runs.
LEMMA OthersStep ==
    ASSUME Shapes, OffDefault, NEW r \in Repo, Others(r)
    PROVE  OffDefault'
<1>1. pc' = pc /\ todo' = todo
  BY DEF Others, Edit, UserCommit, Conflict, Resolve, UserSwitch, UserBranch, hook
<1>2. \A h \in Hook : pc[h] # "idle" => disturbed'[h] = disturbed[h] \cup {r}
  BY DEF Others, Edit, UserCommit, Conflict, Resolve, UserSwitch, UserBranch, Disturb, Shapes
<1>3. \A q \in Repo \ {r} : branch'[q] = branch[q]
  BY DEF Others, Edit, UserCommit, Conflict, Resolve, UserSwitch, UserBranch, Shapes
<1> QED
  BY <1>1, <1>2, <1>3 DEF OffDefault, Cur, Nameable, Placed

LEMMA WorksStep ==
    ASSUME Shapes, OffDefault, NEW h \in Hook, Works(h)
    PROVE  OffDefault'
<1> USE DEF Shapes
<1>1. CASE ReadList(h) \/ TruncateList(h) \/ WriteList(h) \/ StopReads(h)
  BY <1>1, OwnStep DEF ReadList, TruncateList, WriteList, StopReads, Recorded, Gone, repos, story,
                       Placed
<1>2. CASE Probe(h) \/ ProbeFails(h) \/ Count(h) \/ NoOrigin(h)
  BY <1>2, OwnStep DEF Probe, ProbeFails, Count, NoOrigin, Judge, Goto, Leave, Fail,
                       Done, Quiet, Faulty, repos, story, Placed
<1>3. CASE CountFails(h)
  BY <1>3, OwnStep DEF CountFails, Judge, Goto, Leave, Fail, Done, repos, Placed
<1>4. ASSUME NEW t \in Reading, Stay(h, t) PROVE OffDefault'
  <2>1. /\ branch' = branch /\ todo' = todo
        /\ \E step \in Placed : pc' = [pc EXCEPT ![h] = step]
    BY <1>4 DEF Stay, Onward, Goto, Placed, repos
  <2>2. \A g \in Hook \ {h} : pc'[g] = pc[g] /\ disturbed'[g] = disturbed[g]
    BY <1>4, <2>1 DEF Stay, Truly, Misled
  <2>3. Cur(h) \in Repo => branch[Cur(h)] # "default" \/ Cur(h) \in disturbed'[h] \/ ~Nameable(Cur(h))
    <3>1. CASE Misled(h, t)
      BY <3>1 DEF Misled
    <3>2. CASE Truly(h, t)
      BY <1>4, <3>2 DEF Stay, Truly, Told, OffLimits, Nameable
    <3> QED
      BY <1>4, <3>1, <3>2 DEF Stay
  <2> QED
    BY <2>1, <2>2, <2>3 DEF OffDefault, Cur, Nameable
<1>5. ASSUME NEW t \in Reading, ToSession(h, t) PROVE OffDefault'
  <2>1. /\ branch' = [branch EXCEPT ![Cur(h)] = "session"] /\ todo' = todo
        /\ \E step \in Placed : pc' = [pc EXCEPT ![h] = step]
    BY <1>5 DEF ToSession, Onward, Goto, Placed
  <2>2. \A g \in Hook \ {h} : pc'[g] = pc[g] /\ disturbed'[g] = disturbed[g]
    BY <1>5, <2>1 DEF ToSession, Truly, Misled
  <2>3. \A q \in Repo : branch'[q] = branch[q] \/ branch'[q] = "session"
    BY <2>1
  <2>4. Cur(h) \in Repo => branch'[Cur(h)] = "session"
    BY <2>1
  <2> QED
    BY <2>1, <2>2, <2>3, <2>4 DEF OffDefault, Cur, Nameable
<1>9. ASSUME NEW t \in Reading, SwitchFails(h, t) PROVE OffDefault'
  BY <1>9, OwnStep DEF SwitchFails, Leave, Fail, Faulty, repos, Placed
<1>10. CASE Descend(h) \/ DescendBlind(h)
  BY <1>10, OwnStep DEF Descend, DescendBlind, Enter, At, Quiet, Faulty, repos, story, Placed
<1>6. CASE Commit(h) \/ NoCommitMade(h) \/ CommitFails(h)
  BY <1>6, OwnStep DEF Commit, NoCommitMade, CommitFails, NewCommit, At, Goto, Leave, Fail, Quiet,
                       Faulty, repos, story, Placed
<1>7. CASE Push(h) \/ PushRefused(h) \/ PushUnheard(h)
  BY <1>7, OwnStep DEF Push, PushRefused, PushUnheard, Leave, Fail, Done, Quiet, Faulty, repos,
                       story, Placed
<1>8. CASE Answer(h) \/ AnswerStash(h) \/ AnswerStop(h)
  BY <1>8, OwnStep DEF Answer, AnswerStash, AnswerStop, Gone, repos, Placed
<1> QED
  BY <1>1, <1>2, <1>3, <1>4, <1>5, <1>6, <1>7, <1>8, <1>9, <1>10 DEF Works

LEMMA StepInv == ASSUME IInv, [Next]_vars PROVE IInv'
<1>a. Shapes /\ OffDefault
  BY DEF IInv
<1>1. Shapes'
  BY <1>a, StepShapes
<1>2. CASE UNCHANGED vars
  BY <1>a, <1>1, <1>2 DEF vars, repos, hook, story, OffDefault, Cur, Nameable, IInv
<1>3. ASSUME NEW r \in Repo, Others(r) PROVE OffDefault'
  BY <1>a, <1>3, OthersStep
<1>4. ASSUME NEW h \in Hook, Works(h) PROVE OffDefault'
  BY <1>a, <1>4, WorksStep
<1>5. ASSUME NEW h \in Hook, NEW k \in Calls, NEW r \in Repo, Begin(h, k, r) PROVE OffDefault'
  BY <1>a, <1>5, OwnStep DEF Begin, repos, Shapes, Placed
<1>6. ASSUME NEW h \in Hook, BeginStop(h) PROVE OffDefault'
  BY <1>a, <1>6, OwnStep DEF BeginStop, repos, Shapes, Placed
<1> QED
  BY <1>1, <1>2, <1>3, <1>4, <1>5, <1>6 DEF Next, IInv

\* What a hook decided on a repository's branch still holds at its commit and at
\* its push, or somebody changed the repository in between.
THEOREM Inductive == Spec => []IInv
BY InitInv, StepInv, PTL DEF Spec

\* The remote changes when a hook pushes the repository it is at.
LEMMA PushSteps ==
    ASSUME Shapes, [Next]_vars, NEW r \in Repo, remote'[r] # remote[r]
    PROVE  \E h \in Hook : At(h, "push") /\ Cur(h) = r /\ branch' = branch
<1>1. remote' # remote
  OBVIOUS
<1>2. ~UNCHANGED vars
  BY <1>1 DEF vars, repos
<1>3. \A q \in Repo : ~Others(q)
  BY <1>1 DEF Others, Edit, UserCommit, Conflict, Resolve, UserSwitch, UserBranch
<1>4. PICK h \in Hook : Works(h)
  BY <1>1, <1>2, <1>3 DEF Next, Begin, BeginStop, repos
<1>5. Push(h) \/ PushUnheard(h)
  BY <1>1, <1>4 DEF Works, ReadList, TruncateList, WriteList, StopReads, Probe, ProbeFails, Count,
      CountFails, NoOrigin, Stay, ToSession, SwitchFails, Commit, NoCommitMade, CommitFails,
      PushRefused, Answer, AnswerStash, AnswerStop, Descend, DescendBlind, Enter, repos
<1>6. At(h, "push") /\ branch' = branch /\ (remote'[r] # remote[r] => r = Cur(h))
  BY <1>5 DEF Push, PushUnheard, Shapes
<1> QED
  BY <1>6

\* The guard pushes the default branch of no repository where something tells it
\* (origin/HEAD, or its name), unless somebody changed the repository while the
\* hook was at it or git misled the hook (foundcommit.go:158-160): for every
\* number of parallel hooks and every set of branches called master or main.
THEOREM DefaultNeverPushed == Spec => NoDirectPush
<1>1. ASSUME IInv, [Next]_vars
      PROVE  \A r \in Repo : PushesDefault(r) => Surprised(r) \/ ~Nameable(r)
  <2> SUFFICES ASSUME NEW r \in Repo, remote'[r] # remote[r], branch[r] = "default", Nameable(r)
               PROVE  \E h \in Hook : At(h, "push") /\ r \in disturbed[h]
    BY DEF PushesDefault, Surprised
  <2>1. PICK h \in Hook : At(h, "push") /\ Cur(h) = r
    BY <1>1, PushSteps DEF IInv
  <2> QED
    BY <1>1, <2>1 DEF IInv, OffDefault, At, Placed
<1> QED
  BY <1>1, Inductive, PTL DEF Spec, NoDirectPush

-----------------------------------------------------------------------------
(* What Beneath and Dirty compute.                                          *)

LEMMA SubsType == ASSUME NEW r \in Repo PROVE SubsOf(r) \subseteq Repo
BY ConstantsAssumption DEF SubsOf, Range

\* A repository with the submodules it has, and theirs, is itself and what is
\* beneath each of its submodules.
LEMMA BeneathParts ==
    ASSUME NEW r \in Repo
    PROVE  /\ r \in Beneath(r) /\ Beneath(r) \subseteq Repo
           /\ Beneath(r) \subseteq {r} \cup UNION {Beneath(s) : s \in SubsOf(r)}
<1>1. \A q \in Repo : q \in Beneath(q) /\ Beneath(q) \subseteq Repo
  BY DEF Beneath
<1>2. ASSUME NEW q \in Repo, NEW p \in Beneath(q) PROVE SubsOf(p) \subseteq Beneath(q)
  <2> SUFFICES ASSUME NEW t \in SubsOf(p), NEW S \in SUBSET Repo, q \in S,
                      \A o \in S : SubsOf(o) \subseteq S
               PROVE  t \in S
    BY <1>1, SubsType DEF Beneath
  <2>1. p \in S
    BY DEF Beneath
  <2> QED
    BY <2>1
<1> DEFINE all == {r} \cup UNION {Beneath(s) : s \in SubsOf(r)}
<1>3. all \in SUBSET Repo /\ r \in all
  BY <1>1, SubsType
<1>4. ASSUME NEW p \in all PROVE SubsOf(p) \subseteq all
  <2>1. CASE p = r
    BY <1>1, <2>1, SubsType
  <2>2. CASE p # r
    <3>1. PICK s \in SubsOf(r) : p \in Beneath(s)
      BY <2>2
    <3>2. SubsOf(p) \subseteq Beneath(s)
      BY <1>2, <3>1, SubsType
    <3> QED
      BY <3>1, <3>2
  <2> QED
    BY <2>1, <2>2
<1>5. Beneath(r) \subseteq all
  <2> HIDE DEF all
  <2> QED
    BY <1>3, <1>4 DEF Beneath
<1> QED
  BY <1>1, <1>5

\* Dirty is what its definition says of each repository: such a function
\* exists, the least of the sets that hold with a submodule its parent.
LEMMA DirtyUnfolds ==
    ASSUME NEW r \in Repo
    PROVE  Dirty[r] = (wt[r] # {} \/ Moved(r) # {} \/ \E s \in SubsOf(r) : Dirty[s])
<1> DEFINE own(q) == wt[q] # {} \/ Moved(q) # {}
           closed(S) == \A q \in Repo : (own(q) \/ \E s \in SubsOf(q) : s \in S) => q \in S
           least == {q \in Repo : \A S \in SUBSET Repo : closed(S) => q \in S}
           f == [q \in Repo |-> q \in least]
           body(g, q) == wt[q] # {} \/ Moved(q) # {} \/ \E s \in SubsOf(q) : g[s]
<1>0. \A q \in Repo : SubsOf(q) \subseteq Repo
  BY ConstantsAssumption DEF SubsOf, Range
<1>1. closed(least)
  <2> SUFFICES ASSUME NEW q \in Repo, own(q) \/ \E s \in SubsOf(q) : s \in least,
                      NEW S \in SUBSET Repo, closed(S)
               PROVE  q \in S
    OBVIOUS
  <2> HIDE DEF own
  <2> QED
    OBVIOUS
<1>2. ASSUME NEW q \in Repo PROVE q \in least => own(q) \/ \E s \in SubsOf(q) : s \in least
  <2> DEFINE S == {p \in Repo : own(p) \/ \E s \in SubsOf(p) : s \in least}
  <2> HIDE DEF own
  <2>1. S \subseteq least
    BY <1>1
  <2>2. closed(S)
    BY <2>1
  <2> QED
    BY <2>2
<1>3. \A q \in Repo : f[q] = body(f, q)
  <2> SUFFICES ASSUME NEW q \in Repo PROVE f[q] = body(f, q)
    OBVIOUS
  <2>1. f[q] = (q \in least)
    BY Zenon
  <2>2. \A s \in SubsOf(q) : f[s] = (s \in least)
    <3> HIDE DEF least
    <3> QED
      BY <1>0, Zenon
  <2>3. body(f, q) <=> own(q) \/ \E s \in SubsOf(q) : s \in least
    <3> HIDE DEF least, f
    <3> QED
      BY <2>2, Zenon
  <2>4. body(f, q) \in BOOLEAN /\ f[q] \in BOOLEAN
    <3> HIDE DEF least
    <3> QED
      OBVIOUS
  <2> HIDE DEF least, f, body, own
  <2> QED
    BY <1>1, <1>2, <2>1, <2>3, <2>4
<1>4. f = [q \in Repo |-> body(f, q)]
  <2> HIDE DEF least, body
  <2> QED
    BY <1>3
<1>5. Dirty = CHOOSE g : g = [q \in Repo |-> body(g, q)]
  BY Zenon DEF Dirty
<1>6. Dirty = [q \in Repo |-> body(Dirty, q)]
  <2> HIDE DEF body, f
  <2> QED
    BY <1>4, <1>5
<1>7. Dirty[r] = body(Dirty, r)
  <2> HIDE DEF body
  <2> QED
    BY <1>6
<1> QED
  BY <1>7

\* A repository whose own work is uncommitted is dirty.
LEMMA DirtyHoldsWork ==
    ASSUME NEW r \in Repo, wt[r] # {}
    PROVE  Dirty[r]
BY DirtyUnfolds

-----------------------------------------------------------------------------
(* Types, and the commits that HEADs, histories and remotes name exist.     *)

Commits == 0 .. Len(log)
Entry == [past : SUBSET Nat, work : SUBSET Work, link : [Repo -> Nat]]
Visits == [repo : Repo, down : Nat]

RepoTypes ==
    /\ wt \in [Repo -> SUBSET Work] /\ stash \in [Repo -> SUBSET Work]
    /\ branch \in [Repo -> Branch]
    /\ tips \in [Repo -> [Branch -> Commits \cup {NoCommit}]]
    /\ conflict \in [Repo -> BOOLEAN]
    /\ remote \in [Repo -> SUBSET Commits]
    /\ tracking \in [Repo -> SUBSET Commits]
    /\ \A r \in Repo : tracking[r] \subseteq remote[r]
    /\ log \in Seq([past : SUBSET Nat, work : SUBSET Work, link : [Repo -> Nat]])

HookTypes ==
    /\ list \in Seq(Repo)
    /\ pc \in [Hook -> {"idle", "read", "truncate", "write", "probe", "count", "place",
                        "commit", "push"}]
    /\ kind \in [Hook -> Kinds \cup {"stop"}] /\ root \in [Hook -> Repo]
    /\ seen \in [Hook -> Seq(Repo)] /\ todo \in [Hook -> Seq(Visits)]
    /\ found \in [Hook -> [work : SUBSET Work, subs : SUBSET Repo, conflict : BOOLEAN]]
    /\ failed \in [Hook -> SUBSET Repo] /\ missed \in [Hook -> SUBSET Repo]
    /\ ended \in BOOLEAN /\ moves \in Nat
    /\ disturbed \in [Hook -> SUBSET Repo] /\ due \in [Hook -> [Repo -> SUBSET Work]]

Grounded ==
    /\ \A c \in 1 .. Len(log) : log[c].past \subseteq 0 .. c
    /\ \A r \in Repo : HeadOf(r) \in Commits

Typed == RepoTypes /\ HookTypes /\ Grounded

LEMMA TypedInit == ASSUME Init PROVE Typed
<1>0. Repo # {} /\ (CHOOSE r \in Repo : TRUE) \in Repo
  BY ConstantsAssumption
<1>1. RepoTypes
  <2>1. Len(log) = 0 /\ log = << >> /\ 0 \in Commits
    BY DEF Init, Commits
  <2>2. branch \in [Repo -> Branch]
    BY DEF Init, Branch
  <2> QED
    BY <2>1, <2>2 DEF Init, RepoTypes
<1>2. HookTypes
  <2>1. << >> \in Seq(Repo) /\ << >> \in Seq(Visits)
    OBVIOUS
  <2>2. Nothing \in [work : SUBSET Work, subs : SUBSET Repo, conflict : BOOLEAN]
    BY DEF Nothing
  <2>3. [r \in Repo |-> {}] \in [Repo -> SUBSET Work]
    OBVIOUS
  <2> QED
    BY <1>0, <2>1, <2>2, <2>3 DEF Init, HookTypes, Kinds
<1>3. Grounded
  <2>1. Len(log) = 0
    BY DEF Init
  <2>2. ASSUME NEW r \in Repo PROVE HeadOf(r) = 0
    BY DEF Init, HeadOf, Branch
  <2> QED
    BY <2>1, <2>2 DEF Grounded, Commits
<1> QED
  BY <1>1, <1>2, <1>3 DEF Typed

\* What HEAD contains are commits that exist.
LEMMA PastExists ==
    ASSUME Typed, NEW r \in Repo
    PROVE  Past(HeadOf(r)) \subseteq Commits
<1>1. HeadOf(r) \in Commits
  BY DEF Typed, Grounded
<1>2. PICK n \in Nat : n = Len(log)
  BY DEF Typed, RepoTypes
<1>3. CASE HeadOf(r) = 0
  BY <1>2, <1>3 DEF Past, Commits
<1>4. CASE HeadOf(r) # 0
  <2>1. PICK c \in 1..n : c = HeadOf(r)
    BY <1>1, <1>2, <1>4 DEF Commits
  <2>2. log[c].past \subseteq 0..c
    BY <1>2, <2>1 DEF Typed, Grounded
  <2>3. Past(HeadOf(r)) = log[c].past
    BY <1>4, <2>1 DEF Past
  <2> QED
    BY <1>2, <2>1, <2>2, <2>3 DEF Commits
<1> QED
  BY <1>3, <1>4

\* The gitlinks of a commit are commit numbers.
LEMMA LinkType ==
    ASSUME Typed, NEW c \in Commits, NEW s \in Repo
    PROVE  Link(c, s) \in Nat
<1>1. CASE c = 0
  BY <1>1 DEF Link
<1>2. CASE c # 0
  <2>1. PICK n \in Nat : n = Len(log)
    BY DEF Typed, RepoTypes
  <2>2. c \in 1..Len(log)
    BY <1>2, <2>1 DEF Commits
  <2>3. log \in Seq(Entry)
    BY DEF Typed, RepoTypes, Entry
  <2>4. log[c] \in Entry
    BY <2>2, <2>3
  <2>5. log[c].link \in [Repo -> Nat]
    BY <2>4 DEF Entry
  <2> QED
    BY <1>2, <2>5 DEF Link
<1> QED
  BY <1>1, <1>2

\* A commit adds one entry to the log, keeps the others, and moves one branch.
LEMMA CommitLogged ==
    ASSUME Typed, NEW r \in Repo, NEW work \in SUBSET Work, NEW subs, NewCommit(r, work, subs),
           branch' = branch
    PROVE  /\ log' \in Seq([past : SUBSET Nat, work : SUBSET Work, link : [Repo -> Nat]])
           /\ Len(log') = Len(log) + 1
           /\ \A c \in 1 .. Len(log) : log'[c] = log[c]
           /\ log'[Len(log) + 1].past = Past(HeadOf(r)) \cup {Len(log) + 1}
           /\ log'[Len(log) + 1].work = work
           /\ HeadOf(r)' = Len(log) + 1
           /\ \A q \in Repo \ {r} : HeadOf(q)' = HeadOf(q)
           /\ tips' \in [Repo -> [Branch -> (0 .. Len(log')) \cup {NoCommit}]]
<1>0. PICK n \in Nat : n = Len(log)
  BY DEF Typed, RepoTypes
<1> DEFINE new == [past |-> Past(HeadOf(r)) \cup {Len(log) + 1}, work |-> work,
                   link |-> [s \in Repo |-> IF s \in subs THEN HeadOf(s) ELSE Link(HeadOf(r), s)]]
<1>1. new \in Entry
  <2>1. Past(HeadOf(r)) \cup {Len(log) + 1} \in SUBSET Nat
    BY <1>0, PastExists DEF Commits
  <2>2. \A s \in Repo : HeadOf(s) \in Nat /\ Link(HeadOf(r), s) \in Nat
    <3>1. \A s \in Repo : HeadOf(s) \in Commits
      BY DEF Typed, Grounded
    <3>2. \A s \in Repo : Link(HeadOf(r), s) \in Nat
      BY <3>1, LinkType
    <3> QED
      BY <1>0, <3>1, <3>2 DEF Commits
  <2> QED
    BY <2>1, <2>2 DEF Entry
<1>2. log' = Append(log, new) /\ log \in Seq(Entry)
  BY DEF NewCommit, Typed, RepoTypes, Entry
<1>3. /\ log' \in Seq(Entry) /\ Len(log') = Len(log) + 1
      /\ \A c \in 1 .. Len(log) : log'[c] = log[c]
      /\ log'[Len(log) + 1] = new
  <2> HIDE DEF new
  <2> QED
    BY <1>1, <1>2
<1>4. tips' = [tips EXCEPT ![r][branch[r]] = Len(log) + 1] /\ branch[r] \in Branch
  BY DEF NewCommit, Typed, RepoTypes
<1>5. tips \in [Repo -> [Branch -> Commits \cup {NoCommit}]]
  BY DEF Typed, RepoTypes
<1>6. HeadOf(r)' = Len(log) + 1 /\ \A q \in Repo \ {r} : HeadOf(q)' = HeadOf(q)
  BY <1>4, <1>5 DEF HeadOf
<1>7. tips' \in [Repo -> [Branch -> (0 .. Len(log')) \cup {NoCommit}]]
  <2>1. Commits \subseteq 0..Len(log') /\ Len(log) + 1 \in 0..Len(log')
    BY <1>0, <1>3 DEF Commits
  <2>2. PICK D, e : D = (0 .. Len(log')) \cup {NoCommit} /\ e = Len(log) + 1
    OBVIOUS
  <2>3. tips \in [Repo -> [Branch -> D]] /\ e \in D
    BY <1>5, <2>1, <2>2
  <2>4. tips' = [tips EXCEPT ![r] = [tips[r] EXCEPT ![branch[r]] = e]]
    BY <1>4, <2>2
  <2>5. [tips[r] EXCEPT ![branch[r]] = e] \in [Branch -> D]
    BY <2>3
  <2>6. tips' \in [Repo -> [Branch -> D]]
    BY <2>3, <2>4, <2>5
  <2> QED
    BY <2>2, <2>6
<1> QED
  BY <1>3, <1>6, <1>7 DEF Entry

LEMMA CommitTyped ==
    ASSUME Typed, NEW r \in Repo, NEW work \in SUBSET Work, NEW subs, NewCommit(r, work, subs),
           UNCHANGED << stash, branch, conflict, remote, tracking >>
    PROVE  RepoTypes' /\ Grounded'
<1>0. PICK n \in Nat : n = Len(log)
  BY DEF Typed, RepoTypes
<1>1. /\ log' \in Seq([past : SUBSET Nat, work : SUBSET Work, link : [Repo -> Nat]])
      /\ Len(log') = n + 1
      /\ \A c \in 1 .. n : log'[c] = log[c]
      /\ log'[n + 1].past = Past(HeadOf(r)) \cup {n + 1}
      /\ HeadOf(r)' = n + 1
      /\ \A q \in Repo \ {r} : HeadOf(q)' = HeadOf(q)
      /\ tips' \in [Repo -> [Branch -> (0 .. Len(log')) \cup {NoCommit}]]
  BY <1>0, CommitLogged
<1>2. Commits' = 0..(n+1) /\ Commits = 0..n /\ Commits \subseteq Commits'
  BY <1>0, <1>1 DEF Commits
<1>3. wt' \in [Repo -> SUBSET Work]
  BY DEF NewCommit, Typed, RepoTypes
<1>4. RepoTypes'
  BY <1>1, <1>2, <1>3 DEF Typed, RepoTypes
<1>5. \A c \in 1..(n+1) : log'[c].past \subseteq 0..c
  <2> SUFFICES ASSUME NEW c \in 1..(n+1) PROVE log'[c].past \subseteq 0..c
    OBVIOUS
  <2>1. CASE c \in 1..n
    BY <1>0, <1>1, <2>1 DEF Typed, Grounded
  <2>2. CASE c = n + 1
    <3>1. Past(HeadOf(r)) \subseteq 0..n
      BY <1>2, PastExists
    <3>2. 0..n \subseteq 0..(n+1) /\ n + 1 \in 0..(n+1)
      BY <1>0
    <3>3. log'[c].past = Past(HeadOf(r)) \cup {n + 1}
      BY <1>1, <2>2
    <3> QED
      BY <2>2, <3>1, <3>2, <3>3
  <2> QED
    BY <2>1, <2>2
<1>6. \A q \in Repo : HeadOf(q)' \in 0..(n+1)
  <2>1. \A q \in Repo : HeadOf(q) \in 0..n
    BY <1>2 DEF Typed, Grounded
  <2>2. \A q \in Repo \ {r} : HeadOf(q)' \in 0..(n+1)
    <3> SUFFICES ASSUME NEW q \in Repo \ {r} PROVE HeadOf(q)' \in 0..(n+1)
      OBVIOUS
    <3>1. HeadOf(q)' = HeadOf(q)
      BY <1>1
    <3>2. PICK k \in 0..n : k = HeadOf(q)
      BY <2>1
    <3> QED
      BY <3>1, <3>2
  <2> QED
    BY <1>1, <2>2
<1> QED
  BY <1>1, <1>2, <1>4, <1>5, <1>6 DEF Grounded

LEMMA ReposKept == ASSUME Typed, UNCHANGED repos PROVE RepoTypes' /\ Grounded'
BY DEF Typed, RepoTypes, Grounded, Commits, HeadOf, repos

\* A branch that comes to name an existing commit, HEAD being on it or not.
LEMMA BranchTyped ==
    ASSUME Typed, NEW r \in Repo, NEW b \in Branch, branch' = [branch EXCEPT ![r] = b],
           NEW c \in Commits, tips' = [tips EXCEPT ![r][b] = c],
           UNCHANGED << wt, stash, conflict, remote, tracking, log >>
    PROVE  RepoTypes' /\ Grounded'
<1>1. tips \in [Repo -> [Branch -> Commits \cup {NoCommit}]] /\ branch \in [Repo -> Branch]
  BY DEF Typed, RepoTypes
<1>2. Commits' = Commits
  BY DEF Commits
<1>3. tips' \in [Repo -> [Branch -> Commits \cup {NoCommit}]] /\ branch' \in [Repo -> Branch]
  BY <1>1
<1>4. HeadOf(r)' = c /\ \A q \in Repo \ {r} : HeadOf(q)' = HeadOf(q)
  BY <1>1 DEF HeadOf
<1>5. \A q \in Repo : HeadOf(q)' \in Commits
  BY <1>4 DEF Typed, Grounded
<1> QED
  BY <1>2, <1>3, <1>5 DEF Typed, RepoTypes, Grounded

\* A push adds commits that exist.
LEMMA PushTyped ==
    ASSUME Typed, NEW r \in Repo,
           remote' = [remote EXCEPT ![r] = @ \cup Past(HeadOf(r))],
           tracking' = tracking \/ tracking' = [tracking EXCEPT ![r] = @ \cup Past(HeadOf(r))],
           UNCHANGED << wt, stash, branch, tips, conflict, log >>
    PROVE  RepoTypes' /\ Grounded'
<1>1. Past(HeadOf(r)) \in SUBSET Commits /\ Commits' = Commits
  BY PastExists DEF Commits
<1>2. /\ remote \in [Repo -> SUBSET Commits] /\ tracking \in [Repo -> SUBSET Commits]
      /\ \A q \in Repo : tracking[q] \subseteq remote[q]
  BY DEF Typed, RepoTypes
<1>3. /\ remote' \in [Repo -> SUBSET Commits] /\ tracking' \in [Repo -> SUBSET Commits]
      /\ \A q \in Repo : tracking'[q] \subseteq remote'[q]
  BY <1>1, <1>2
<1> QED
  BY <1>1, <1>3 DEF Typed, RepoTypes, Grounded, HeadOf

\* What the session and the user do keeps the types.
LEMMA OthersTyped ==
    ASSUME Typed, NEW r \in Repo, Others(r)
    PROVE  RepoTypes' /\ Grounded'
<1>1. CASE Edit(r)
  <2>1. wt' \in [Repo -> SUBSET Work]
    BY <1>1 DEF Edit, Typed, RepoTypes
  <2>2. UNCHANGED << stash, branch, tips, conflict, remote, tracking, log >>
    BY <1>1 DEF Edit
  <2> QED
    BY <2>1, <2>2 DEF Typed, RepoTypes, Grounded, Commits, HeadOf
<1>2. CASE UserCommit(r)
  <2>1. wt[r] \in SUBSET Work
    BY DEF Typed, RepoTypes
  <2> QED
    BY <1>2, <2>1, CommitTyped DEF UserCommit
<1>3. CASE Conflict(r) \/ Resolve(r)
  BY <1>3 DEF Conflict, Resolve, Typed, RepoTypes, Grounded, Commits, HeadOf
<1>4. ASSUME NEW b \in Branch, UserSwitch(r, b) PROVE RepoTypes' /\ Grounded'
  <2>1. tips \in [Repo -> [Branch -> Commits \cup {NoCommit}]]
    BY DEF Typed, RepoTypes
  <2>2. tips[r][b] \in Commits /\ tips' = [tips EXCEPT ![r][b] = tips[r][b]]
    BY <1>4, <2>1 DEF UserSwitch
  <2>3. branch' = [branch EXCEPT ![r] = b] /\ UNCHANGED << wt, stash, conflict, remote, tracking, log >>
    BY <1>4 DEF UserSwitch
  <2> QED
    BY <2>2, <2>3, BranchTyped
<1>5. ASSUME NEW b \in Branch, UserBranch(r, b) PROVE RepoTypes' /\ Grounded'
  <2>1. HeadOf(r) \in Commits
    BY DEF Typed, Grounded
  <2>2. branch' = [branch EXCEPT ![r] = b] /\ tips' = [tips EXCEPT ![r][b] = HeadOf(r)]
        /\ UNCHANGED << wt, stash, conflict, remote, tracking, log >>
    BY <1>5 DEF UserBranch
  <2> QED
    BY <2>1, <2>2, BranchTyped
<1> QED
  BY <1>1, <1>2, <1>3, <1>4, <1>5 DEF Others

\* A queue of visits is its first and the others.
LEMMA QueueParts ==
    ASSUME NEW s \in Seq(Visits), s # << >>
    PROVE  /\ Head(s).repo \in Repo /\ Head(s).down \in Nat /\ Tail(s) \in Seq(Visits)
           /\ Range(s) \subseteq {Head(s)} \cup Range(Tail(s))
<1>1. Head(s) \in Visits /\ Tail(s) \in Seq(Visits)
  OBVIOUS
<1>2. \A i \in 1..Len(s) : s[i] = Head(s) \/ \E j \in 1..Len(Tail(s)) : s[i] = Tail(s)[j]
  <2> SUFFICES ASSUME NEW i \in 1..Len(s), i # 1 PROVE \E j \in 1..Len(Tail(s)) : s[i] = Tail(s)[j]
    OBVIOUS
  <2>1. i - 1 \in 1..Len(Tail(s)) /\ Tail(s)[i-1] = s[i]
    OBVIOUS
  <2> QED
    BY <2>1
<1>3. DOMAIN s = 1..Len(s) /\ DOMAIN Tail(s) = 1..Len(Tail(s))
  BY <1>1
<1>4. Range(s) \subseteq {Head(s)} \cup Range(Tail(s))
  <2> DEFINE t == Tail(s)
  <2>1. DOMAIN t = 1..Len(t) /\ \A i \in DOMAIN s : s[i] = Head(s) \/ \E j \in DOMAIN t : s[i] = t[j]
    BY <1>2, <1>3
  <2> HIDE DEF t
  <2>2. Range(s) \subseteq {Head(s)} \cup Range(t)
    BY <2>1, Zenon DEF Range
  <2> QED
    BY <2>2 DEF t
<1> QED
  BY <1>1, <1>4 DEF Visits

\* Each visit of a queue is of a repository.
LEMMA VisitParts ==
    ASSUME NEW s \in Seq(Visits)
    PROVE  /\ Len(s) \in Nat /\ (s # << >> => Len(s) > 0 /\ s[1] = Head(s))
           /\ \A i \in 1..Len(s) : s[i].repo \in Repo
<1>1. \A i \in 1..Len(s) : s[i] \in Visits
  OBVIOUS
<1>2. \A i \in 1..Len(s) : s[i].repo \in Repo
  BY <1>1 DEF Visits
<1>3. Len(s) \in Nat /\ (s # << >> => Len(s) > 0 /\ s[1] = Head(s))
  OBVIOUS
<1> QED
  BY <1>2, <1>3

\* The repository a hook is at is one.
LEMMA CurType ==
    ASSUME Typed, NEW h \in Hook, todo[h] # << >>
    PROVE  /\ Cur(h) \in Repo /\ Down(h) \in Nat /\ Tail(todo[h]) \in Seq(Visits)
           /\ Range(todo[h]) \subseteq {Head(todo[h])} \cup Range(Tail(todo[h]))
<1>1. todo[h] \in Seq(Visits)
  BY DEF Typed, HookTypes
<1> QED
  BY <1>1, QueueParts DEF Cur, Down

LEMMA ConcatParts ==
    ASSUME NEW S, NEW a \in Seq(S), NEW b \in Seq(S)
    PROVE  /\ a \o b \in Seq(S) /\ Len(a \o b) = Len(a) + Len(b)
           /\ \A i \in 1..Len(a) : (a \o b)[i] = a[i]
           /\ \A i \in 1..Len(b) : (a \o b)[Len(a) + i] = b[i]
OBVIOUS

LEMMA AppendParts ==
    ASSUME NEW S, NEW a \in Seq(S), NEW e \in S
    PROVE  /\ Append(a, e) \in Seq(S) /\ Len(Append(a, e)) = Len(a) + 1
           /\ \A i \in 1..Len(a) : Append(a, e)[i] = a[i]
           /\ Append(a, e)[Len(a) + 1] = e
OBVIOUS

LEMMA TailParts ==
    ASSUME NEW S, NEW s \in Seq(S), s # << >>
    PROVE  /\ Tail(s) \in Seq(S) /\ Len(s) = Len(Tail(s)) + 1
           /\ \A i \in 1..Len(Tail(s)) : Tail(s)[i] = s[i + 1]
OBVIOUS

\* What a visit that goes down makes of the queue: calls for the submodules it
\* knows of, the repository itself, and what was there before.
Grown(old, subs, d) ==
    LastOf([i \in DOMAIN subs |-> Visit(subs[i], d)], Visit(Head(old).repo, 0)) \o Tail(old)

LEMMA QueueGrows ==
    ASSUME NEW old \in Seq(Visits), old # << >>, NEW subs \in Seq(Repo), NEW d \in Nat
    PROVE  /\ Grown(old, subs, d) \in Seq(Visits)
           /\ Len(Grown(old, subs, d)) = Len(subs) + Len(old)
           /\ \A i \in 1 .. Len(subs) : Grown(old, subs, d)[i] = Visit(subs[i], d)
           /\ Grown(old, subs, d)[Len(subs) + 1] = Visit(Head(old).repo, 0)
           /\ \A i \in 2 .. Len(old) : Grown(old, subs, d)[Len(subs) + i] = old[i]
<1> PICK n \in Nat : n = Len(subs)
  OBVIOUS
<1>1. PICK calls \in Seq(Visits) : calls = [i \in DOMAIN subs |-> Visit(subs[i], d)]
  <2>1. \A i \in 1..Len(subs) : subs[i] \in Repo /\ Visit(subs[i], d) \in Visits
    BY DEF Visit, Visits
  <2>2. DOMAIN subs = 1..Len(subs) /\ Len(subs) \in Nat
    OBVIOUS
  <2>3. [i \in DOMAIN subs |-> Visit(subs[i], d)] \in Seq(Visits)
    BY <2>1, <2>2
  <2> QED
    BY <2>3
<1>2. Len(calls) = n /\ \A i \in 1..n : calls[i] = Visit(subs[i], d)
  <2>1. DOMAIN subs = 1..n /\ DOMAIN calls = 1..Len(calls) /\ Len(calls) \in Nat
    OBVIOUS
  <2> QED
    BY <1>1, <2>1
<1>3. PICK self \in Visits : self = Visit(Head(old).repo, 0)
  BY QueueParts DEF Visit, Visits
<1>4. PICK front : front = Append(calls, self)
  OBVIOUS
<1>5. /\ front \in Seq(Visits) /\ Len(front) = n + 1 /\ front[n + 1] = self
      /\ \A i \in 1..n : front[i] = calls[i]
  BY <1>2, <1>4, AppendParts
<1>6. PICK tail : tail = Tail(old)
  OBVIOUS
<1>7. /\ tail \in Seq(Visits) /\ Len(old) = Len(tail) + 1
      /\ \A i \in 1..Len(tail) : tail[i] = old[i + 1]
  BY <1>6, TailParts
<1>8. PICK new : new = front \o tail /\ new = Grown(old, subs, d)
  BY <1>1, <1>3, <1>4, <1>6 DEF LastOf, Grown
<1>9. /\ new \in Seq(Visits) /\ Len(new) = (n + 1) + Len(tail)
      /\ \A i \in 1..(n + 1) : new[i] = front[i]
      /\ \A i \in 1..Len(tail) : new[(n + 1) + i] = tail[i]
  <2>1. front \in Seq(Visits) /\ tail \in Seq(Visits)
    BY <1>5, <1>7
  <2>2. /\ front \o tail \in Seq(Visits) /\ Len(front \o tail) = Len(front) + Len(tail)
        /\ \A i \in 1..Len(front) : (front \o tail)[i] = front[i]
        /\ \A i \in 1..Len(tail) : (front \o tail)[Len(front) + i] = tail[i]
    BY <2>1, ConcatParts
  <2>3. new = front \o tail /\ Len(front) = n + 1
    BY <1>5, <1>8
  <2> QED
    BY <2>2, <2>3, Zenon
<1>10. PICK m \in Nat : m = Len(tail)
  BY <1>7
<1>11. ASSUME NEW i \in 2..(m + 1) PROVE new[n + i] = old[i]
  <2>1. i - 1 \in 1..m /\ (n + 1) + (i - 1) = n + i /\ (i - 1) + 1 = i
    OBVIOUS
  <2>2. new[(n + 1) + (i - 1)] = tail[i - 1] /\ tail[i - 1] = old[(i - 1) + 1]
    BY <1>7, <1>9, <1>10, <2>1
  <2> QED
    BY <2>1, <2>2
<1>12. ASSUME NEW i \in 1..n PROVE new[i] = Visit(subs[i], d)
  <2>1. i \in 1..(n + 1)
    OBVIOUS
  <2> QED
    BY <1>2, <1>5, <1>9, <2>1
<1>13. new[n + 1] = Visit(Head(old).repo, 0)
  <2>1. n + 1 \in 1..(n + 1)
    OBVIOUS
  <2> QED
    BY <1>3, <1>5, <1>9, <2>1
<1>14. Len(new) = n + Len(old) /\ 2..Len(old) = 2..(m + 1)
  BY <1>7, <1>9, <1>10
<1> QED
  BY <1>8, <1>9, <1>11, <1>12, <1>13, <1>14

\* What a hook does keeps the types of the repositories.
LEMMA WorksReposTyped ==
    ASSUME Typed, NEW h \in Hook, Works(h)
    PROVE  RepoTypes' /\ Grounded'
<1>1. CASE ReadList(h) \/ TruncateList(h) \/ WriteList(h) \/ StopReads(h) \/ Probe(h)
           \/ ProbeFails(h) \/ Count(h) \/ CountFails(h) \/ NoOrigin(h) \/ Descend(h)
           \/ DescendBlind(h) \/ NoCommitMade(h) \/ CommitFails(h) \/ PushRefused(h)
           \/ Answer(h) \/ AnswerStop(h)
  <2>1. UNCHANGED repos
    BY <1>1 DEF ReadList, TruncateList, WriteList, StopReads, Probe, ProbeFails, Count, CountFails,
                NoOrigin, Descend, DescendBlind, Enter, NoCommitMade, CommitFails, PushRefused,
                Answer, AnswerStop
  <2> QED
    BY <2>1, ReposKept
<1>6. ASSUME NEW t \in Reading, Stay(h, t) \/ SwitchFails(h, t) PROVE RepoTypes' /\ Grounded'
  BY <1>6, ReposKept DEF Stay, SwitchFails
<1>2. ASSUME NEW t \in Reading, ToSession(h, t) PROVE RepoTypes' /\ Grounded'
  <2>1. Cur(h) \in Repo
    BY <1>2, CurType DEF ToSession, At
  <2>2. HeadOf(Cur(h)) \in Commits /\ "session" \in Branch
    BY <2>1 DEF Typed, Grounded, Branch
  <2>3. tips \in [Repo -> [Branch -> Commits \cup {NoCommit}]]
    BY DEF Typed, RepoTypes
  <2>4. PICK c \in Commits : tips' = [tips EXCEPT ![Cur(h)]["session"] = c]
    <3>1. CASE tips[Cur(h)]["session"] = NoCommit
      BY <1>2, <2>2, <3>1 DEF ToSession
    <3>2. CASE tips[Cur(h)]["session"] # NoCommit
      <4>1. tips[Cur(h)]["session"] \in Commits
        BY <2>1, <2>2, <2>3, <3>2
      <4>2. tips' = [tips EXCEPT ![Cur(h)]["session"] = tips[Cur(h)]["session"]]
        BY <1>2, <2>3, <3>2 DEF ToSession
      <4> QED
        BY <4>1, <4>2
    <3> QED
      BY <3>1, <3>2
  <2>5. branch' = [branch EXCEPT ![Cur(h)] = "session"]
        /\ UNCHANGED << wt, stash, conflict, remote, tracking, log >>
    BY <1>2 DEF ToSession
  <2> QED
    BY <2>1, <2>2, <2>4, <2>5, BranchTyped
<1>3. CASE Commit(h)
  <2>1. Cur(h) \in Repo
    BY <1>3, CurType DEF Commit, At
  <2>2. Files(h) \in SUBSET Work
    BY <2>1 DEF Typed, RepoTypes, Files
  <2> QED
    BY <1>3, <2>1, <2>2, CommitTyped DEF Commit
<1>4. CASE Push(h) \/ PushUnheard(h)
  <2>1. Cur(h) \in Repo
    BY <1>4, CurType DEF Push, PushUnheard, At
  <2> QED
    BY <1>4, <2>1, PushTyped DEF Push, PushUnheard
<1>5. CASE AnswerStash(h)
  <2>1. root[h] \in Repo /\ wt[root[h]] \in SUBSET Work
    BY DEF Typed, HookTypes, RepoTypes
  <2>2. wt' \in [Repo -> SUBSET Work] /\ stash' \in [Repo -> SUBSET Work]
    BY <1>5, <2>1 DEF AnswerStash, Typed, RepoTypes
  <2>3. UNCHANGED << branch, tips, conflict, remote, tracking, log >>
    BY <1>5 DEF AnswerStash
  <2> QED
    BY <2>2, <2>3 DEF Typed, RepoTypes, Grounded, Commits, HeadOf
<1> QED
  BY <1>1, <1>2, <1>3, <1>4, <1>5, <1>6 DEF Works

Answers == [work : SUBSET Work, subs : SUBSET Repo, conflict : BOOLEAN]
Progress ==
    /\ pc \in [Hook -> {"idle", "read", "truncate", "write", "probe", "count", "place",
                        "commit", "push"}]
    /\ todo \in [Hook -> Seq(Visits)] /\ found \in [Hook -> Answers]
    /\ failed \in [Hook -> SUBSET Repo] /\ missed \in [Hook -> SUBSET Repo]
Session ==
    /\ list \in Seq(Repo) /\ kind \in [Hook -> Kinds \cup {"stop"}] /\ root \in [Hook -> Repo]
    /\ seen \in [Hook -> Seq(Repo)] /\ ended \in BOOLEAN
History ==
    /\ moves \in Nat
    /\ disturbed \in [Hook -> SUBSET Repo] /\ due \in [Hook -> [Repo -> SUBSET Work]]

LEMMA HookParts == HookTypes <=> Progress /\ Session /\ History
BY DEF HookTypes, Progress, Session, History, Answers

\* A hook goes on or leaves the repository it is at.
LEMMA GotoTyped ==
    ASSUME Progress, NEW h \in Hook, NEW step \in {"count", "place", "commit", "push"}, Goto(h, step)
    PROVE  Progress'
BY DEF Progress, Goto

LEMMA LeaveTyped ==
    ASSUME Progress, NEW h \in Hook, todo[h] # << >>, Fail(h) \/ Done(h)
    PROVE  Progress'
<1>1. Tail(todo[h]) \in Seq(Visits) /\ Cur(h) \in Repo
  BY QueueParts DEF Progress, Cur
<1>3. Nothing \in Answers
  BY DEF Nothing, Answers
<1>4. pc' = [pc EXCEPT ![h] = "probe"] /\ todo' = [todo EXCEPT ![h] = Tail(todo[h])]
      /\ found' = [found EXCEPT ![h] = Nothing] /\ missed' = [missed EXCEPT ![h] = @ \ {Cur(h)}]
  BY DEF Fail, Done, Leave, Progress
<1>5. failed' = failed \/ failed' = [failed EXCEPT ![h] = failed[h] \cup {Cur(h)}]
  BY DEF Fail, Done, Progress
<1>6. failed' \in [Hook -> SUBSET Repo] /\ missed' \in [Hook -> SUBSET Repo]
  BY <1>1, <1>4, <1>5 DEF Progress
<1>7. todo' \in [Hook -> Seq(Visits)]
  BY <1>1, <1>4 DEF Progress
<1>8. found' \in [Hook -> Answers]
  BY <1>3, <1>4 DEF Progress
<1> QED
  BY <1>4, <1>6, <1>7, <1>8 DEF Progress

LEMMA EnterTyped ==
    ASSUME Progress, NEW h \in Hook, NEW subs \in Seq(Repo), Enter(h, subs)
    PROVE  Progress'
<1>1. todo[h] \in Seq(Visits) /\ todo[h] # << >> /\ Down(h) \in Nat /\ Cur(h) \in Repo
  BY QueueParts DEF Progress, Enter, At, Down, Cur
<1>2. Down(h) - 1 \in Nat
  BY <1>1 DEF Enter
<1>3. Grown(todo[h], subs, Down(h) - 1) \in Seq(Visits)
  BY <1>1, <1>2, QueueGrows
<1>4. todo' = [todo EXCEPT ![h] = Grown(todo[h], subs, Down(h) - 1)]
  BY DEF Enter, Progress, Grown, Cur
<1>5. UNION {Beneath(s) : s \in SubsOf(Cur(h)) \ Range(subs)} \subseteq Repo
  BY DEF Beneath
<1>6. missed' \in [Hook -> SUBSET Repo]
  BY <1>5 DEF Enter, Progress
<1>7. todo' \in [Hook -> Seq(Visits)]
  BY <1>3, <1>4 DEF Progress
<1> QED
  BY <1>6, <1>7 DEF Enter, Progress

\* The submodules that .gitmodules lists are some of those there are.
LEMMA ListedType ==
    ASSUME NEW r \in Repo
    PROVE  Listed[r] \in Seq(Repo) /\ Range(Listed[r]) \subseteq SubsOf(r)
BY ConstantsAssumption

LEMMA JudgeTyped ==
    ASSUME Progress, NEW h \in Hook, todo[h] # << >>, NEW ahead, Judge(h, ahead)
    PROVE  Progress'
BY GotoTyped, LeaveTyped DEF Judge

\* A process that ends leaves nothing behind but its list.
LEMMA GoneTyped ==
    ASSUME Progress, Session, History, NEW h \in Hook, Gone(h),
           UNCHANGED << list, todo, found, moves >>, ended' \in BOOLEAN
    PROVE  Progress' /\ Session' /\ History'
<1>1. (CHOOSE r \in Repo : TRUE) \in Repo /\ [r \in Repo |-> {}] \in [Repo -> SUBSET Work]
      /\ << >> \in Seq(Repo) /\ "record" \in Kinds
  BY ConstantsAssumption DEF Kinds
<1>2. Progress'
  BY DEF Progress, Gone
<1>3. seen' \in [Hook -> Seq(Repo)]
  BY <1>1 DEF Session, Gone
<1>4. root' \in [Hook -> Repo] /\ kind' \in [Hook -> Kinds \cup {"stop"}]
  BY <1>1 DEF Session, Gone
<1>5. due' \in [Hook -> [Repo -> SUBSET Work]]
  BY <1>1 DEF History, Gone
<1>6. disturbed' \in [Hook -> SUBSET Repo]
  BY <1>1 DEF History, Gone
<1> QED
  BY <1>2, <1>3, <1>4, <1>5, <1>6 DEF Session, History

LEMMA RecordedTyped ==
    ASSUME Progress, Session, History, NEW h \in Hook, Recorded(h),
           list' \in Seq(Repo), UNCHANGED << found, ended, moves >>
    PROVE  Progress' /\ Session' /\ History'
<1>1. << Call(root[h]) >> \in Seq(Visits)
  <2>1. MaxDepth + 1 \in Nat /\ root[h] \in Repo
    BY ConstantsAssumption DEF Session
  <2> QED
    BY <2>1 DEF Call, Visit, Visits
<1>2. CASE kind[h] # "record"
  <2>1. pc' = [pc EXCEPT ![h] = "probe"] /\ todo' = [todo EXCEPT ![h] = << Call(root[h]) >>]
        /\ UNCHANGED << kind, root, seen, failed, missed, disturbed, due >>
    BY <1>2 DEF Recorded
  <2> QED
    BY <1>1, <2>1 DEF Progress, Session, History
<1>3. CASE kind[h] = "record"
  <2>1. Gone(h) /\ UNCHANGED todo
    BY <1>3 DEF Recorded
  <2>2. (CHOOSE r \in Repo : TRUE) \in Repo /\ [r \in Repo |-> {}] \in [Repo -> SUBSET Work]
        /\ << >> \in Seq(Repo) /\ "record" \in Kinds
    BY ConstantsAssumption DEF Kinds
  <2>3. Progress'
    BY <2>1 DEF Progress, Gone
  <2>4. seen' \in [Hook -> Seq(Repo)]
    BY <2>1, <2>2 DEF Session, Gone
  <2>5. root' \in [Hook -> Repo] /\ kind' \in [Hook -> Kinds \cup {"stop"}]
    BY <2>1, <2>2 DEF Session, Gone
  <2>6. due' \in [Hook -> [Repo -> SUBSET Work]]
    BY <2>1, <2>2 DEF History, Gone
  <2>7. disturbed' \in [Hook -> SUBSET Repo]
    BY <2>1, <2>2 DEF History, Gone
  <2> QED
    BY <2>3, <2>4, <2>5, <2>6, <2>7 DEF Session, History
<1> QED
  BY <1>2, <1>3

LEMMA WorksHookTyped ==
    ASSUME Typed, NEW h \in Hook, Works(h)
    PROVE  HookTypes'
<1>0. HookTypes' <=> Progress' /\ Session' /\ History'
  BY DEF HookTypes, Progress, Session, History, Answers
<1>a. Progress /\ Session /\ History
  BY HookParts DEF Typed
<1>c. todo[h] # << >> => Cur(h) \in Repo
  BY CurType
<1>1. CASE ReadList(h)
  <2>1. CASE Recorded(h)
    <3>1. UNCHANGED << list, found, ended, moves >> /\ list \in Seq(Repo)
      BY <1>1, <1>a DEF ReadList, Session
    <3> QED
      BY <1>0, <1>a, <2>1, <3>1, RecordedTyped
  <2>2. CASE ~Recorded(h)
    <3>1. seen' = [seen EXCEPT ![h] = list] /\ pc' = [pc EXCEPT ![h] = "truncate"]
          /\ UNCHANGED << list, found, ended, moves, kind, root, todo, failed, missed, disturbed, due >>
      BY <1>1, <2>2 DEF ReadList
    <3> QED
      BY <1>0, <1>a, <3>1 DEF Progress, Session, History
  <2> QED
    BY <2>1, <2>2
<1>2. CASE WriteList(h)
  <2>1. list' \in Seq(Repo)
    <3>1. seen[h] \in Seq(Repo) /\ root[h] \in Repo
      BY <1>a DEF Session
    <3> QED
      BY <1>2, <3>1 DEF WriteList
  <2> QED
    BY <1>0, <1>2, <1>a, <2>1, RecordedTyped DEF WriteList
<1>3. CASE TruncateList(h)
  BY <1>3, <1>0, <1>a DEF TruncateList, Progress, Session, History, story
<1>4. CASE StopReads(h)
  <2>1. list \in Seq(Repo) /\ MaxDepth + 1 \in Nat
    BY <1>a, ConstantsAssumption DEF Session
  <2>2. [i \in DOMAIN list |-> Call(list[i])] \in Seq(Visits)
    <3>1. \A i \in 1 .. Len(list) : Call(list[i]) \in Visits
      BY <2>1 DEF Call, Visit, Visits
    <3>2. DOMAIN list = 1 .. Len(list) /\ Len(list) \in Nat
      BY <2>1
    <3> QED
      BY <3>1, <3>2
  <2>3. PICK w \in Seq(Visits) : w = [i \in DOMAIN list |-> Call(list[i])]
    BY <2>2
  <2>4. /\ seen' = [seen EXCEPT ![h] = list] /\ pc' = [pc EXCEPT ![h] = "probe"]
        /\ todo' = [todo EXCEPT ![h] = w]
        /\ UNCHANGED << list, kind, root, found, failed, missed, ended, moves, disturbed, due >>
    BY <1>4, <2>3 DEF StopReads, story
  <2> QED
    BY <1>0, <1>a, <2>1, <2>4 DEF Progress, Session, History
<1>5. CASE Probe(h)
  <2>1. Cur(h) \in Repo
    BY <1>5, <1>c DEF Probe, At
  <2>2. SubsOf(Cur(h)) \subseteq Repo
    BY <2>1, ConstantsAssumption DEF SubsOf, Range
  <2>3. PICK a \in Answers : a = [work |-> wt[Cur(h)], conflict |-> conflict[Cur(h)],
                     subs |-> Moved(Cur(h)) \cup {s \in SubsOf(Cur(h)) : Dirty[s]}]
    BY <2>1, <2>2 DEF Typed, RepoTypes, Moved, Answers
  <2>4. /\ found' = [found EXCEPT ![h] = a] /\ pc' = [pc EXCEPT ![h] = "count"]
        /\ UNCHANGED << todo, failed, missed, list, kind, root, seen, ended, moves, disturbed, due >>
    BY <1>5, <2>3 DEF Probe, Quiet, story
  <2> QED
    BY <1>0, <1>a, <2>4 DEF Progress, Session, History
<1>6. CASE Count(h) \/ NoCommitMade(h) \/ Push(h) \/ Commit(h)
  <2>1. todo[h] # << >>
    BY <1>6 DEF Count, NoCommitMade, Push, Commit, At
  <2>2. Fail(h) \/ Done(h) \/ \E step \in {"place", "commit", "push"} : Goto(h, step)
    BY <1>6 DEF Count, NoCommitMade, Push, Commit, Judge
  <2>3. Progress'
    BY <1>a, <2>1, <2>2, GotoTyped, LeaveTyped
  <2>4. UNCHANGED << list, kind, root, seen, ended, moves, disturbed, due >>
    BY <1>6 DEF Count, NoCommitMade, Push, Commit, Quiet, story
  <2> QED
    BY <1>0, <1>a, <2>3, <2>4 DEF Session, History
<1>7. CASE ProbeFails(h) \/ NoOrigin(h) \/ (\E t \in Reading : SwitchFails(h, t)) \/ CommitFails(h)
           \/ PushRefused(h) \/ PushUnheard(h)
  <2>1. todo[h] # << >>
    BY <1>7 DEF ProbeFails, NoOrigin, SwitchFails, CommitFails, PushRefused, PushUnheard, At
  <2>2. Fail(h) \/ Goto(h, "push")
    BY <1>7 DEF ProbeFails, NoOrigin, SwitchFails, CommitFails, PushRefused, PushUnheard
  <2>3. Progress'
    BY <1>a, <2>1, <2>2, GotoTyped, LeaveTyped
  <2>4. moves' = moves + 1 /\ UNCHANGED << list, kind, root, seen, ended, disturbed, due >>
    BY <1>7 DEF ProbeFails, NoOrigin, SwitchFails, CommitFails, PushRefused, PushUnheard, Faulty
  <2> QED
    BY <1>0, <1>a, <2>3, <2>4 DEF Session, History
<1>8. CASE CountFails(h)
  <2>1. Cur(h) \in Repo /\ todo[h] # << >>
    BY <1>8, <1>c DEF CountFails, At
  <2>2. /\ disturbed' = [disturbed EXCEPT ![h] = @ \cup {Cur(h)}]
        /\ due' = [due EXCEPT ![h][Cur(h)] = @ \cap wt[Cur(h)]]
        /\ moves' = moves + 1 /\ UNCHANGED << list, kind, root, seen, ended >>
    BY <1>8 DEF CountFails
  <2>3. disturbed' \in [Hook -> SUBSET Repo] /\ due' \in [Hook -> [Repo -> SUBSET Work]] /\ moves' \in Nat
    BY <1>a, <2>1, <2>2 DEF History
  <2>4. Progress'
    BY <1>8, <1>a, <2>1, JudgeTyped DEF CountFails
  <2> QED
    BY <1>0, <1>a, <2>2, <2>3, <2>4 DEF Session, History
<1>9. ASSUME NEW t \in Reading, Stay(h, t) \/ ToSession(h, t) PROVE HookTypes'
  <2>1. Cur(h) \in Repo /\ todo[h] # << >>
    BY <1>9, <1>c DEF Stay, ToSession, At
  <2>2. due' = due \/ due' = [g \in Hook |-> [due[g] EXCEPT ![Cur(h)] = @ \cap wt[Cur(h)]]]
    BY <1>9 DEF Stay, ToSession, Forgive
  <2>3. due' \in [Hook -> [Repo -> SUBSET Work]]
    BY <1>a, <2>1, <2>2 DEF History
  <2>4. \E step \in {"commit", "push"} : Goto(h, step)
    BY <1>9 DEF Stay, ToSession, Onward
  <2>5. Progress'
    BY <1>a, <2>1, <2>4, GotoTyped
  <2>6. /\ UNCHANGED << list, kind, root, seen, ended >>
        /\ moves' = moves \/ moves' = moves + 1
        /\ disturbed' = disturbed \/ disturbed' = [disturbed EXCEPT ![h] = @ \cup {Cur(h)}]
    BY <1>9 DEF Stay, ToSession, Truly, Misled
  <2>7. moves' \in Nat /\ disturbed' \in [Hook -> SUBSET Repo]
    BY <1>a, <2>1, <2>6 DEF History
  <2> QED
    BY <1>0, <1>a, <2>3, <2>5, <2>6, <2>7 DEF Session, History
<1>12. CASE Descend(h) \/ DescendBlind(h)
  <2>1. Cur(h) \in Repo /\ << >> \in Seq(Repo)
    BY <1>12, <1>c DEF Descend, DescendBlind, Enter, At
  <2>2. PICK subs \in Seq(Repo) : Enter(h, subs)
    BY <1>12, <2>1, ListedType DEF Descend, DescendBlind
  <2>3. Progress'
    BY <1>a, <2>2, EnterTyped
  <2>4. /\ moves' = moves \/ moves' = moves + 1
        /\ UNCHANGED << list, kind, root, seen, ended, disturbed, due >>
    BY <1>12 DEF Descend, DescendBlind, Quiet, Faulty, story
  <2> QED
    BY <1>0, <1>a, <2>3, <2>4 DEF Session, History
<1>10. CASE Answer(h) \/ AnswerStash(h)
  <2>1. Gone(h) /\ UNCHANGED << list, todo, found, moves, ended >> /\ ended' \in BOOLEAN
    BY <1>10, <1>a DEF Answer, AnswerStash, Session
  <2> QED
    BY <1>0, <1>a, <2>1, GoneTyped
<1>11. CASE AnswerStop(h)
  <2>1. ended' \in BOOLEAN /\ UNCHANGED << list, todo, found, moves >>
    BY <1>11 DEF AnswerStop
  <2>2. CASE Gone(h)
    BY <1>0, <1>a, <2>1, <2>2, GoneTyped
  <2>3. CASE ~Gone(h)
    <3>1. pc' = [pc EXCEPT ![h] = "idle"] /\ UNCHANGED << kind, root, seen, failed, missed, disturbed, due >>
      BY <1>11, <2>3 DEF AnswerStop
    <3> QED
      BY <1>0, <1>a, <2>1, <3>1 DEF Progress, Session, History
  <2> QED
    BY <2>2, <2>3
<1> QED
  BY <1>1, <1>2, <1>3, <1>4, <1>5, <1>6, <1>7, <1>8, <1>9, <1>10, <1>11, <1>12 DEF Works

LEMMA OthersHookTyped ==
    ASSUME Typed, NEW r \in Repo, Others(r)
    PROVE  HookTypes'
<1>1. UNCHANGED << list, hook, ended >>
  BY DEF Others, Edit, UserCommit, Conflict, Resolve, UserSwitch, UserBranch
<1>2. HookTypes
  BY DEF Typed
<1>3. moves' \in Nat /\ disturbed' \in [Hook -> SUBSET Repo]
  <2>1. moves' = moves \/ moves' = moves + 1
    BY DEF Others, Edit, UserCommit, Conflict, Resolve, UserSwitch, UserBranch, Disturb
  <2>2. disturbed' = [h \in Hook |-> IF pc[h] = "idle" THEN {} ELSE disturbed[h] \cup {r}]
    BY DEF Others, Edit, UserCommit, Conflict, Resolve, UserSwitch, UserBranch, Disturb
  <2> QED
    BY <1>2, <2>1, <2>2 DEF HookTypes
<1>4. due' = due \/ Forgive(r)
  BY DEF Others, Edit, UserCommit, Conflict, Resolve, UserSwitch, UserBranch
<1>5. due' \in [Hook -> [Repo -> SUBSET Work]]
  <2>1. due \in [Hook -> [Repo -> SUBSET Work]]
    BY <1>2 DEF HookTypes
  <2>2. due' = due \/ due' = [h \in Hook |-> [due[h] EXCEPT ![r] = @ \cap wt[r]]]
    BY <1>4 DEF Forgive
  <2> QED
    BY <2>1, <2>2
<1> QED
  BY <1>1, <1>2, <1>3, <1>5 DEF HookTypes, hook

\* A hook that begins answers for what stands and what HEAD holds.
LEMMA OwedType == ASSUME Typed PROVE Owed \in [Repo -> SUBSET Work]
<1> SUFFICES ASSUME NEW r \in Repo PROVE wt[r] \cup WorkIn(Past(HeadOf(r))) \in SUBSET Work
  BY DEF Owed
<1>1. Past(HeadOf(r)) \subseteq Commits /\ wt[r] \in SUBSET Work
  BY PastExists DEF Typed, RepoTypes
<1>2. \A c \in Commits \ {0} : log[c].work \in SUBSET Work
  <2> SUFFICES ASSUME NEW c \in Commits \ {0} PROVE log[c].work \in SUBSET Work
    OBVIOUS
  <2>1. log \in Seq(Entry)
    BY DEF Typed, RepoTypes, Entry
  <2>2. PICK n \in Nat : n = Len(log)
    BY <2>1
  <2>3. c \in 1..Len(log)
    BY <2>2 DEF Commits
  <2>4. log[c] \in Entry
    BY <2>1, <2>3
  <2> QED
    BY <2>4 DEF Entry
<1>3. WorkIn(Past(HeadOf(r))) \in SUBSET Work
  BY <1>1, <1>2 DEF WorkIn
<1> QED
  BY <1>1, <1>3

LEMMA TypedStep == ASSUME Typed, [Next]_vars PROVE Typed'
<1>1. CASE UNCHANGED vars
  <2>1. UNCHANGED repos
    BY <1>1 DEF vars
  <2>2. RepoTypes' /\ Grounded'
    BY <2>1, ReposKept
  <2>3. HookTypes'
    BY <1>1 DEF Typed, HookTypes, vars, hook, story
  <2> QED
    BY <2>2, <2>3 DEF Typed
<1>2. ASSUME NEW r \in Repo, Others(r) PROVE Typed'
  BY <1>2, OthersTyped, OthersHookTyped DEF Typed
<1>3. ASSUME NEW h \in Hook, NEW k \in Calls, NEW r \in Repo, Begin(h, k, r) PROVE Typed'
  <2>1. k \in Kinds /\ Owed \in [Repo -> SUBSET Work] /\ HookTypes
    BY ConstantsAssumption, OwedType DEF Typed
  <2>2. HookTypes'
    BY <1>3, <2>1 DEF Begin, HookTypes
  <2>3. UNCHANGED repos
    BY <1>3 DEF Begin
  <2> QED
    BY <2>2, <2>3, ReposKept DEF Typed
<1>4. ASSUME NEW h \in Hook, BeginStop(h) PROVE Typed'
  <2>1. Owed \in [Repo -> SUBSET Work] /\ HookTypes
    BY OwedType DEF Typed
  <2>2. HookTypes'
    BY <1>4, <2>1 DEF BeginStop, HookTypes
  <2>3. UNCHANGED repos
    BY <1>4 DEF BeginStop
  <2> QED
    BY <2>2, <2>3, ReposKept DEF Typed
<1>5. ASSUME NEW h \in Hook, Works(h) PROVE Typed'
  BY <1>5, WorksReposTyped, WorksHookTyped DEF Typed
<1> QED
  BY <1>1, <1>2, <1>3, <1>4, <1>5 DEF Next

\* Every value has its type, and every commit that a branch, a history or a
\* remote names is in the log, for every number of repositories and hooks.
THEOREM TypeCorrect == Spec => [](TypeOK /\ Grounded)
<1>1. Spec => []Typed
  BY TypedInit, TypedStep, PTL DEF Spec
<1>2. Typed => TypeOK /\ Grounded
  BY DEF Typed, RepoTypes, HookTypes, TypeOK, Commits, Visits
<1> QED
  BY <1>1, <1>2, PTL

-----------------------------------------------------------------------------
(* What becomes of the work a hook answers for.                             *)

\* Where the work of a repository may be, and where it is safe.
Held(r) == wt[r] \cup stash[r] \cup WorkIn(Past(HeadOf(r))) \cup WorkIn(remote[r])
Safe(r) == WorkIn(remote[r]) \cup stash[r]

Findable == \A h \in Hook, r \in Repo : due[h][r] \subseteq Held(r)

\* A step leaves safe what is safe, a hook that has begun answers for no more,
\* and what it answers for does not come back to the working tree.
Keeps ==
    /\ \A r \in Repo : Safe(r) \subseteq Safe(r)'
    /\ \A h \in Hook, r \in Repo : pc'[h] # "read" =>
          due'[h][r] \subseteq due[h][r] /\ due'[h][r] \cap wt'[r] \subseteq wt[r]
    /\ Findable'

WorkOf(l, commits) == UNION {l[c].work : c \in commits \ {0}}
PastOf(l, c) == IF c = 0 THEN {0} ELSE l[c].past

LEMMA SafeNow == ASSUME NEW r PROVE Safe(r) = WorkOf(log, remote[r]) \cup stash[r]
BY DEF Safe, WorkIn, WorkOf
LEMMA SafeNext == ASSUME NEW r PROVE Safe(r)' = WorkOf(log', remote'[r]) \cup stash'[r]
BY DEF Safe, WorkIn, WorkOf
LEMMA HeldNow ==
    ASSUME NEW r
    PROVE  Held(r) = wt[r] \cup stash[r] \cup WorkOf(log, PastOf(log, HeadOf(r))) \cup WorkOf(log, remote[r])
BY DEF Held, WorkIn, WorkOf, Past, PastOf
LEMMA HeldNext ==
    ASSUME NEW r
    PROVE  Held(r)' = wt'[r] \cup stash'[r] \cup WorkOf(log', PastOf(log', HeadOf(r)'))
                      \cup WorkOf(log', remote'[r])
BY DEF Held, WorkIn, WorkOf, Past, PastOf

LEMMA SameWork ==
    ASSUME NEW l, NEW m, NEW C, \A c \in C \ {0} : l[c] = m[c]
    PROVE  WorkOf(l, C) = WorkOf(m, C)
BY DEF WorkOf

LEMMA MoreWork ==
    ASSUME NEW l, NEW C, NEW D, C \subseteq D
    PROVE  WorkOf(l, C) \subseteq WorkOf(l, D)
BY DEF WorkOf

\* A step that leaves the repositories alone.
LEMMA QuietKeeps ==
    ASSUME Typed, Findable, UNCHANGED << wt, stash, branch, tips, remote, log >>,
           \A h \in Hook : \/ \A r \in Repo : due'[h][r] \subseteq due[h][r]
                           \/ pc'[h] = "read" /\ due'[h] = Owed
    PROVE  Keeps
<1>1. \A r \in Repo : Safe(r)' = Safe(r) /\ Held(r)' = Held(r)
  BY DEF Safe, Held, WorkIn, Past, HeadOf
<1>2. \A r \in Repo : Owed[r] \subseteq Held(r)
  BY DEF Owed, Held
<1>3. Findable'
  BY <1>1, <1>2 DEF Findable
<1> QED
  BY <1>1, <1>3 DEF Keeps

\* The work of an edit is nobody's to answer for.
LEMMA EditKeeps ==
    ASSUME Typed, Findable, NEW r \in Repo, Edit(r)
    PROVE  Keeps
<1>1. PICK w \in Work \ Made : wt' = [wt EXCEPT ![r] = @ \cup {w}]
  BY DEF Edit
<1>2. UNCHANGED << stash, branch, tips, remote, log, due >>
  BY DEF Edit
<1>3. \A q \in Repo : Held(q) \subseteq Made
  <2> SUFFICES ASSUME NEW q \in Repo PROVE Held(q) \subseteq Made
    OBVIOUS
  <2>1. Past(HeadOf(q)) \subseteq Commits /\ remote[q] \subseteq Commits
    BY PastExists DEF Typed, RepoTypes
  <2>2. PICK n \in Nat : n = Len(log)
    BY DEF Typed, RepoTypes
  <2>3. Commits \ {0} = (1 .. Len(log)) \ {0}
    BY <2>2 DEF Commits
  <2>4. WorkIn(Past(HeadOf(q))) \subseteq WorkIn(1 .. Len(log)) /\ WorkIn(remote[q]) \subseteq WorkIn(1 .. Len(log))
    BY <2>1, <2>3 DEF WorkIn
  <2> DEFINE standing == UNION {wt[p] \cup stash[p] : p \in Repo}
  <2>5. wt[q] \cup stash[q] \subseteq standing
    OBVIOUS
  <2>6. Made = standing \cup WorkIn(1 .. Len(log))
    BY Zenon DEF Made
  <2> HIDE DEF standing
  <2> QED
    BY <2>4, <2>5, <2>6 DEF Held
<1>4. wt \in [Repo -> SUBSET Work]
  BY DEF Typed, RepoTypes
<1>5. \A q \in Repo : wt[q] \subseteq wt'[q] /\ wt'[q] \subseteq wt[q] \cup {w}
  BY <1>1, <1>4
<1>6. \A q \in Repo : Safe(q)' = Safe(q) /\ Held(q) \subseteq Held(q)'
  BY <1>2, <1>5 DEF Safe, Held, WorkIn, Past, HeadOf
<1>7. \A h \in Hook, q \in Repo : w \notin due[h][q]
  BY <1>1, <1>3 DEF Findable
<1>8. Findable'
  BY <1>2, <1>6 DEF Findable
<1> QED
  BY <1>2, <1>5, <1>6, <1>7, <1>8 DEF Keeps

\* A commit takes work from the working tree into what HEAD contains.
LEMMA CommitKeeps ==
    ASSUME Typed, Findable, NEW r \in Repo, NEW work \in SUBSET Work, NEW subs,
           NewCommit(r, work, subs), UNCHANGED << stash, branch, remote, due >>
    PROVE  Keeps
<1>0. PICK n \in Nat : n = Len(log)
  BY DEF Typed, RepoTypes
<1>1. /\ \A c \in 1 .. n : log'[c] = log[c]
      /\ log'[n + 1].past = Past(HeadOf(r)) \cup {n + 1}
      /\ log'[n + 1].work = work
      /\ HeadOf(r)' = n + 1
      /\ \A q \in Repo \ {r} : HeadOf(q)' = HeadOf(q)
  BY <1>0, CommitLogged
<1>2. \A C \in SUBSET Commits : WorkOf(log', C) = WorkOf(log, C)
  <2>1. \A c \in Commits \ {0} : log'[c] = log[c]
    BY <1>0, <1>1 DEF Commits
  <2> QED
    BY <2>1, SameWork
<1>3. \A q \in Repo : Past(HeadOf(q)) \in SUBSET Commits /\ remote[q] \in SUBSET Commits
                      /\ HeadOf(q) \in Commits
  BY PastExists DEF Typed, RepoTypes, Grounded
<1>4. wt' = [wt EXCEPT ![r] = wt[r] \ work] /\ wt \in [Repo -> SUBSET Work]
  BY DEF NewCommit, Typed, RepoTypes
<1>5. \A q \in Repo : Safe(q)' = Safe(q)
  BY <1>2, <1>3, SafeNow, SafeNext
<1>6. ASSUME NEW q \in Repo \ {r} PROVE Held(q)' = Held(q)
  <2>1. HeadOf(q)' = HeadOf(q) /\ wt'[q] = wt[q]
    BY <1>1, <1>4
  <2>2. PastOf(log', HeadOf(q)) = Past(HeadOf(q)) /\ PastOf(log, HeadOf(q)) = Past(HeadOf(q))
    <3>1. HeadOf(q) = 0 \/ log'[HeadOf(q)] = log[HeadOf(q)]
      BY <1>0, <1>1, <1>3 DEF Commits
    <3> QED
      BY <3>1 DEF Past, PastOf
  <2> QED
    BY <1>2, <1>3, <2>1, <2>2, HeldNow, HeldNext
<1>7. Held(r) \subseteq Held(r)'
  <2>1. PastOf(log', HeadOf(r)') = Past(HeadOf(r)) \cup {n + 1}
    BY <1>0, <1>1 DEF PastOf
  <2>2. work \subseteq WorkOf(log', Past(HeadOf(r)) \cup {n + 1})
    BY <1>0, <1>1 DEF WorkOf
  <2>3. WorkOf(log', Past(HeadOf(r))) \subseteq WorkOf(log', Past(HeadOf(r)) \cup {n + 1})
    BY MoreWork
  <2>4. WorkOf(log', Past(HeadOf(r))) = WorkOf(log, PastOf(log, HeadOf(r)))
    BY <1>2, <1>3 DEF Past, PastOf
  <2>5. WorkOf(log', remote'[r]) = WorkOf(log, remote[r]) /\ wt[r] \subseteq wt'[r] \cup work
    BY <1>2, <1>3, <1>4
  <2> QED
    BY <2>1, <2>2, <2>3, <2>4, <2>5, HeldNow, HeldNext
<1>8. Findable'
  BY <1>6, <1>7 DEF Findable
<1>9. \A q \in Repo : wt'[q] \subseteq wt[q]
  BY <1>4
<1> QED
  BY <1>5, <1>8, <1>9 DEF Keeps

\* Whoever leaves a branch leaves its commits out of account.
LEMMA SwitchKeeps ==
    ASSUME Typed, Findable, NEW r \in Repo, UNCHANGED << wt, stash, remote, log >>,
           \A q \in Repo \ {r} : HeadOf(q)' = HeadOf(q),
           Forgive(r) \/ (due' = due /\ HeadOf(r)' = HeadOf(r))
    PROVE  Keeps
<1>1. \A q \in Repo : Safe(q)' = Safe(q)
  BY DEF Safe, WorkIn
<1>2. \A q \in Repo : HeadOf(q)' = HeadOf(q) => Held(q)' = Held(q)
  BY HeldNow, HeldNext
<1>3. due \in [Hook -> [Repo -> SUBSET Work]]
  BY DEF Typed, HookTypes
<1>4. CASE Forgive(r)
  <2>1. due' = [h \in Hook |-> [due[h] EXCEPT ![r] = due[h][r] \cap wt[r]]]
    BY <1>3, <1>4 DEF Forgive
  <2>2. \A h \in Hook, q \in Repo : due'[h][q] = IF q = r THEN due[h][r] \cap wt[r] ELSE due[h][q]
    BY <1>3, <2>1
  <2>3. wt'[r] \subseteq Held(r)'
    BY HeldNext
  <2>4. Findable'
    BY <1>2, <2>2, <2>3 DEF Findable
  <2> QED
    BY <1>1, <2>2, <2>4 DEF Keeps
<1>5. CASE due' = due /\ HeadOf(r)' = HeadOf(r)
  <2>1. Findable'
    BY <1>2, <1>5 DEF Findable
  <2> QED
    BY <1>1, <1>5, <2>1 DEF Keeps
<1> QED
  BY <1>4, <1>5

\* The remote only gains commits.
LEMMA PushKeeps ==
    ASSUME Typed, Findable, NEW r \in Repo,
           remote' = [remote EXCEPT ![r] = @ \cup Past(HeadOf(r))],
           UNCHANGED << wt, stash, branch, tips, log, due >>
    PROVE  Keeps
<1>1. \A q \in Repo : remote[q] \subseteq remote'[q]
  BY DEF Typed, RepoTypes
<1>2. \A q \in Repo : WorkOf(log, remote[q]) \subseteq WorkOf(log', remote'[q]) /\ HeadOf(q)' = HeadOf(q)
  BY <1>1, MoreWork DEF HeadOf
<1>3. \A q \in Repo : Safe(q) \subseteq Safe(q)'
  BY <1>2, SafeNow, SafeNext
<1>4. \A q \in Repo : Held(q) \subseteq Held(q)'
  BY <1>2, HeldNow, HeldNext
<1>5. Findable'
  BY <1>4 DEF Findable
<1> QED
  BY <1>3, <1>5 DEF Keeps

\* A stash keeps what it takes out of the working tree.
LEMMA StashKeeps ==
    ASSUME Typed, Findable, NEW h \in Hook, AnswerStash(h)
    PROVE  Keeps
<1>1. /\ wt \in [Repo -> SUBSET Work] /\ stash \in [Repo -> SUBSET Work]
      /\ due \in [Hook -> [Repo -> SUBSET Work]] /\ root[h] \in Repo
  BY DEF Typed, RepoTypes, HookTypes
<1>2. /\ stash' = [stash EXCEPT ![root[h]] = stash[root[h]] \cup wt[root[h]]]
      /\ wt' = [wt EXCEPT ![root[h]] = {}]
      /\ due' = [due EXCEPT ![h] = [r \in Repo |-> {}]]
      /\ UNCHANGED << branch, tips, remote, log >>
  BY <1>1 DEF AnswerStash, Gone
<1>3. \A q \in Repo : /\ stash[q] \subseteq stash'[q] /\ wt'[q] \subseteq wt[q]
                      /\ wt[q] \subseteq wt'[q] \cup stash'[q]
  BY <1>1, <1>2
<1>4. \A g \in Hook, q \in Repo : due'[g][q] \subseteq due[g][q]
  BY <1>1, <1>2
<1>5. \A q \in Repo : HeadOf(q)' = HeadOf(q)
  BY <1>2 DEF HeadOf
<1>6. \A q \in Repo : Safe(q) \subseteq Safe(q)'
  BY <1>2, <1>3, SafeNow, SafeNext
<1>7. \A q \in Repo : Held(q) \subseteq Held(q)'
  BY <1>2, <1>3, <1>5, HeldNow, HeldNext
<1>8. Findable'
  BY <1>4, <1>7 DEF Findable
<1> QED
  BY <1>3, <1>4, <1>6, <1>8 DEF Keeps

LEMMA WorksKeeps ==
    ASSUME Typed, Findable, NEW h \in Hook, Works(h)
    PROVE  Keeps
<1>a. due \in [Hook -> [Repo -> SUBSET Work]]
  BY DEF Typed, HookTypes
<1>1. CASE ReadList(h) \/ WriteList(h) \/ Answer(h) \/ AnswerStop(h)
  <2>1. UNCHANGED << wt, stash, branch, tips, remote, log >>
    BY <1>1 DEF ReadList, WriteList, Answer, AnswerStop, repos
  <2>2. due' = due \/ due' = [due EXCEPT ![h] = [r \in Repo |-> {}]]
    BY <1>1 DEF ReadList, WriteList, Answer, AnswerStop, Recorded, Gone
  <2>3. \A g \in Hook, r \in Repo : due'[g][r] \subseteq due[g][r]
    BY <1>a, <2>2
  <2> QED
    BY <2>1, <2>3, QuietKeeps
<1>2. CASE TruncateList(h) \/ StopReads(h) \/ Probe(h) \/ ProbeFails(h) \/ Count(h) \/ NoOrigin(h)
           \/ Descend(h) \/ DescendBlind(h) \/ NoCommitMade(h) \/ CommitFails(h) \/ PushRefused(h)
  <2>1. UNCHANGED << wt, stash, branch, tips, remote, log, due >>
    BY <1>2 DEF TruncateList, StopReads, Probe, ProbeFails, Count, NoOrigin, Descend, DescendBlind,
       Enter, NoCommitMade, CommitFails, PushRefused, Quiet, Faulty, repos, story
  <2> QED
    BY <2>1, QuietKeeps
<1>8. ASSUME NEW t \in Reading, Stay(h, t) \/ SwitchFails(h, t) PROVE Keeps
  BY <1>8, QuietKeeps DEF Stay, SwitchFails, Faulty, repos
<1>3. CASE CountFails(h)
  <2>1. UNCHANGED << wt, stash, branch, tips, remote, log >>
        /\ due' = [due EXCEPT ![h][Cur(h)] = @ \cap wt[Cur(h)]]
    BY <1>3 DEF CountFails, repos
  <2>2. Cur(h) \in Repo
    BY <1>3, CurType DEF CountFails, At
  <2>3. \A g \in Hook, r \in Repo : due'[g][r] \subseteq due[g][r]
    BY <1>a, <2>1, <2>2
  <2> QED
    BY <2>1, <2>3, QuietKeeps
<1>4. ASSUME NEW t \in Reading, ToSession(h, t) PROVE Keeps
  <2>1. PICK r \in Repo : r = Cur(h)
    BY <1>4, CurType DEF ToSession, At
  <2>2. /\ tips' = IF tips[r]["session"] = NoCommit
                   THEN [tips EXCEPT ![r]["session"] = HeadOf(r)] ELSE tips
        /\ branch' = [branch EXCEPT ![r] = "session"]
        /\ UNCHANGED << wt, stash, remote, log >>
        /\ IF LeftBehind(r) THEN Forgive(r) ELSE UNCHANGED due
    BY <1>4, <2>1 DEF ToSession
  <2>3. tips \in [Repo -> [Branch -> Commits \cup {NoCommit}]] /\ branch \in [Repo -> Branch]
        /\ "session" \in Branch
    BY DEF Typed, RepoTypes, Branch
  <2>4. \A q \in Repo \ {r} : HeadOf(q)' = HeadOf(q)
    BY <2>2, <2>3 DEF HeadOf
  <2>5. tips[r]["session"] = NoCommit => due' = due /\ HeadOf(r)' = HeadOf(r)
    BY <2>2, <2>3 DEF HeadOf, LeftBehind
  <2>6. tips[r]["session"] # NoCommit => Forgive(r) \/ (due' = due /\ HeadOf(r)' = HeadOf(r))
    BY <2>2, <2>3 DEF HeadOf, LeftBehind
  <2> QED
    BY <2>2, <2>4, <2>5, <2>6, SwitchKeeps
<1>5. CASE Commit(h)
  <2>1. Cur(h) \in Repo
    BY <1>5, CurType DEF Commit, At
  <2>2. Files(h) \in SUBSET Work
    BY <2>1 DEF Typed, RepoTypes, Files
  <2>3. NewCommit(Cur(h), Files(h), Links(h)) /\ UNCHANGED << stash, branch, remote, due >>
    BY <1>5 DEF Commit, Quiet, story
  <2> QED
    BY <2>1, <2>2, <2>3, CommitKeeps
<1>6. CASE Push(h) \/ PushUnheard(h)
  <2>1. Cur(h) \in Repo
    BY <1>6, CurType DEF Push, PushUnheard, At
  <2>2. remote' = [remote EXCEPT ![Cur(h)] = @ \cup Past(HeadOf(Cur(h)))]
        /\ UNCHANGED << wt, stash, branch, tips, log, due >>
    BY <1>6 DEF Push, PushUnheard, Quiet, Faulty, story
  <2> QED
    BY <2>1, <2>2, PushKeeps
<1>7. CASE AnswerStash(h)
  BY <1>7, StashKeeps
<1> QED
  BY <1>1, <1>2, <1>3, <1>4, <1>5, <1>6, <1>7, <1>8 DEF Works

LEMMA OthersKeep ==
    ASSUME Typed, Findable, NEW r \in Repo, Others(r)
    PROVE  Keeps
<1>1. CASE Edit(r)
  BY <1>1, EditKeeps
<1>2. CASE UserCommit(r)
  <2>1. wt[r] \in SUBSET Work
    BY DEF Typed, RepoTypes
  <2> QED
    BY <1>2, <2>1, CommitKeeps DEF UserCommit
<1>3. CASE Conflict(r) \/ Resolve(r)
  <2>1. UNCHANGED << wt, stash, branch, tips, remote, log, due >>
    BY <1>3 DEF Conflict, Resolve
  <2> QED
    BY <2>1, QuietKeeps
<1>4. ASSUME NEW b \in Branch, UserSwitch(r, b) \/ UserBranch(r, b) PROVE Keeps
  <2>1. tips \in [Repo -> [Branch -> Commits \cup {NoCommit}]] /\ branch \in [Repo -> Branch]
    BY DEF Typed, RepoTypes
  <2>2. \A q \in Repo \ {r} : HeadOf(q)' = HeadOf(q)
    BY <1>4, <2>1 DEF UserSwitch, UserBranch, HeadOf
  <2>3. Forgive(r) /\ UNCHANGED << wt, stash, remote, log >>
    BY <1>4 DEF UserSwitch, UserBranch
  <2> QED
    BY <2>2, <2>3, SwitchKeeps
<1> QED
  BY <1>1, <1>2, <1>3, <1>4 DEF Others

LEMMA StepKeeps == ASSUME Typed, Findable, [Next]_vars PROVE Keeps
<1>a. due \in [Hook -> [Repo -> SUBSET Work]] /\ pc \in [Hook -> {"idle", "read", "truncate",
          "write", "probe", "count", "place", "commit", "push"}]
  BY DEF Typed, HookTypes
<1>1. CASE UNCHANGED vars
  <2>1. UNCHANGED << wt, stash, branch, tips, remote, log, due >>
    BY <1>1 DEF vars, repos, story
  <2> QED
    BY <2>1, QuietKeeps
<1>2. ASSUME NEW r \in Repo, Others(r) PROVE Keeps
  BY <1>2, OthersKeep
<1>3. ASSUME NEW h \in Hook, Works(h) PROVE Keeps
  BY <1>3, WorksKeeps
<1>4. ASSUME NEW h \in Hook, NEW k \in Calls, NEW r \in Repo, Begin(h, k, r) PROVE Keeps
  <2>1. UNCHANGED << wt, stash, branch, tips, remote, log >> /\ due' = [due EXCEPT ![h] = Owed]
        /\ pc' = [pc EXCEPT ![h] = "read"]
    BY <1>4 DEF Begin, repos
  <2>2. \A g \in Hook : due'[g] = due[g] \/ (pc'[g] = "read" /\ due'[g] = Owed)
    BY <1>a, <2>1
  <2> QED
    BY <2>1, <2>2, QuietKeeps
<1>5. ASSUME NEW h \in Hook, BeginStop(h) PROVE Keeps
  <2>1. UNCHANGED << wt, stash, branch, tips, remote, log >> /\ due' = [due EXCEPT ![h] = Owed]
        /\ pc' = [pc EXCEPT ![h] = "read"]
    BY <1>5 DEF BeginStop, repos
  <2>2. \A g \in Hook : due'[g] = due[g] \/ (pc'[g] = "read" /\ due'[g] = Owed)
    BY <1>a, <2>1
  <2> QED
    BY <2>1, <2>2, QuietKeeps
<1> QED
  BY <1>1, <1>2, <1>3, <1>4, <1>5 DEF Next

Busy == {"probe", "count", "place", "commit", "push"}

\* Only a tool call records what it touches.
Recording(h) == pc[h] \in {"truncate", "write"} => kind[h] # "stop"

\* A hook past its probe is at a repository, and goes down from it no more.
Queued(h) == pc[h] \in Busy \ {"probe"} => todo[h] # << >> /\ Down(h) = 0

\* Of the work it answers for, what stands in the tree of its repository was
\* found by its probe, and none stands there when it pushes.
Decided(h) ==
    /\ pc[h] \in {"count", "place", "commit"} =>
          due[h][Cur(h)] \cap wt[Cur(h)] \subseteq found[h].work
    /\ pc[h] = "push" => due[h][Cur(h)] \cap wt[Cur(h)] = {}

\* What the visits still to make may reach.
Covers(v) == IF v.down > 0 THEN Beneath(v.repo) ELSE {v.repo}
Pending(h) == UNION {Covers(v) : v \in Range(todo[h])}

\* The work of a repository it is done with is safe, or it reports a failure.
Accounted(h) ==
    pc[h] \in Busy => \A r \in Reach(h) \ (failed[h] \cup missed[h] \cup Pending(h)) :
                          due[h][r] \subseteq Safe(r)

Sound(h) == Recording(h) /\ Queued(h) /\ Decided(h) /\ Accounted(h)
Account == Typed /\ Findable /\ \A h \in Hook : Sound(h)

LEMMA ReachType == ASSUME NEW h PROVE Reach(h) \subseteq Repo
BY DEF Reach, Beneath

\* What a hook knows of itself.
Own(g) == << pc[g], kind[g], root[g], seen[g], todo[g], found[g], failed[g], missed[g] >>

\* A step of somebody else leaves a hook's account right.
LEMMA StandsStill ==
    ASSUME Typed, Keeps, NEW g \in Hook, Sound(g), Own(g)' = Own(g)
    PROVE  Sound(g)'
<1>1. /\ pc'[g] = pc[g] /\ kind'[g] = kind[g] /\ root'[g] = root[g] /\ seen'[g] = seen[g]
      /\ todo'[g] = todo[g] /\ found'[g] = found[g] /\ failed'[g] = failed[g]
      /\ missed'[g] = missed[g]
  BY DEF Own
<1>2. Recording(g)' /\ Queued(g)'
  BY <1>1 DEF Recording, Queued, Down, Sound
<1>3. Cur(g)' = Cur(g) /\ Reach(g)' = Reach(g) /\ Pending(g)' = Pending(g)
  BY <1>1 DEF Cur, Reach, Roots, Pending
<1>4. CASE pc[g] \in Busy
  <2>1. pc'[g] # "read"
    BY <1>1, <1>4 DEF Busy
  <2>2. \A r \in Repo : due'[g][r] \subseteq due[g][r] /\ due'[g][r] \cap wt'[r] \subseteq wt[r]
                        /\ Safe(r) \subseteq Safe(r)'
    BY <2>1 DEF Keeps
  <2>3. Accounted(g)'
    <3>1. Reach(g) \subseteq Repo
      BY ReachType
    <3> QED
      BY <1>1, <1>3, <1>4, <2>2, <3>1 DEF Accounted, Sound
  <2>4. Decided(g)'
    <3>1. CASE pc[g] = "probe"
      BY <1>1, <3>1 DEF Decided
    <3>2. CASE pc[g] # "probe"
      <4>1. Cur(g) \in Repo
        BY <1>4, <3>2, CurType DEF Queued, Sound
      <4>2. due'[g][Cur(g)] \cap wt'[Cur(g)] \subseteq due[g][Cur(g)] \cap wt[Cur(g)]
        BY <2>2, <4>1
      <4>3. (pc[g] \in {"count", "place", "commit"} =>
                due'[g][Cur(g)] \cap wt'[Cur(g)] \subseteq found'[g].work)
            /\ (pc[g] = "push" => due'[g][Cur(g)] \cap wt'[Cur(g)] = {})
        BY <1>1, <4>2 DEF Decided, Sound
      <4> QED
        BY <1>1, <1>3, <4>3 DEF Decided
    <3> QED
      BY <3>1, <3>2
  <2> QED
    BY <1>2, <2>3, <2>4 DEF Sound
<1>5. CASE pc[g] \notin Busy
  <2>1. Decided(g)' /\ Accounted(g)'
    BY <1>1, <1>5 DEF Decided, Accounted, Busy
  <2> QED
    BY <1>2, <2>1 DEF Sound
<1> QED
  BY <1>4, <1>5

\* A hook that goes on with its repository.
LEMMA GoesOn ==
    ASSUME Typed, Keeps, NEW h \in Hook, Sound(h), pc[h] \in Busy, todo[h] # << >>, Down(h) = 0,
           NEW step \in Busy \ {"probe"}, pc' = [pc EXCEPT ![h] = step],
           UNCHANGED << kind, root, seen, todo, failed, missed >>,
           step \in {"count", "place", "commit"} =>
              due'[h][Cur(h)] \cap wt'[Cur(h)] \subseteq found'[h].work,
           step = "push" => due'[h][Cur(h)] \cap wt'[Cur(h)] = {}
    PROVE  Sound(h)'
<1>1. pc'[h] = step /\ Cur(h)' = Cur(h) /\ Reach(h)' = Reach(h) /\ Pending(h)' = Pending(h)
  BY DEF Typed, HookTypes, Cur, Reach, Roots, Pending
<1>2. Recording(h)' /\ Queued(h)' /\ Decided(h)'
  BY <1>1 DEF Recording, Queued, Down, Decided, Busy
<1>3. Accounted(h)'
  <2>1. Reach(h) \subseteq Repo
    BY ReachType
  <2>2. \A r \in Repo : due'[h][r] \subseteq due[h][r] /\ Safe(r) \subseteq Safe(r)'
    BY <1>1 DEF Keeps, Busy
  <2> QED
    BY <1>1, <2>1, <2>2 DEF Accounted, Sound
<1> QED
  BY <1>2, <1>3 DEF Sound

\* A hook that leaves its repository, with a failure or with its work safe.
LEMMA Leaves ==
    ASSUME Typed, Keeps, NEW h \in Hook, Sound(h), pc[h] \in Busy, todo[h] # << >>, Down(h) = 0,
           UNCHANGED << kind, root, seen >>, NEW q \in Repo, q = Cur(h),
           Fail(h) \/ (Done(h) /\ due'[h][q] \subseteq Safe(q)')
    PROVE  Sound(h)'
<1>1. /\ pc' = [pc EXCEPT ![h] = "probe"] /\ todo' = [todo EXCEPT ![h] = Tail(todo[h])]
      /\ missed' = [missed EXCEPT ![h] = missed[h] \ {q}]
  BY DEF Fail, Done, Leave, Typed, HookTypes
<1>2. pc'[h] = "probe" /\ todo'[h] = Tail(todo[h]) /\ Reach(h)' = Reach(h)
  BY <1>1 DEF Typed, HookTypes, Reach, Roots
<1>3. Recording(h)' /\ Queued(h)' /\ Decided(h)'
  BY <1>2 DEF Recording, Queued, Decided, Busy
<1>4. /\ failed'[h] = failed[h] \cup {q} \/ (failed' = failed /\ due'[h][q] \subseteq Safe(q)')
      /\ missed'[h] = missed[h] \ {q}
  BY <1>1 DEF Fail, Done, Leave, Typed, HookTypes
<1>5. Pending(h) \subseteq {q} \cup Pending(h)'
  <2>1. Range(todo[h]) \subseteq {Head(todo[h])} \cup Range(todo'[h])
    BY <1>2, CurType
  <2>2. Covers(Head(todo[h])) = {q}
    BY DEF Covers, Cur, Down
  <2> QED
    BY <2>1, <2>2 DEF Pending
<1>6. \A r \in Repo : due'[h][r] \subseteq due[h][r] /\ Safe(r) \subseteq Safe(r)'
  BY <1>2 DEF Keeps
<1>7. \A r \in Reach(h) \ (failed'[h] \cup missed'[h] \cup Pending(h)') : due'[h][r] \subseteq Safe(r)'
  <2> SUFFICES ASSUME NEW r \in Reach(h), r \notin failed'[h], r \notin missed'[h], r \notin Pending(h)'
               PROVE  due'[h][r] \subseteq Safe(r)'
    OBVIOUS
  <2>1. r \in Repo
    BY ReachType
  <2>2. CASE r = q
    BY <1>4, <2>2
  <2>3. CASE r # q
    <3>1. r \notin failed[h] /\ r \notin missed[h] /\ r \notin Pending(h)
      BY <1>4, <1>5, <2>3
    <3>2. due[h][r] \subseteq Safe(r)
      BY <3>1 DEF Accounted, Sound
    <3> QED
      BY <1>6, <2>1, <3>2
  <2> QED
    BY <2>2, <2>3
<1>8. Accounted(h)'
  BY <1>2, <1>7 DEF Accounted
<1> QED
  BY <1>3, <1>8 DEF Sound

\* A hook that goes down from a repository: what it may reach is still to visit
\* or passed over.
LEMMA EnterSound ==
    ASSUME Typed, Keeps, NEW h \in Hook, Sound(h), NEW subs \in Seq(Repo), Enter(h, subs),
           Range(subs) \subseteq SubsOf(Cur(h)), Down(h) > 1 \/ subs = << >>,
           UNCHANGED << kind, root, seen >>
    PROVE  Sound(h)'
<1> PICK old \in Seq(Visits) : old = todo[h] /\ old # << >>
  BY DEF Enter, At, Typed, HookTypes
<1> PICK r \in Repo : r = Cur(h)
  BY CurType DEF Enter, At
<1>0. Down(h) \in Nat /\ Down(h) > 0 /\ Down(h) - 1 \in Nat /\ pc[h] = "probe"
  BY CurType DEF Enter, At
<1>1. /\ pc'[h] = "probe" /\ todo'[h] = Grown(old, subs, Down(h) - 1)
      /\ failed' = failed /\ Reach(h)' = Reach(h)
      /\ missed'[h] = missed[h] \cup UNION {Beneath(s) : s \in SubsOf(r) \ Range(subs)}
  BY DEF Enter, At, Grown, Cur, Typed, HookTypes, Reach, Roots
<1> PICK new \in Seq(Visits) : new = todo'[h]
  BY <1>0, <1>1, QueueGrows
<1>2. /\ Len(new) = Len(subs) + Len(old)
      /\ \A i \in 1 .. Len(subs) : new[i] = Visit(subs[i], Down(h) - 1)
      /\ new[Len(subs) + 1] = Visit(r, 0)
      /\ \A i \in 2 .. Len(old) : new[Len(subs) + i] = old[i]
  <2>1. Head(old).repo = r /\ new = Grown(old, subs, Down(h) - 1)
    BY <1>1 DEF Cur
  <2> PICK d \in Nat : d = Down(h) - 1
    BY <1>0
  <2>2. new = Grown(old, subs, d)
    BY <2>1
  <2>3. /\ Len(Grown(old, subs, d)) = Len(subs) + Len(old)
        /\ \A i \in 1 .. Len(subs) : Grown(old, subs, d)[i] = Visit(subs[i], d)
        /\ Grown(old, subs, d)[Len(subs) + 1] = Visit(Head(old).repo, 0)
        /\ \A i \in 2 .. Len(old) : Grown(old, subs, d)[Len(subs) + i] = old[i]
    BY QueueGrows
  <2>4. /\ Len(new) = Len(subs) + Len(old)
        /\ \A i \in 1 .. Len(subs) : new[i] = Visit(subs[i], d)
        /\ new[Len(subs) + 1] = Visit(r, 0)
        /\ \A i \in 2 .. Len(old) : new[Len(subs) + i] = old[i]
    BY <2>1, <2>2, <2>3, Zenon
  <2> QED
    BY <2>4
<1>3. Len(old) \in Nat /\ Len(old) > 0 /\ DOMAIN old = 1 .. Len(old) /\ old[1] = Head(old)
      /\ Len(subs) \in Nat /\ DOMAIN subs = 1 .. Len(subs) /\ DOMAIN new = 1 .. Len(new)
  OBVIOUS
<1>4. Visit(r, 0) \in Range(new)
  <2>1. Len(subs) + 1 \in DOMAIN new
    BY <1>2, <1>3
  <2> QED
    BY <1>2, <2>1 DEF Range
<1>5. \A i \in 2 .. Len(old) : old[i] \in Range(new)
  <2> SUFFICES ASSUME NEW i \in 2 .. Len(old) PROVE old[i] \in Range(new)
    OBVIOUS
  <2>1. Len(subs) + i \in DOMAIN new /\ new[Len(subs) + i] = old[i]
    BY <1>2, <1>3
  <2> QED
    BY <2>1 DEF Range
<1>6. \A s \in Range(subs) : Visit(s, Down(h) - 1) \in Range(new)
  <2> SUFFICES ASSUME NEW i \in 1 .. Len(subs) PROVE Visit(subs[i], Down(h) - 1) \in Range(new)
    BY <1>3 DEF Range
  <2>1. i \in DOMAIN new /\ new[i] = Visit(subs[i], Down(h) - 1)
    BY <1>2, <1>3
  <2> QED
    BY <2>1 DEF Range
<1>7. \A s \in Range(subs) : Covers(Visit(s, Down(h) - 1)) = Beneath(s)
  <2>1. subs = << >> => Range(subs) = {}
    BY <1>3 DEF Range
  <2>2. Down(h) > 1 => Down(h) - 1 > 0
    BY <1>0
  <2> QED
    BY <2>1, <2>2 DEF Covers, Visit
<1>8. Beneath(r) \subseteq Pending(h)' \cup missed'[h]
  <2> SUFFICES ASSUME NEW q \in Beneath(r) PROVE q \in Pending(h)' \cup missed'[h]
    OBVIOUS
  <2>1. CASE q = r
    BY <1>4, <2>1 DEF Pending, Covers, Visit
  <2>2. ASSUME NEW s \in SubsOf(r), q \in Beneath(s) PROVE q \in Pending(h)' \cup missed'[h]
    <3>1. CASE s \in Range(subs)
      BY <1>6, <1>7, <2>2, <3>1 DEF Pending
    <3>2. CASE s \notin Range(subs)
      BY <1>1, <2>2, <3>2
    <3> QED
      BY <3>1, <3>2
  <2> QED
    BY <2>1, <2>2, BeneathParts
<1>9. Pending(h) \subseteq Pending(h)' \cup missed'[h]
  <2> SUFFICES ASSUME NEW i \in 1 .. Len(old) PROVE Covers(old[i]) \subseteq Pending(h)' \cup missed'[h]
    BY <1>3 DEF Pending, Range
  <2>1. CASE i = 1
    BY <1>0, <1>3, <1>8, <2>1 DEF Covers, Cur, Down
  <2>2. CASE i # 1
    BY <1>5, <2>2 DEF Pending
  <2> QED
    BY <2>1, <2>2
<1>10. missed[h] \subseteq missed'[h]
  BY <1>1
<1>11. \A q \in Repo : due'[h][q] \subseteq due[h][q] /\ Safe(q) \subseteq Safe(q)'
  BY <1>1 DEF Keeps
<1>12. Accounted(h)'
  <2> SUFFICES ASSUME NEW q \in Reach(h), q \notin failed[h], q \notin missed'[h], q \notin Pending(h)'
               PROVE  due'[h][q] \subseteq Safe(q)'
    BY <1>1 DEF Accounted
  <2>1. q \notin missed[h] /\ q \notin Pending(h) /\ q \in Repo
    BY <1>9, <1>10, ReachType
  <2>2. due[h][q] \subseteq Safe(q)
    BY <1>0, <2>1 DEF Accounted, Sound, Busy
  <2> QED
    BY <1>11, <2>1, <2>2
<1>13. Recording(h)' /\ Queued(h)' /\ Decided(h)'
  BY <1>1 DEF Recording, Queued, Decided, Busy
<1> QED
  BY <1>12, <1>13 DEF Sound

LEMMA IdleSound ==
    ASSUME NEW h \in Hook, pc'[h] \in {"idle", "read"}
    PROVE  Sound(h)'
BY DEF Sound, Recording, Queued, Decided, Accounted, Busy

\* A hook's walk begins with every repository it may reach still to visit.
LEMMA WalkBegins ==
    ASSUME NEW h \in Hook, pc'[h] = "probe", Reach(h)' \subseteq Pending(h)'
    PROVE  Sound(h)'
<1>1. Recording(h)' /\ Queued(h)' /\ Decided(h)'
  BY DEF Recording, Queued, Decided
<1>2. Accounted(h)'
  BY DEF Accounted
<1> QED
  BY <1>1, <1>2 DEF Sound

LEMMA CallCovers == ASSUME NEW r PROVE Covers(Call(r)) = Beneath(r)
<1>1. MaxDepth + 1 > 0
  BY ConstantsAssumption
<1> QED
  BY <1>1 DEF Covers, Call, Visit

LEMMA RecordedSound ==
    ASSUME Typed, NEW h \in Hook, kind[h] # "stop", Recorded(h)
    PROVE  Sound(h)'
<1>1. pc \in [Hook -> {"idle", "read", "truncate", "write", "probe", "count", "place",
                        "commit", "push"}] /\ todo \in [Hook -> Seq(Visits)]
  BY DEF Typed, HookTypes
<1>2. CASE kind[h] = "record"
  <2>1. pc'[h] = "idle"
    BY <1>1, <1>2 DEF Recorded, Gone
  <2> QED
    BY <2>1, IdleSound
<1>3. CASE kind[h] # "record"
  <2>1. pc'[h] = "probe" /\ todo'[h] = << Call(root[h]) >> /\ kind' = kind /\ root' = root
    BY <1>1, <1>3 DEF Recorded
  <2>2. Reach(h)' = Beneath(root[h])
    BY <1>3, <2>1 DEF Reach, Roots
  <2>3. Call(root[h]) \in Range(todo'[h])
    BY <2>1 DEF Range
  <2> QED
    BY <2>1, <2>2, <2>3, CallCovers, WalkBegins DEF Pending
<1> QED
  BY <1>2, <1>3

\* Steps of a hook before its walk and after it.
LEMMA EdgeSound ==
    ASSUME Typed, NEW h \in Hook, Sound(h),
           ReadList(h) \/ TruncateList(h) \/ WriteList(h) \/ StopReads(h) \/ Answer(h)
           \/ AnswerStash(h) \/ AnswerStop(h)
    PROVE  Sound(h)'
<1>0. /\ pc \in [Hook -> {"idle", "read", "truncate", "write", "probe", "count", "place",
                           "commit", "push"}]
      /\ todo \in [Hook -> Seq(Visits)] /\ seen \in [Hook -> Seq(Repo)] /\ list \in Seq(Repo)
  BY DEF Typed, HookTypes
<1>1. CASE ReadList(h)
  <2>1. kind[h] # "stop"
    BY <1>1 DEF ReadList
  <2>2. CASE Recorded(h)
    BY <2>1, <2>2, RecordedSound
  <2>3. CASE ~Recorded(h)
    <3>1. pc'[h] = "truncate" /\ kind' = kind
      BY <1>0, <1>1, <2>3 DEF ReadList
    <3> QED
      BY <2>1, <3>1 DEF Sound, Recording, Queued, Decided, Accounted, Busy
  <2> QED
    BY <2>2, <2>3
<1>2. CASE TruncateList(h)
  <2>1. pc[h] = "truncate" /\ pc'[h] = "write" /\ kind' = kind
    BY <1>0, <1>2 DEF TruncateList
  <2> QED
    BY <2>1 DEF Sound, Recording, Queued, Decided, Accounted, Busy
<1>3. CASE WriteList(h)
  <2>1. kind[h] # "stop" /\ Recorded(h)
    BY <1>3 DEF WriteList, Sound, Recording
  <2> QED
    BY <2>1, RecordedSound
<1>4. CASE StopReads(h)
  <2>1. /\ seen' = [seen EXCEPT ![h] = list] /\ kind' = kind /\ kind[h] = "stop"
        /\ todo' = [todo EXCEPT ![h] = [i \in DOMAIN list |-> Call(list[i])]]
        /\ pc' = [pc EXCEPT ![h] = "probe"]
    BY <1>4 DEF StopReads
  <2>2. /\ seen'[h] = list /\ kind'[h] = "stop" /\ pc'[h] = "probe"
        /\ todo'[h] = [i \in DOMAIN list |-> Call(list[i])]
    BY <1>0, <2>1
  <2>3. Reach(h)' = UNION {Beneath(list[i]) : i \in DOMAIN list}
    BY <2>2 DEF Reach, Roots, Range
  <2>4. \A i \in DOMAIN list : Call(list[i]) \in Range(todo'[h])
    BY <2>2 DEF Range
  <2>5. Reach(h)' \subseteq Pending(h)'
    BY <2>3, <2>4, CallCovers DEF Pending
  <2> QED
    BY <2>2, <2>5, WalkBegins
<1>5. CASE Answer(h) \/ AnswerStash(h) \/ AnswerStop(h)
  <2>1. pc'[h] = "idle"
    BY <1>0, <1>5 DEF Answer, AnswerStash, AnswerStop, Gone
  <2> QED
    BY <2>1, IdleSound
<1> QED
  BY <1>1, <1>2, <1>3, <1>4, <1>5

\* What stands in no working tree and on HEAD is safe once HEAD is pushed.
LEMMA PushedIsSafe ==
    ASSUME Typed, Findable, NEW h \in Hook, NEW r \in Repo, due[h][r] \cap wt[r] = {},
           Past(HeadOf(r)) \subseteq remote[r]
    PROVE  due[h][r] \subseteq Safe(r)
<1>1. WorkIn(Past(HeadOf(r))) \subseteq WorkIn(remote[r])
  BY DEF WorkIn
<1> QED
  BY <1>1 DEF Findable, Held, Safe

\* The decision over the probe's answer.
LEMMA JudgeSound ==
    ASSUME Typed, Findable, Keeps, NEW h \in Hook, Sound(h), pc[h] = "count", todo[h] # << >>,
           UNCHANGED << wt, stash, remote, log, kind, root, seen >>,
           NEW ahead, Judge(h, ahead), NEW r \in Repo, r = Cur(h),
           \/ ahead = Ahead(r)
           \/ due'[h][r] \subseteq wt[r]
    PROVE  Sound(h)'
<1>0. /\ pc \in [Hook -> {"idle", "read", "truncate", "write", "probe", "count", "place",
                           "commit", "push"}]
      /\ tracking[r] \subseteq remote[r]
  BY DEF Typed, HookTypes, RepoTypes
<1>1. pc[h] \in Busy /\ Down(h) = 0
  BY DEF Busy, Sound, Queued
<1>2. pc'[h] # "read" /\ (Goto(h, "place") \/ Fail(h) \/ Done(h))
  BY <1>0 DEF Judge, Goto, Fail, Done, Leave
<1>3. due'[h][r] \subseteq due[h][r] /\ due'[h][r] \cap wt'[r] \subseteq due[h][r] \cap wt[r]
  BY <1>2 DEF Keeps
<1>4. due[h][r] \cap wt[r] \subseteq found[h].work
  BY DEF Sound, Decided
<1>5. CASE Goto(h, "place")
  <2>1. pc' = [pc EXCEPT ![h] = "place"] /\ UNCHANGED << todo, found, failed, missed >> /\ "place" \in Busy \ {"probe"}
    BY <1>5 DEF Goto, Busy
  <2>2. due'[h][Cur(h)] \cap wt'[Cur(h)] \subseteq found'[h].work
    BY <1>3, <1>4, <2>1
  <2> QED
    BY <1>1, <2>1, <2>2, GoesOn
<1>6. CASE Fail(h)
  BY <1>1, <1>6, Leaves
<1>7. CASE Done(h) /\ ~Fail(h) /\ ~Goto(h, "place")
  <2>1. found[h].work = {} /\ ~ahead
    BY <1>7 DEF Judge
  <2>2. due'[h][r] \subseteq Safe(r)
    <3>1. CASE ahead = Ahead(r)
      <4>1. Past(HeadOf(r)) \subseteq remote[r]
        BY <1>0, <2>1, <3>1 DEF Ahead
      <4> QED
        BY <1>3, <1>4, <2>1, <4>1, PushedIsSafe
    <3>2. CASE due'[h][r] \subseteq wt[r]
      BY <1>3, <1>4, <2>1, <3>2
    <3> QED
      BY <3>1, <3>2
  <2>3. due'[h][r] \subseteq Safe(r)'
    BY <2>2, <1>2 DEF Keeps
  <2> QED
    BY <1>1, <1>7, <2>3, Leaves
<1> QED
  BY <1>2, <1>5, <1>6, <1>7

\* Steps of a hook on its way through a repository.
LEMMA WaySound ==
    ASSUME Typed, Findable, Keeps, NEW h \in Hook, Sound(h),
           \/ Probe(h) \/ ProbeFails(h) \/ Count(h) \/ CountFails(h) \/ NoOrigin(h)
           \/ \E t \in Reading : Stay(h, t) \/ ToSession(h, t) \/ SwitchFails(h, t)
    PROVE  Sound(h)'
<1>0. /\ pc \in [Hook -> {"idle", "read", "truncate", "write", "probe", "count", "place",
                           "commit", "push"}]
      /\ found \in [Hook -> [work : SUBSET Work, subs : SUBSET Repo, conflict : BOOLEAN]]
      /\ due \in [Hook -> [Repo -> SUBSET Work]]
  BY DEF Typed, HookTypes
<1>1. todo[h] # << >> /\ pc[h] \in {"probe", "count", "place"}
  BY DEF Probe, ProbeFails, Count, CountFails, NoOrigin, Stay, ToSession, SwitchFails, At
<1>2. PICK r \in Repo : r = Cur(h)
  BY <1>1, CurType
<1>3. pc[h] \in Busy /\ Down(h) = 0
  BY <1>1 DEF Busy, Sound, Queued, Probe, ProbeFails, Count, CountFails, NoOrigin, Stay, ToSession,
              SwitchFails, At
<1>4. CASE Probe(h)
  <2>1. /\ pc' = [pc EXCEPT ![h] = "count"] /\ UNCHANGED << wt, todo, failed, missed, kind, root, seen >>
        /\ found' = [found EXCEPT ![h] =
             [work |-> wt[r], subs |-> Moved(r) \cup {s \in SubsOf(r) : Dirty[s]},
              conflict |-> conflict[r]]]
    BY <1>2, <1>4 DEF Probe, Quiet, repos
  <2>2. found'[h].work = wt[r] /\ "count" \in Busy \ {"probe"}
    BY <1>0, <2>1 DEF Busy
  <2>3. due'[h][Cur(h)] \cap wt'[Cur(h)] \subseteq found'[h].work
    BY <1>2, <2>1, <2>2
  <2> QED
    BY <1>1, <1>3, <2>1, <2>2, <2>3, GoesOn
<1>5. CASE ProbeFails(h) \/ NoOrigin(h) \/ \E t \in Reading : SwitchFails(h, t)
  <2>1. Fail(h) /\ UNCHANGED << kind, root, seen >>
    BY <1>5 DEF ProbeFails, NoOrigin, SwitchFails, Faulty
  <2> QED
    BY <1>1, <1>2, <1>3, <2>1, Leaves
<1>6. CASE Count(h)
  <2>1. pc[h] = "count" /\ Judge(h, Ahead(r)) /\ UNCHANGED << wt, stash, remote, log, kind, root, seen >>
    BY <1>2, <1>6 DEF Count, At, Quiet, repos
  <2> QED
    BY <1>1, <1>2, <2>1, JudgeSound
<1>7. CASE CountFails(h)
  <2>1. /\ pc[h] = "count" /\ Judge(h, FALSE)
        /\ UNCHANGED << wt, stash, remote, log, kind, root, seen >>
        /\ due' = [due EXCEPT ![h][r] = @ \cap wt[r]]
    BY <1>2, <1>7 DEF CountFails, At, repos
  <2>2. due'[h][r] \subseteq wt[r]
    BY <1>0, <2>1
  <2> QED
    BY <1>1, <1>2, <2>1, <2>2, JudgeSound
<1>8. ASSUME NEW t \in Reading, Stay(h, t) \/ ToSession(h, t) PROVE Sound(h)'
  <2>1. /\ pc[h] = "place" /\ Onward(h) /\ UNCHANGED << wt, kind, root, seen >>
    BY <1>8 DEF Stay, ToSession, At, repos
  <2>2. PICK step \in {"push", "commit"} :
            /\ step = (IF found[h].work = {} /\ found[h].subs = {} THEN "push" ELSE "commit")
            /\ pc' = [pc EXCEPT ![h] = step] /\ UNCHANGED << todo, found, failed, missed >>
    BY <2>1 DEF Onward, Goto
  <2>3. pc'[h] # "read" /\ step \in Busy \ {"probe"}
    BY <1>0, <2>2 DEF Busy
  <2>4. due'[h][r] \cap wt'[r] \subseteq due[h][r] \cap wt[r]
    BY <2>3 DEF Keeps
  <2>5. due[h][r] \cap wt[r] \subseteq found[h].work
    BY <1>2, <2>1 DEF Sound, Decided
  <2>6. due'[h][r] \cap wt'[r] \subseteq found'[h].work
    BY <2>2, <2>4, <2>5
  <2>7. step = "push" => due'[h][r] \cap wt'[r] = {}
    BY <2>2, <2>4, <2>5
  <2> QED
    BY <1>1, <1>2, <1>3, <2>1, <2>2, <2>3, <2>6, <2>7, GoesOn
<1> QED
  BY <1>4, <1>5, <1>6, <1>7, <1>8

\* Steps of a hook that commits and pushes.
LEMMA SavesSound ==
    ASSUME Typed, Findable, Keeps, NEW h \in Hook, Sound(h),
           Commit(h) \/ NoCommitMade(h) \/ CommitFails(h)
           \/ Push(h) \/ PushRefused(h) \/ PushUnheard(h)
    PROVE  Sound(h)'
<1>0. /\ pc \in [Hook -> {"idle", "read", "truncate", "write", "probe", "count", "place",
                           "commit", "push"}]
      /\ wt \in [Repo -> SUBSET Work] /\ remote \in [Repo -> SUBSET Commits]
  BY DEF Typed, HookTypes, RepoTypes
<1>1. todo[h] # << >> /\ pc[h] \in {"commit", "push"}
  BY DEF Commit, NoCommitMade, CommitFails, Push, PushRefused, PushUnheard, At
<1>2. PICK r \in Repo : r = Cur(h)
  BY <1>1, CurType
<1>3. pc[h] \in Busy /\ "push" \in Busy \ {"probe"} /\ Down(h) = 0
  BY <1>1 DEF Busy, Sound, Queued
<1>4. CASE Commit(h)
  <2>1. /\ pc[h] = "commit" /\ pc' = [pc EXCEPT ![h] = "push"] /\ UNCHANGED << todo, found, failed, missed, kind, root, seen, due >>
        /\ wt' = [wt EXCEPT ![r] = @ \ Files(h)] /\ Files(h) = found[h].work \cap wt[r]
    BY <1>2, <1>4 DEF Commit, At, Goto, Quiet, NewCommit, Files, story
  <2>2. due[h][r] \cap wt[r] \subseteq found[h].work
    BY <1>2, <2>1 DEF Sound, Decided
  <2>3. due'[h][r] \cap wt'[r] = {}
    BY <1>0, <2>1, <2>2
  <2> QED
    BY <1>1, <1>2, <1>3, <2>1, <2>3, GoesOn
<1>5. CASE NoCommitMade(h) \/ CommitFails(h)
  <2>1. /\ Fail(h) \/ (~Dirty[r] /\ Goto(h, "push"))
        /\ UNCHANGED << wt, kind, root, seen, due >>
    BY <1>2, <1>5 DEF NoCommitMade, CommitFails, Quiet, Faulty, repos, story
  <2>2. CASE Fail(h)
    BY <1>1, <1>2, <1>3, <2>1, <2>2, Leaves
  <2>3. CASE ~Dirty[r] /\ Goto(h, "push")
    <3>1. wt[r] = {}
      BY <2>3, DirtyHoldsWork
    <3>2. pc' = [pc EXCEPT ![h] = "push"] /\ UNCHANGED << todo, found, failed, missed >>
      BY <2>3 DEF Goto
    <3>3. due'[h][r] \cap wt'[r] = {}
      BY <2>1, <3>1
    <3> QED
      BY <1>1, <1>2, <1>3, <2>1, <3>2, <3>3, GoesOn
  <2> QED
    BY <2>1, <2>2, <2>3
<1>6. CASE Push(h)
  <2>1. /\ pc[h] = "push" /\ remote' = [remote EXCEPT ![r] = @ \cup Past(HeadOf(r))]
        /\ Done(h) /\ UNCHANGED << wt, stash, branch, tips, log, due, kind, root, seen >>
    BY <1>2, <1>6 DEF Push, At, Quiet, story
  <2>2. due[h][r] \cap wt[r] = {}
    BY <1>2, <2>1 DEF Sound, Decided
  <2>3. Past(HeadOf(r)) \cup remote[r] \subseteq remote'[r]
    BY <1>0, <2>1
  <2>4. WorkIn(Past(HeadOf(r))) \cup WorkIn(remote[r]) \cup stash[r] \subseteq Safe(r)'
    BY <2>1, <2>3 DEF WorkIn, Safe
  <2>5. due'[h][r] \subseteq Safe(r)'
    BY <2>1, <2>2, <2>4 DEF Findable, Held
  <2> QED
    BY <1>1, <1>2, <1>3, <2>1, <2>5, Leaves
<1>7. CASE PushRefused(h) \/ PushUnheard(h)
  <2>1. Fail(h) /\ UNCHANGED << kind, root, seen >>
    BY <1>7 DEF PushRefused, PushUnheard, Faulty
  <2> QED
    BY <1>1, <1>2, <1>3, <2>1, Leaves
<1> QED
  BY <1>4, <1>5, <1>6, <1>7

\* Steps of a hook that goes down from a repository.
LEMMA DescendSound ==
    ASSUME Typed, Keeps, NEW h \in Hook, Sound(h), Descend(h) \/ DescendBlind(h)
    PROVE  Sound(h)'
<1>1. Cur(h) \in Repo
  BY CurType DEF Descend, DescendBlind, Enter, At
<1>2. UNCHANGED << kind, root, seen >>
  BY DEF Descend, DescendBlind, Quiet, Faulty
<1>3. << >> \in Seq(Repo) /\ Range(<< >>) = {}
  BY DEF Range
<1>4. PICK subs \in Seq(Repo) :
          Enter(h, subs) /\ Range(subs) \subseteq SubsOf(Cur(h)) /\ (Down(h) > 1 \/ subs = << >>)
  BY <1>1, <1>3, ListedType DEF Descend, DescendBlind
<1> QED
  BY <1>2, <1>4, EnterSound

\* A hook's step is its own.
LEMMA WorksAlone ==
    ASSUME Typed, NEW h \in Hook, Works(h), NEW g \in Hook \ {h}
    PROVE  Own(g)' = Own(g)
<1> USE DEF Own
<1>0. HookTypes
  BY DEF Typed
<1>1. CASE ReadList(h) \/ TruncateList(h) \/ WriteList(h) \/ StopReads(h)
  BY <1>0, <1>1 DEF ReadList, TruncateList, WriteList, StopReads, Recorded, Gone, HookTypes
<1>2. CASE Probe(h) \/ ProbeFails(h) \/ Count(h) \/ CountFails(h) \/ NoOrigin(h)
  BY <1>0, <1>2 DEF Probe, ProbeFails, Count, CountFails, NoOrigin, Judge, Goto, Leave, Fail, Done,
     Quiet, Faulty, HookTypes
<1>3. ASSUME NEW t \in Reading, Stay(h, t) \/ ToSession(h, t) \/ SwitchFails(h, t) PROVE Own(g)' = Own(g)
  BY <1>0, <1>3 DEF Stay, ToSession, SwitchFails, Onward, Goto, Leave, Fail, Faulty, HookTypes
<1>7. CASE Descend(h) \/ DescendBlind(h)
  BY <1>0, <1>7 DEF Descend, DescendBlind, Enter, Quiet, Faulty, HookTypes
<1>4. CASE Commit(h) \/ NoCommitMade(h) \/ CommitFails(h)
  BY <1>0, <1>4 DEF Commit, NoCommitMade, CommitFails, Goto, Leave, Fail, Quiet, Faulty, HookTypes
<1>5. CASE Push(h) \/ PushRefused(h) \/ PushUnheard(h)
  BY <1>0, <1>5 DEF Push, PushRefused, PushUnheard, Leave, Fail, Done, Quiet, Faulty, HookTypes
<1>6. CASE Answer(h) \/ AnswerStash(h) \/ AnswerStop(h)
  BY <1>0, <1>6 DEF Answer, AnswerStash, AnswerStop, Gone, HookTypes
<1> QED
  BY <1>1, <1>2, <1>3, <1>4, <1>5, <1>6, <1>7 DEF Works

LEMMA AccountInit == ASSUME Init PROVE Account
<1>1. Typed
  BY TypedInit
<1>2. Findable
  BY DEF Init, Findable
<1>3. \A h \in Hook : Sound(h)
  BY DEF Init, Sound, Recording, Queued, Decided, Accounted, Busy
<1> QED
  BY <1>1, <1>2, <1>3 DEF Account

LEMMA AccountStep == ASSUME Account, [Next]_vars PROVE Account'
<1>1. Typed /\ Findable /\ \A h \in Hook : Sound(h)
  BY DEF Account
<1>2. Typed' /\ Keeps
  BY <1>1, TypedStep, StepKeeps
<1>3. Findable'
  BY <1>2 DEF Keeps
<1>4. ASSUME NEW g \in Hook PROVE Sound(g)'
  <2>1. CASE UNCHANGED vars
    <3>1. Own(g)' = Own(g)
      BY <2>1 DEF vars, hook, Own
    <3> QED
      BY <1>1, <1>2, <3>1, StandsStill
  <2>2. ASSUME NEW r \in Repo, Others(r) PROVE Sound(g)'
    <3>1. UNCHANGED << pc, kind, root, seen, todo, found, failed, missed >>
      BY <2>2 DEF Others, Edit, UserCommit, Conflict, Resolve, UserSwitch, UserBranch, hook
    <3>2. Own(g)' = Own(g)
      BY <3>1 DEF Own
    <3> QED
      BY <1>1, <1>2, <3>2, StandsStill
  <2>3. ASSUME NEW h \in Hook, NEW k \in Calls, NEW r \in Repo, Begin(h, k, r) PROVE Sound(g)'
    <3>1. CASE g = h
      <4>1. pc'[g] = "read"
        BY <1>1, <2>3, <3>1 DEF Begin, Typed, HookTypes
      <4> QED
        BY <4>1, IdleSound
    <3>2. CASE g # h
      <4>1. Own(g)' = Own(g)
        BY <1>1, <2>3, <3>2 DEF Begin, Typed, HookTypes, Own
      <4> QED
        BY <1>1, <1>2, <4>1, StandsStill
    <3> QED
      BY <3>1, <3>2
  <2>4. ASSUME NEW h \in Hook, BeginStop(h) PROVE Sound(g)'
    <3>1. CASE g = h
      <4>1. pc'[g] = "read"
        BY <1>1, <2>4, <3>1 DEF BeginStop, Typed, HookTypes
      <4> QED
        BY <4>1, IdleSound
    <3>2. CASE g # h
      <4>1. Own(g)' = Own(g)
        BY <1>1, <2>4, <3>2 DEF BeginStop, Typed, HookTypes, Own
      <4> QED
        BY <1>1, <1>2, <4>1, StandsStill
    <3> QED
      BY <3>1, <3>2
  <2>5. ASSUME NEW h \in Hook, Works(h) PROVE Sound(g)'
    <3>1. CASE g = h
      BY <1>1, <1>2, <2>5, <3>1, EdgeSound, DescendSound, WaySound, SavesSound DEF Works
    <3>2. CASE g # h
      BY <1>1, <1>2, <2>5, <3>2, WorksAlone, StandsStill
    <3> QED
      BY <3>1, <3>2
  <2> QED
    BY <2>1, <2>2, <2>3, <2>4, <2>5 DEF Next
<1> QED
  BY <1>2, <1>3, <1>4 DEF Account

\* When a hook answers, the work that stood when it began and that git showed it
\* is on the remote, in a stash or reported, in every repository it came to: for
\* any number of parallel hooks, whatever .gitmodules lists, whatever the session
\* and the user do between their steps and whatever fails or is misread.
THEOREM FoundWorkAlwaysPushed == Spec => []FoundWorkIsPushed
<1>1. Spec => []Account
  BY AccountInit, AccountStep, PTL DEF Spec
<1>2. Account => FoundWorkIsPushed
  <2> SUFFICES ASSUME Account, NEW h \in Hook, Over(h), NEW r \in Reach(h) \ (failed[h] \cup missed[h])
               PROVE  due[h][r] \subseteq WorkIn(remote[r]) \cup stash[r]
    BY DEF FoundWorkIsPushed, Kept
  <2>1. pc[h] \in Busy /\ Pending(h) = {}
    BY DEF Over, Busy, Range, Pending
  <2>2. Accounted(h)
    BY DEF Account, Sound
  <2> QED
    BY <2>1, <2>2 DEF Accounted, Safe
<1> QED
  BY <1>1, <1>2, PTL

-----------------------------------------------------------------------------
(* Gitlinks, when one hook runs at a time.                                  *)

Alone == \A g, h \in Hook : g = h

\* No repository is a submodule of itself.
Proper == \A r \in Repo : r \notin SubsOf(r)

\* What a hook is done with is on the remote as HEAD is, or it is excused.
Vouched(h, s) ==
    s \in failed[h] \cup disturbed[h] \cup missed[h] \/ Past(HeadOf(s)) \subseteq remote[s]

\* Before a repository that a hook goes down from no more come its submodules, or
\* the hook has seen to them or passed them over.
Prepared(h) ==
    pc[h] \in Busy =>
        \A i \in 1 .. Len(todo[h]) : todo[h][i].down > 0 \/
            \A s \in SubsOf(todo[h][i].repo) :
                (\E j \in 1 .. (i - 1) : todo[h][j].repo = s) \/ Vouched(h, s)

\* Of a repository nobody touched under the hook and whose session branch the
\* hook did not take up, the probe lists each submodule that moved, and none is
\* left where it was when the hook pushes.
Elsewhere(h) == Cur(h) \in disturbed[h] \/ branch[Cur(h)] = "session"
Linked(h) ==
    /\ pc[h] \in {"count", "place", "commit"} =>
          Elsewhere(h) \/ Moved(Cur(h)) \subseteq found[h].subs \cup disturbed[h]
    /\ pc[h] = "push" => Elsewhere(h) \/ Moved(Cur(h)) \subseteq disturbed[h]

\* A commit is part of its own history.
Whole == \A c \in 1 .. Len(log) : c \in log[c].past

Tied == Account /\ Whole /\ \A h \in Hook : Prepared(h) /\ Linked(h)

LEMMA NotOwnSub == ASSUME Proper, NEW r \in Repo PROVE r \notin SubsOf(r) /\ SubsOf(r) \subseteq Repo
BY SubsType DEF Proper

\* A hook goes on with the repository it is at.
LEMMA StaysPrepared ==
    ASSUME Proper, NEW h \in Hook, NEW r \in Repo, todo[h] \in Seq(Visits), todo[h] # << >>,
           r = Cur(h), Prepared(h), pc[h] \in Busy, todo'[h] = todo[h],
           \A s \in Repo \ {r} : Vouched(h, s) => Vouched(h, s)'
    PROVE  Prepared(h)'
<1> PICK q \in Seq(Visits) : q = todo[h] /\ q # << >>
  OBVIOUS
<1>1. q[1].repo = r /\ Len(q) \in Nat /\ \A i \in 1..Len(q) : q[i].repo \in Repo
  BY VisitParts DEF Cur
<1> SUFFICES ASSUME NEW i \in 1..Len(q), ~(q[i].down > 0), NEW s \in SubsOf(q[i].repo)
             PROVE  (\E j \in 1..(i - 1) : q[j].repo = s) \/ Vouched(h, s)'
  BY DEF Prepared
<1>2. s \in Repo /\ r \notin SubsOf(r)
  BY <1>1, NotOwnSub
<1>3. (\E j \in 1..(i - 1) : q[j].repo = s) \/ Vouched(h, s)
  BY DEF Prepared
<1>4. CASE s # r
  BY <1>2, <1>3, <1>4
<1>5. CASE s = r
  <2>1. i # 1
    BY <1>1, <1>2, <1>5
  <2>2. 1 \in 1..(i - 1)
    BY <2>1
  <2> QED
    BY <1>1, <1>5, <2>2
<1> QED
  BY <1>4, <1>5

\* A hook is done with a repository.
LEMMA LeavesPrepared ==
    ASSUME NEW h \in Hook, NEW r \in Repo, todo[h] \in Seq(Visits), todo[h] # << >>,
           r = Cur(h), Prepared(h), pc[h] \in Busy, todo'[h] = Tail(todo[h]),
           \A s \in Repo \ {r} : Vouched(h, s) => Vouched(h, s)', Vouched(h, r)'
    PROVE  Prepared(h)'
<1> PICK q \in Seq(Visits) : q = todo[h] /\ q # << >>
  OBVIOUS
<1> PICK t \in Seq(Visits) : t = Tail(q) /\ t = todo'[h]
  BY TailParts
<1> PICK n \in Nat : n = Len(t)
  OBVIOUS
<1>1. Len(q) = n + 1 /\ \A i \in 1..n : t[i] = q[i + 1]
  BY TailParts
<1>2. q[1].repo = r /\ \A i \in 1..(n + 1) : q[i].repo \in Repo
  BY <1>1, VisitParts DEF Cur
<1> SUFFICES ASSUME NEW i \in 1..n, ~(t[i].down > 0), NEW s \in SubsOf(t[i].repo)
             PROVE  (\E j \in 1..(i - 1) : t[j].repo = s) \/ Vouched(h, s)'
  BY DEF Prepared
<1>3. i + 1 \in 1..(n + 1) /\ s \in SubsOf(q[i + 1].repo) /\ ~(q[i + 1].down > 0) /\ s \in Repo
  <2>1. i + 1 \in 1..(n + 1) /\ t[i] = q[i + 1]
    BY <1>1
  <2> QED
    BY <1>2, <2>1, SubsType
<1>4. (\E j \in 1..i : q[j].repo = s) \/ Vouched(h, s)
  <2>1. (\E j \in 1..((i + 1) - 1) : q[j].repo = s) \/ Vouched(h, s)
    BY <1>1, <1>3 DEF Prepared
  <2>2. (i + 1) - 1 = i
    OBVIOUS
  <2> QED
    BY <2>1, <2>2
<1>5. CASE s = r
  BY <1>5
<1>6. CASE s # r /\ Vouched(h, s)
  BY <1>3, <1>6
<1>7. CASE s # r /\ \E j \in 1..i : q[j].repo = s
  <2>1. PICK j \in 1..i : q[j].repo = s /\ j # 1
    BY <1>2, <1>7
  <2>2. j - 1 \in 1..(i - 1) /\ j - 1 \in 1..n /\ (j - 1) + 1 = j
    BY <2>1
  <2>3. t[j - 1].repo = s
    BY <1>1, <2>1, <2>2
  <2> QED
    BY <2>2, <2>3
<1> QED
  BY <1>4, <1>5, <1>6, <1>7

\* A hook goes down from the repository it is at: the submodules it knows of come
\* before it, the others are passed over.
LEMMA EntersPrepared ==
    ASSUME Typed, NEW h \in Hook, Prepared(h), NEW subs \in Seq(Repo), Enter(h, subs),
           Down(h) > 1 \/ subs = << >>, disturbed' = disturbed
    PROVE  Prepared(h)'
<1> PICK old \in Seq(Visits) : old = todo[h] /\ old # << >>
  BY DEF Enter, At, Typed, HookTypes
<1> PICK r \in Repo : r = Cur(h) /\ r = Head(old).repo
  BY CurType DEF Enter, At, Cur
<1>0. pc[h] = "probe" /\ Down(h) \in Nat /\ Down(h) > 0
  BY CurType DEF Enter, At
<1> PICK d \in Nat : d = Down(h) - 1
  BY <1>0
<1>1. /\ todo'[h] = Grown(old, subs, d)
      /\ missed'[h] = missed[h] \cup UNION {Beneath(s) : s \in SubsOf(r) \ Range(subs)}
      /\ UNCHANGED repos /\ failed' = failed
  BY DEF Enter, Grown, Cur, Typed, HookTypes
<1>2. PICK new \in Seq(Visits) : new = Grown(old, subs, d)
  BY QueueGrows
<1>a. /\ Len(new) = Len(subs) + Len(old)
      /\ \A i \in 1 .. Len(subs) : new[i] = Visit(subs[i], d)
      /\ new[Len(subs) + 1] = Visit(r, 0)
      /\ \A i \in 2 .. Len(old) : new[Len(subs) + i] = old[i]
  <2>1. /\ Len(Grown(old, subs, d)) = Len(subs) + Len(old)
        /\ \A i \in 1 .. Len(subs) : Grown(old, subs, d)[i] = Visit(subs[i], d)
        /\ Grown(old, subs, d)[Len(subs) + 1] = Visit(Head(old).repo, 0)
        /\ \A i \in 2 .. Len(old) : Grown(old, subs, d)[Len(subs) + i] = old[i]
    BY QueueGrows
  <2> QED
    BY <1>2, <2>1, Zenon
<1> PICK n \in Nat, m \in Nat : n = Len(subs) /\ m = Len(old)
  OBVIOUS
<1>3. /\ Len(new) = n + m
      /\ \A i \in 1..n : new[i] = Visit(subs[i], d)
      /\ new[n + 1] = Visit(r, 0)
      /\ \A i \in 2..m : new[n + i] = old[i]
  BY <1>a
<1>4. \A i \in 1..m : new[n + i].repo = old[i].repo
  <2> SUFFICES ASSUME NEW i \in 1..m PROVE new[n + i].repo = old[i].repo
    OBVIOUS
  <2>1. CASE i = 1
    BY <1>3, <2>1 DEF Visit
  <2>2. CASE i # 1
    <3>1. i \in 2..m
      BY <2>2
    <3> QED
      BY <1>3, <3>1
  <2> QED
    BY <2>1, <2>2
<1>5. \A s \in Repo : Vouched(h, s) => Vouched(h, s)'
  BY <1>1 DEF Vouched, repos, HeadOf, Past
<1>6. \A s \in SubsOf(r) \ Range(subs) : Vouched(h, s)'
  <2> SUFFICES ASSUME NEW s \in SubsOf(r) \ Range(subs) PROVE s \in missed'[h]
    BY DEF Vouched
  <2>1. s \in Beneath(s)
    BY SubsType, BeneathParts
  <2> QED
    BY <1>1, <2>1
<1>7. todo'[h] = new
  BY <1>1, <1>2
<1> SUFFICES ASSUME NEW i \in 1..(n + m), ~(new[i].down > 0), NEW s \in SubsOf(new[i].repo)
             PROVE  (\E j \in 1..(i - 1) : new[j].repo = s) \/ Vouched(h, s)'
  BY <1>3, <1>7 DEF Prepared
<1>8. i \notin 1..n
  <2> SUFFICES ASSUME i \in 1..n PROVE FALSE
    OBVIOUS
  <2>1. new[i].down = d
    <3>1. new[i] = Visit(subs[i], d)
      BY <1>3
    <3> QED
      BY <3>1 DEF Visit
  <2>2. subs # << >>
    OBVIOUS
  <2>3. d > 0
    BY <1>0, <2>2
  <2> QED
    BY <2>1, <2>3
<1>9. CASE i = n + 1
  <2>1. s \in SubsOf(r)
    BY <1>3, <1>9 DEF Visit
  <2>2. CASE s \in Range(subs)
    <3>1. PICK j \in 1..n : subs[j] = s
      BY <2>2 DEF Range
    <3>2. new[j] = Visit(s, d) /\ j \in 1..(i - 1)
      BY <1>3, <1>9, <3>1
    <3>3. new[j].repo = s
      BY <3>2 DEF Visit
    <3> QED
      BY <3>2, <3>3
  <2>3. CASE s \notin Range(subs)
    BY <1>6, <2>1, <2>3
  <2> QED
    BY <2>2, <2>3
<1>10. CASE i > n + 1
  <2> PICK k \in 2..m : i = n + k
    <3>1. i - n \in 2..m /\ i = n + (i - n)
      BY <1>10
    <3> QED
      BY <3>1
  <2>1. new[i] = old[k] /\ old[k].repo \in Repo
    <3>1. k \in 1..m /\ \A j \in 1..m : old[j].repo \in Repo
      BY VisitParts
    <3> QED
      BY <1>3, <3>1
  <2>2. (\E j \in 1..(k - 1) : old[j].repo = s) \/ Vouched(h, s)
    BY <1>0, <2>1 DEF Prepared, Busy
  <2>3. CASE Vouched(h, s)
    BY <1>5, <2>1, <2>3, SubsType
  <2>4. CASE \E j \in 1..(k - 1) : old[j].repo = s
    <3>1. PICK j \in 1..(k - 1) : old[j].repo = s
      BY <2>4
    <3>2. j \in 1..m /\ n + j \in 1..(i - 1)
      BY <3>1
    <3> QED
      BY <1>4, <3>1, <3>2
  <2> QED
    BY <2>2, <2>3, <2>4
<1> QED
  BY <1>8, <1>9, <1>10

\* What a step of anybody leaves of the repositories it is not at.
Still(q) ==
    /\ HeadOf(q)' = HeadOf(q) /\ branch'[q] = branch[q] /\ remote[q] \subseteq remote'[q]
    /\ Past(HeadOf(q))' = Past(HeadOf(q))

LEMMA StillVouched ==
    ASSUME NEW h \in Hook, NEW s \in Repo, Still(s), Vouched(h, s),
           failed[h] \subseteq failed'[h], disturbed[h] \subseteq disturbed'[h],
           s \in missed[h] => s \in missed'[h]
    PROVE  Vouched(h, s)'
BY DEF Vouched, Still

\* The commits there are keep their history and their gitlinks.
LogGrows ==
    /\ Len(log) <= Len(log') /\ Len(log') \in Nat
    /\ \A c \in 1 .. Len(log) : log'[c] = log[c]

LEMMA HeadStill ==
    ASSUME Typed, LogGrows, NEW q \in Repo, HeadOf(q)' = HeadOf(q), branch'[q] = branch[q],
           remote[q] \subseteq remote'[q]
    PROVE  Still(q) /\ \A s \in Repo : Link(HeadOf(q), s)' = Link(HeadOf(q), s)
<1>1. HeadOf(q) \in 0 .. Len(log) /\ Len(log) \in Nat
  BY DEF Typed, Grounded, Commits, RepoTypes
<1>2. PICK c \in 0 .. Len(log) : c = HeadOf(q) /\ c = HeadOf(q)'
  BY <1>1
<1>3. c # 0 => log'[c] = log[c]
  BY <1>1 DEF LogGrows
<1>4. Past(HeadOf(q)) = (IF c = 0 THEN {0} ELSE log[c].past)
      /\ Past(HeadOf(q))' = (IF c = 0 THEN {0} ELSE log'[c].past)
  BY <1>2 DEF Past
<1>5. \A s \in Repo : /\ Link(HeadOf(q), s) = (IF c = 0 THEN 0 ELSE log[c].link[s])
                     /\ Link(HeadOf(q), s)' = (IF c = 0 THEN 0 ELSE log'[c].link[s])
  BY <1>2 DEF Link
<1> QED
  BY <1>3, <1>4, <1>5 DEF Still

\* A step of the session or the user is at one repository.
LEMMA OthersFrame ==
    ASSUME Typed, NEW r \in Repo, Others(r)
    PROVE  /\ LogGrows
           /\ \A q \in Repo \ {r} : Still(q)
           /\ \A q \in Repo \ {r} : \A s \in Repo : Link(HeadOf(q), s)' = Link(HeadOf(q), s)
           /\ UNCHANGED << pc, todo, found, failed, missed >>
           /\ \A h \in Hook : pc[h] # "idle" => disturbed'[h] = disturbed[h] \cup {r}
<1>0. /\ tips \in [Repo -> [Branch -> Commits \cup {NoCommit}]] /\ branch \in [Repo -> Branch]
      /\ wt \in [Repo -> SUBSET Work] /\ Len(log) \in Nat
  BY DEF Typed, RepoTypes
<1>1. remote' = remote /\ UNCHANGED << pc, todo, found, failed, missed >>
  BY DEF Others, Edit, UserCommit, Conflict, Resolve, UserSwitch, UserBranch, hook
<1>2. \A h \in Hook : pc[h] # "idle" => disturbed'[h] = disturbed[h] \cup {r}
  BY DEF Others, Edit, UserCommit, Conflict, Resolve, UserSwitch, UserBranch, Disturb
<1>3. LogGrows /\ \A q \in Repo \ {r} : HeadOf(q)' = HeadOf(q) /\ branch'[q] = branch[q]
  <2>1. CASE Edit(r) \/ Conflict(r) \/ Resolve(r)
    <3>1. UNCHANGED << tips, branch, log >>
      BY <2>1 DEF Edit, Conflict, Resolve
    <3> QED
      BY <1>0, <3>1 DEF LogGrows, HeadOf
  <2>2. CASE UserCommit(r)
    <3>1. NewCommit(r, wt[r], SubsOf(r)) /\ branch' = branch /\ wt[r] \in SUBSET Work
      BY <1>0, <2>2 DEF UserCommit
    <3>2. Len(log') = Len(log) + 1 /\ (\A c \in 1 .. Len(log) : log'[c] = log[c])
          /\ \A q \in Repo \ {r} : HeadOf(q)' = HeadOf(q)
      BY <3>1, CommitLogged
    <3> QED
      BY <1>0, <3>1, <3>2 DEF LogGrows
  <2>3. ASSUME NEW b \in Branch, UserSwitch(r, b) \/ UserBranch(r, b)
        PROVE  LogGrows /\ \A q \in Repo \ {r} : HeadOf(q)' = HeadOf(q) /\ branch'[q] = branch[q]
    <3>1. log' = log /\ \A q \in Repo \ {r} : branch'[q] = branch[q] /\ tips'[q] = tips[q]
      BY <1>0, <2>3 DEF UserSwitch, UserBranch
    <3> QED
      BY <1>0, <3>1 DEF LogGrows, HeadOf
  <2> QED
    BY <2>1, <2>2, <2>3 DEF Others
<1>4. \A q \in Repo \ {r} : remote[q] \subseteq remote'[q]
  BY <1>1
<1> QED
  BY <1>1, <1>2, <1>3, <1>4, HeadStill

LEMMA OthersTied ==
    ASSUME Proper, Typed, NEW r \in Repo, Others(r), NEW h \in Hook, Queued(h),
           Prepared(h), Linked(h)
    PROVE  Prepared(h)' /\ Linked(h)'
<1>1. /\ LogGrows
      /\ \A q \in Repo \ {r} : Still(q)
      /\ \A q \in Repo \ {r} : \A s \in Repo : Link(HeadOf(q), s)' = Link(HeadOf(q), s)
      /\ UNCHANGED << pc, todo, found, failed, missed >>
      /\ \A g \in Hook : pc[g] # "idle" => disturbed'[g] = disturbed[g] \cup {r}
  BY OthersFrame
<1>2. CASE pc[h] \notin Busy
  BY <1>1, <1>2 DEF Prepared, Linked, Busy
<1>3. CASE pc[h] \in Busy
  <2>1. disturbed'[h] = disturbed[h] \cup {r}
    BY <1>1, <1>3 DEF Busy
  <2>2. \A s \in Repo : Vouched(h, s) => Vouched(h, s)'
    <3> SUFFICES ASSUME NEW s \in Repo, Vouched(h, s) PROVE Vouched(h, s)'
      OBVIOUS
    <3>1. CASE s = r
      BY <2>1, <3>1 DEF Vouched
    <3>2. CASE s # r
      BY <1>1, <2>1, <3>2, StillVouched
    <3> QED
      BY <3>1, <3>2
  <2>3. todo[h] \in Seq(Visits)
    BY DEF Typed, HookTypes
  <2>4. \A i \in 1 .. Len(todo[h]) : todo[h][i].repo \in Repo
    BY <2>3, VisitParts
  <2>5. Prepared(h)'
    <3>1. \A i \in 1 .. Len(todo[h]) : SubsOf(todo[h][i].repo) \subseteq Repo
      BY <2>4, NotOwnSub
    <3> QED
      BY <1>1, <1>3, <2>2, <3>1 DEF Prepared
  <2>6. ASSUME todo[h] # << >> PROVE Linked(h)'
    <3>1. Cur(h) \in Repo /\ Cur(h)' = Cur(h)
      BY <1>1, <2>6, CurType DEF Cur
    <3>2. CASE Cur(h) = r
      BY <2>1, <3>1, <3>2 DEF Linked, Elsewhere
    <3>3. CASE Cur(h) # r
      <4>1. Still(Cur(h)) /\ \A s \in Repo : Link(HeadOf(Cur(h)), s)' = Link(HeadOf(Cur(h)), s)
        BY <1>1, <3>1, <3>3
      <4>2. Moved(Cur(h))' \subseteq Moved(Cur(h)) \cup {r}
        <5> SUFFICES ASSUME NEW s \in Moved(Cur(h))', s # r PROVE s \in Moved(Cur(h))
          OBVIOUS
        <5>1. s \in SubsOf(Cur(h)) /\ HeadOf(s)' # Link(HeadOf(Cur(h)), s)'
          BY <3>1 DEF Moved
        <5>2. s \in Repo
          BY <3>1, <5>1, NotOwnSub
        <5>3. HeadOf(s)' = HeadOf(s)
          BY <1>1, <5>2 DEF Still
        <5> QED
          BY <4>1, <5>1, <5>2, <5>3 DEF Moved
      <4>3. Elsewhere(h) => Elsewhere(h)'
        BY <2>1, <3>1, <4>1 DEF Elsewhere, Still
      <4> QED
        BY <1>1, <2>1, <4>2, <4>3 DEF Linked
    <3> QED
      BY <3>2, <3>3
  <2>7. CASE todo[h] = << >>
    <3>1. pc'[h] = "probe"
      BY <1>1, <1>3, <2>7 DEF Queued, Busy
    <3> QED
      BY <2>5, <3>1 DEF Linked
  <2> QED
    BY <2>5, <2>6, <2>7
<1> QED
  BY <1>2, <1>3

LEMMA WalkTied ==
    ASSUME NEW h \in Hook, pc'[h] = "probe", \A i \in 1 .. Len(todo'[h]) : todo'[h][i].down > 0
    PROVE  Prepared(h)' /\ Linked(h)'
<1>1. Prepared(h)'
  BY DEF Prepared
<1> QED
  BY <1>1 DEF Linked

LEMMA IdleTied ==
    ASSUME NEW h \in Hook, pc'[h] \in {"idle", "read", "truncate", "write"}
    PROVE  Prepared(h)' /\ Linked(h)'
BY DEF Prepared, Linked, Busy

LEMMA CallDown == ASSUME NEW r PROVE Call(r).down > 0
<1>1. MaxDepth + 1 > 0
  BY ConstantsAssumption
<1> QED
  BY <1>1 DEF Call, Visit

\* A hook that records, begins its walk or answers.
LEMMA EdgeTied ==
    ASSUME Proper, Typed, NEW h \in Hook,
           ReadList(h) \/ TruncateList(h) \/ WriteList(h) \/ StopReads(h) \/ Answer(h)
           \/ AnswerStash(h) \/ AnswerStop(h)
    PROVE  Prepared(h)' /\ Linked(h)'
<1>0. /\ pc \in [Hook -> {"idle", "read", "truncate", "write", "probe", "count", "place",
                          "commit", "push"}]
      /\ todo \in [Hook -> Seq(Visits)] /\ list \in Seq(Repo)
  BY DEF Typed, HookTypes
<1>1. ASSUME Recorded(h) PROVE Prepared(h)' /\ Linked(h)'
  <2>1. pc'[h] = "idle" \/ (pc'[h] = "probe" /\ todo'[h] = << Call(root[h]) >>)
    BY <1>0, <1>1 DEF Recorded, Gone
  <2>2. \A i \in 1 .. Len(<< Call(root[h]) >>) : << Call(root[h]) >>[i].down > 0
    BY CallDown
  <2> QED
    BY <2>1, <2>2, IdleTied, WalkTied
<1>2. CASE ReadList(h)
  <2>1. Recorded(h) \/ pc'[h] = "truncate"
    BY <1>0, <1>2 DEF ReadList
  <2> QED
    BY <1>1, <2>1, IdleTied
<1>3. CASE TruncateList(h)
  <2>1. pc'[h] = "write"
    BY <1>0, <1>3 DEF TruncateList
  <2> QED
    BY <2>1, IdleTied
<1>4. CASE WriteList(h)
  BY <1>1, <1>4 DEF WriteList
<1>5. CASE StopReads(h)
  <2>1. pc'[h] = "probe" /\ todo'[h] = [i \in DOMAIN list |-> Call(list[i])]
    BY <1>0, <1>5 DEF StopReads
  <2>2. DOMAIN list = 1 .. Len(list) /\ Len(list) \in Nat
    BY <1>0
  <2>3. Len(todo'[h]) = Len(list)
    BY <2>1, <2>2
  <2>4. \A i \in 1 .. Len(list) : todo'[h][i] = Call(list[i])
    BY <2>1, <2>2
  <2>5. \A i \in 1 .. Len(todo'[h]) : todo'[h][i].down > 0
    BY <2>3, <2>4, CallDown
  <2> QED
    BY <2>1, <2>5, WalkTied
<1>6. CASE Answer(h) \/ AnswerStash(h) \/ AnswerStop(h)
  <2>1. pc'[h] = "idle"
    BY <1>0, <1>6 DEF Answer, AnswerStash, AnswerStop, Gone
  <2> QED
    BY <2>1, IdleTied
<1> QED
  BY <1>2, <1>3, <1>4, <1>5, <1>6

\* Nothing in any repository changes.
LEMMA ReposStill ==
    ASSUME Typed, UNCHANGED << branch, tips, remote, log >>
    PROVE  \A q \in Repo : Still(q) /\ HeadOf(q)' = HeadOf(q) /\ Moved(q)' = Moved(q)
BY DEF Still, HeadOf, Past, Moved, Link

\* A hook leaves the repository it is at, for which it can answer.
LEMMA LeaveTied ==
    ASSUME Proper, Typed, NEW h \in Hook, NEW r \in Repo, todo[h] # << >>, r = Cur(h),
           pc[h] \in Busy, Prepared(h), Leave(h), \A q \in Repo \ {r} : Still(q),
           failed[h] \subseteq failed'[h], disturbed[h] \subseteq disturbed'[h],
           Vouched(h, r)'
    PROVE  Prepared(h)' /\ Linked(h)'
<1>0. todo \in [Hook -> Seq(Visits)] /\ missed \in [Hook -> SUBSET Repo]
      /\ pc \in [Hook -> {"idle", "read", "truncate", "write", "probe", "count", "place",
                          "commit", "push"}]
  BY DEF Typed, HookTypes
<1>1. pc'[h] = "probe" /\ todo'[h] = Tail(todo[h]) /\ missed'[h] = missed[h] \ {r}
  BY <1>0 DEF Leave
<1>2. \A s \in Repo \ {r} : Vouched(h, s) => Vouched(h, s)'
  BY <1>1, StillVouched
<1>4. Prepared(h)'
  BY <1>0, <1>1, <1>2, LeavesPrepared
<1> QED
  BY <1>1, <1>4 DEF Linked

LEMMA FailTied ==
    ASSUME Proper, Typed, NEW h \in Hook, NEW r \in Repo, todo[h] # << >>, r = Cur(h),
           pc[h] \in Busy, Prepared(h), Fail(h), \A q \in Repo \ {r} : Still(q),
           disturbed[h] \subseteq disturbed'[h]
    PROVE  Prepared(h)' /\ Linked(h)'
<1>1. failed \in [Hook -> SUBSET Repo]
  BY DEF Typed, HookTypes
<1>2. failed'[h] = failed[h] \cup {r} /\ Leave(h)
  BY <1>1 DEF Fail
<1>3. Vouched(h, r)'
  BY <1>2 DEF Vouched
<1> QED
  BY <1>2, <1>3, LeaveTied

\* A hook goes on to another step with the same repository.
LEMMA GotoTied ==
    ASSUME Proper, Typed, NEW h \in Hook, NEW r \in Repo, todo[h] # << >>, r = Cur(h),
           pc[h] \in Busy, Prepared(h), todo' = todo, failed' = failed, missed' = missed,
           \A q \in Repo \ {r} : Still(q), disturbed[h] \subseteq disturbed'[h]
    PROVE  Prepared(h)' /\ Cur(h)' = r
<1>0. todo \in [Hook -> Seq(Visits)]
  BY DEF Typed, HookTypes
<1>1. \A s \in Repo \ {r} : Vouched(h, s) => Vouched(h, s)'
  BY StillVouched
<1> QED
  BY <1>0, <1>1, StaysPrepared DEF Cur

LEMMA JudgeTied ==
    ASSUME Proper, Typed, NEW h \in Hook, NEW r \in Repo, todo[h] # << >>, r = Cur(h),
           pc[h] = "count", Prepared(h), Linked(h), NEW ahead, Judge(h, ahead),
           UNCHANGED repos, disturbed[h] \subseteq disturbed'[h], ~ahead => Vouched(h, r)'
    PROVE  Prepared(h)' /\ Linked(h)'
<1>0. pc \in [Hook -> {"idle", "read", "truncate", "write", "probe", "count", "place",
                       "commit", "push"}]
  BY DEF Typed, HookTypes
<1>1. pc[h] \in Busy /\ \A q \in Repo : Still(q) /\ Moved(q)' = Moved(q)
  BY ReposStill DEF Busy, repos
<1>2. CASE Fail(h)
  BY <1>1, <1>2, FailTied
<1>3. CASE Done(h) /\ ~ahead
  BY <1>1, <1>3, LeaveTied DEF Done
<1>4. CASE Goto(h, "place")
  <2>1. pc'[h] = "place" /\ UNCHANGED << todo, found, failed, missed >>
    BY <1>0, <1>4 DEF Goto
  <2>2. Prepared(h)' /\ Cur(h)' = r
    BY <1>1, <2>1, GotoTied
  <2>3. Elsewhere(h) => Elsewhere(h)'
    BY <2>2 DEF Elsewhere, repos
  <2>4. Moved(r)' = Moved(r) /\ (Elsewhere(h) \/ Moved(r) \subseteq found[h].subs \cup disturbed[h])
    BY <1>1 DEF Linked
  <2>5. Elsewhere(h)' \/ Moved(Cur(h))' \subseteq found'[h].subs \cup disturbed'[h]
    BY <2>1, <2>2, <2>3, <2>4
  <2> QED
    BY <2>1, <2>2, <2>5 DEF Linked
<1> QED
  BY <1>2, <1>3, <1>4 DEF Judge

\* The steps of a hook that decide what becomes of its repository.
LEMMA WayTied ==
    ASSUME Proper, Typed, NEW h \in Hook, Prepared(h), Linked(h),
           \/ Probe(h) \/ ProbeFails(h) \/ Count(h) \/ CountFails(h) \/ NoOrigin(h)
           \/ \E t \in Reading : Stay(h, t) \/ ToSession(h, t) \/ SwitchFails(h, t)
    PROVE  Prepared(h)' /\ Linked(h)'
<1>0. /\ pc \in [Hook -> {"idle", "read", "truncate", "write", "probe", "count", "place",
                          "commit", "push"}]
      /\ disturbed \in [Hook -> SUBSET Repo] /\ branch \in [Repo -> Branch]
      /\ found \in [Hook -> [work : SUBSET Work, subs : SUBSET Repo, conflict : BOOLEAN]]
      /\ tips \in [Repo -> [Branch -> Commits \cup {NoCommit}]]
      /\ \A q \in Repo : tracking[q] \subseteq remote[q]
  BY DEF Typed, HookTypes, RepoTypes
<1>1. todo[h] # << >> /\ pc[h] \in Busy
  BY DEF Probe, ProbeFails, Count, CountFails, NoOrigin, Stay, ToSession, SwitchFails, At, Busy
<1>2. PICK r \in Repo : r = Cur(h)
  BY <1>1, CurType
<1>3. CASE ProbeFails(h) \/ NoOrigin(h) \/ \E t \in Reading : SwitchFails(h, t)
  <2>1. UNCHANGED repos /\ Fail(h) /\ disturbed' = disturbed
    BY <1>3 DEF ProbeFails, NoOrigin, SwitchFails, Faulty
  <2>2. \A q \in Repo : Still(q)
    BY <2>1, ReposStill DEF repos
  <2> QED
    BY <1>1, <1>2, <2>1, <2>2, FailTied
<1>4. CASE Probe(h)
  <2>1. /\ UNCHANGED repos /\ UNCHANGED << todo, failed, missed, disturbed >> /\ pc'[h] = "count"
        /\ Moved(r) \subseteq found'[h].subs
    BY <1>0, <1>2, <1>4 DEF Probe, Quiet, story
  <2>2. \A q \in Repo : Still(q) /\ Moved(q)' = Moved(q)
    BY <2>1, ReposStill DEF repos
  <2>3. Prepared(h)' /\ Cur(h)' = r
    BY <1>1, <1>2, <2>1, <2>2, GotoTied
  <2>4. Moved(Cur(h))' \subseteq found'[h].subs
    BY <2>1, <2>2, <2>3
  <2> QED
    BY <2>1, <2>3, <2>4 DEF Linked
<1>5. CASE Count(h)
  <2>1. UNCHANGED repos /\ disturbed' = disturbed /\ pc[h] = "count" /\ Judge(h, Ahead(r))
    BY <1>2, <1>5 DEF Count, Quiet, story, At
  <2>2. Still(r)
    BY <2>1, ReposStill DEF repos
  <2>3. ~Ahead(r) => Vouched(h, r)'
    BY <1>0, <2>1, <2>2 DEF Ahead, Vouched, Still, repos
  <2> QED
    BY <1>1, <1>2, <2>1, <2>3, JudgeTied
<1>6. CASE CountFails(h)
  <2>1. UNCHANGED repos /\ disturbed'[h] = disturbed[h] \cup {r} /\ pc[h] = "count" /\ Judge(h, FALSE)
    BY <1>0, <1>2, <1>6 DEF CountFails, At
  <2>2. Vouched(h, r)'
    BY <2>1 DEF Vouched
  <2> QED
    BY <1>1, <1>2, <2>1, <2>2, JudgeTied
<1>7. ASSUME NEW t \in Reading, Stay(h, t) PROVE Prepared(h)' /\ Linked(h)'
  <2>1. UNCHANGED repos /\ disturbed[h] \subseteq disturbed'[h] /\ pc[h] = "place" /\ Onward(h)
    BY <1>0, <1>7 DEF Stay, Truly, Misled, At
  <2>2. UNCHANGED << todo, found, failed, missed >>
        /\ (pc'[h] = "commit" \/ (pc'[h] = "push" /\ found[h].subs = {}))
    BY <1>0, <2>1 DEF Onward, Goto
  <2>3. \A q \in Repo : Still(q) /\ Moved(q)' = Moved(q)
    BY <2>1, ReposStill DEF repos
  <2>4. Prepared(h)' /\ Cur(h)' = r
    BY <1>1, <1>2, <2>1, <2>2, <2>3, GotoTied
  <2>5. Elsewhere(h) => Elsewhere(h)'
    BY <1>2, <2>1, <2>4 DEF Elsewhere, repos
  <2>6. Elsewhere(h) \/ Moved(r) \subseteq found[h].subs \cup disturbed[h]
    BY <1>2, <2>1 DEF Linked
  <2>7. Elsewhere(h)' \/ Moved(Cur(h))' \subseteq found'[h].subs \cup disturbed'[h]
    BY <2>1, <2>2, <2>3, <2>4, <2>5, <2>6
  <2>8. pc'[h] = "push" => Elsewhere(h)' \/ Moved(Cur(h))' \subseteq disturbed'[h]
    BY <2>2, <2>7
  <2>9. pc'[h] \in {"commit", "push"}
    BY <2>2
  <2> QED
    BY <2>4, <2>7, <2>8 DEF Linked
<1>8. ASSUME NEW t \in Reading, ToSession(h, t) PROVE Prepared(h)' /\ Linked(h)'
  <2>1. /\ tips' = IF tips[r]["session"] = NoCommit
                   THEN [tips EXCEPT ![r]["session"] = HeadOf(r)] ELSE tips
        /\ branch' = [branch EXCEPT ![r] = "session"]
        /\ UNCHANGED << remote, log >> /\ disturbed[h] \subseteq disturbed'[h] /\ Onward(h)
    BY <1>0, <1>2, <1>8 DEF ToSession, Truly, Misled
  <2>2. UNCHANGED << todo, found, failed, missed >> /\ pc'[h] \in {"commit", "push"}
    BY <1>0, <2>1 DEF Onward, Goto
  <2>3. \A q \in Repo \ {r} : HeadOf(q)' = HeadOf(q) /\ branch'[q] = branch[q]
    BY <1>0, <2>1 DEF HeadOf
  <2>4. LogGrows
    <3>1. Len(log) \in Nat
      BY DEF Typed, RepoTypes
    <3> QED
      BY <2>1, <3>1 DEF LogGrows
  <2>5. \A q \in Repo \ {r} : Still(q)
    BY <2>1, <2>3, <2>4, HeadStill
  <2>6. Prepared(h)' /\ Cur(h)' = r
    BY <1>1, <1>2, <2>1, <2>2, <2>5, GotoTied
  <2>7. Elsewhere(h)'
    BY <1>0, <2>1, <2>6 DEF Elsewhere
  <2> QED
    BY <2>6, <2>7 DEF Linked
<1> QED
  BY <1>3, <1>4, <1>5, <1>6, <1>7, <1>8

\* What a commit leaves of the gitlinks.
LEMMA CommitTied ==
    ASSUME Proper, Typed, NEW h \in Hook, Prepared(h), Linked(h), Commit(h)
    PROVE  Prepared(h)' /\ Linked(h)'
<1>0. /\ pc \in [Hook -> {"idle", "read", "truncate", "write", "probe", "count", "place",
                          "commit", "push"}]
      /\ Len(log) \in Nat
  BY DEF Typed, HookTypes, RepoTypes
<1>1. todo[h] # << >> /\ pc[h] \in Busy /\ pc[h] = "commit"
  BY DEF Commit, At, Busy
<1>2. PICK r \in Repo : r = Cur(h)
  BY <1>1, CurType
<1>3. /\ NewCommit(r, Files(h), Links(h)) /\ UNCHANGED << branch, remote, disturbed >>
      /\ pc'[h] = "push" /\ UNCHANGED << todo, found, failed, missed >>
  BY <1>0, <1>2 DEF Commit, Goto, Quiet, story
<1>4. Files(h) \in SUBSET Work
  BY <1>2 DEF Typed, RepoTypes, Files
<1> PICK n \in Nat : n = Len(log)
  BY <1>0
<1>5. /\ Len(log') = n + 1 /\ (\A c \in 1 .. n : log'[c] = log[c])
      /\ HeadOf(r)' = n + 1
      /\ \A q \in Repo \ {r} : HeadOf(q)' = HeadOf(q)
  BY <1>3, <1>4, CommitLogged
<1>6. \A q \in Repo \ {r} : Still(q)
  BY <1>3, <1>5, HeadStill DEF LogGrows
<1>7. Prepared(h)' /\ Cur(h)' = r
  BY <1>1, <1>2, <1>3, <1>6, GotoTied
<1>8. log'[n + 1].link = [s \in Repo |-> IF s \in Links(h) THEN HeadOf(s) ELSE Link(HeadOf(r), s)]
  <2>1. log \in Seq([past : SUBSET Nat, work : SUBSET Work, link : [Repo -> Nat]])
    BY DEF Typed, RepoTypes
  <2> DEFINE e == [past |-> Past(HeadOf(r)) \cup {Len(log) + 1}, work |-> Files(h),
                   link |-> [s \in Repo |-> IF s \in Links(h) THEN HeadOf(s) ELSE Link(HeadOf(r), s)]]
  <2>2. log' = Append(log, e)
    BY <1>3 DEF NewCommit
  <2>3. e.link = [s \in Repo |-> IF s \in Links(h) THEN HeadOf(s) ELSE Link(HeadOf(r), s)]
    OBVIOUS
  <2> HIDE DEF e
  <2>4. log'[n + 1] = e
    BY <2>1, <2>2
  <2> QED
    BY <2>3, <2>4
<1>9. \A s \in Repo : Link(HeadOf(r), s)' = IF s \in Links(h) THEN HeadOf(s) ELSE Link(HeadOf(r), s)
  <2> SUFFICES ASSUME NEW s \in Repo
               PROVE  Link(HeadOf(r), s)' = IF s \in Links(h) THEN HeadOf(s) ELSE Link(HeadOf(r), s)
    OBVIOUS
  <2>1. Link(HeadOf(r), s)' = IF n + 1 = 0 THEN 0 ELSE log'[n + 1].link[s]
    BY <1>5 DEF Link
  <2> QED
    BY <1>8, <2>1
<1>10. Moved(r)' \subseteq Moved(r) \ found[h].subs
  <2> SUFFICES ASSUME NEW s \in Moved(r)' PROVE s \in Moved(r) /\ s \notin found[h].subs
    OBVIOUS
  <2>1. s \in SubsOf(r) /\ HeadOf(s)' # Link(HeadOf(r), s)'
    BY DEF Moved
  <2>2. s \in Repo \ {r}
    BY <2>1, NotOwnSub
  <2>3. s \notin Links(h) /\ HeadOf(s) # Link(HeadOf(r), s)
    BY <1>5, <1>9, <2>1, <2>2
  <2>4. s \in Moved(r)
    BY <2>1, <2>3 DEF Moved
  <2> QED
    BY <1>2, <2>3, <2>4 DEF Links
<1>11. Elsewhere(h) \/ Moved(r) \subseteq found[h].subs \cup disturbed[h]
  BY <1>1, <1>2 DEF Linked
<1>12. Elsewhere(h)' = Elsewhere(h)
  BY <1>2, <1>3, <1>7 DEF Elsewhere
<1>13. Elsewhere(h)' \/ Moved(Cur(h))' \subseteq disturbed'[h]
  BY <1>3, <1>7, <1>10, <1>11, <1>12
<1> QED
  BY <1>3, <1>7, <1>13 DEF Linked

\* The steps of a hook that save and publish.
LEMMA SavesTied ==
    ASSUME Proper, Typed, NEW h \in Hook, Prepared(h), Linked(h),
           Commit(h) \/ NoCommitMade(h) \/ CommitFails(h)
           \/ Push(h) \/ PushRefused(h) \/ PushUnheard(h)
    PROVE  Prepared(h)' /\ Linked(h)'
<1>0. /\ pc \in [Hook -> {"idle", "read", "truncate", "write", "probe", "count", "place",
                          "commit", "push"}]
      /\ remote \in [Repo -> SUBSET Commits] /\ Len(log) \in Nat
  BY DEF Typed, HookTypes, RepoTypes
<1>1. todo[h] # << >> /\ pc[h] \in Busy
  BY DEF Commit, NoCommitMade, CommitFails, Push, PushRefused, PushUnheard, At, Busy
<1>2. PICK r \in Repo : r = Cur(h)
  BY <1>1, CurType
<1>3. CASE Commit(h)
  BY <1>3, CommitTied
<1>4. CASE NoCommitMade(h) \/ CommitFails(h)
  <2>1. UNCHANGED repos /\ disturbed' = disturbed /\ (Fail(h) \/ (~Dirty[r] /\ Goto(h, "push")))
    BY <1>2, <1>4 DEF NoCommitMade, CommitFails, Quiet, Faulty, story
  <2>2. \A q \in Repo : Still(q) /\ Moved(q)' = Moved(q)
    BY <2>1, ReposStill DEF repos
  <2>3. CASE Fail(h)
    BY <1>1, <1>2, <2>1, <2>2, <2>3, FailTied
  <2>4. CASE ~Dirty[r] /\ Goto(h, "push")
    <3>1. pc'[h] = "push" /\ UNCHANGED << todo, found, failed, missed >>
      BY <1>0, <2>4 DEF Goto
    <3>2. Prepared(h)' /\ Cur(h)' = r
      BY <1>1, <1>2, <2>1, <2>2, <3>1, GotoTied
    <3>3. Moved(Cur(h))' = {}
      BY <2>2, <2>4, <3>2, DirtyUnfolds
    <3> QED
      BY <3>1, <3>2, <3>3 DEF Linked
  <2> QED
    BY <2>1, <2>3, <2>4
<1>5. CASE PushRefused(h)
  <2>1. UNCHANGED repos /\ Fail(h) /\ disturbed' = disturbed
    BY <1>5 DEF PushRefused, Faulty
  <2>2. \A q \in Repo : Still(q)
    BY <2>1, ReposStill DEF repos
  <2> QED
    BY <1>1, <1>2, <2>1, <2>2, FailTied
<1>6. CASE Push(h) \/ PushUnheard(h)
  <2>1. /\ remote' = [remote EXCEPT ![r] = @ \cup Past(HeadOf(r))]
        /\ UNCHANGED << branch, tips, log, disturbed >> /\ (Done(h) \/ Fail(h))
    BY <1>2, <1>6 DEF Push, PushUnheard, Quiet, Faulty, story
  <2>2. /\ \A q \in Repo : HeadOf(q)' = HeadOf(q) /\ branch'[q] = branch[q]
        /\ \A q \in Repo : remote[q] \subseteq remote'[q]
        /\ Past(HeadOf(r)) \subseteq remote'[r]
    BY <1>0, <2>1 DEF HeadOf
  <2>3. LogGrows
    BY <1>0, <2>1 DEF LogGrows
  <2>4. \A q \in Repo : Still(q)
    BY <2>2, <2>3, HeadStill
  <2>5. Vouched(h, r)'
    BY <2>2, <2>4 DEF Vouched, Still
  <2> QED
    BY <1>1, <1>2, <2>1, <2>4, <2>5, FailTied, LeaveTied DEF Done
<1> QED
  BY <1>3, <1>4, <1>5, <1>6

\* The steps of a hook that goes down.
LEMMA DescendTied ==
    ASSUME Typed, NEW h \in Hook, Prepared(h), Descend(h) \/ DescendBlind(h)
    PROVE  Prepared(h)' /\ Linked(h)'
<1>1. Cur(h) \in Repo /\ << >> \in Seq(Repo)
  BY CurType DEF Descend, DescendBlind, Enter, At
<1>2. PICK subs \in Seq(Repo) : Enter(h, subs) /\ (Down(h) > 1 \/ subs = << >>)
  BY <1>1, ListedType DEF Descend, DescendBlind
<1>3. disturbed' = disturbed
  BY DEF Descend, DescendBlind, Quiet, Faulty, story
<1>4. Prepared(h)'
  BY <1>2, <1>3, EntersPrepared
<1>5. pc'[h] = "probe"
  BY <1>2 DEF Enter, At
<1> QED
  BY <1>4, <1>5 DEF Linked

LEMMA TiedInit == ASSUME Init PROVE Tied
<1>1. Account
  BY AccountInit
<1>2. Whole
  BY DEF Init, Whole
<1>3. \A h \in Hook : Prepared(h) /\ Linked(h)
  BY DEF Init, Prepared, Linked, Busy
<1> QED
  BY <1>1, <1>2, <1>3 DEF Tied

\* A commit that is made is part of its own history.
LEMMA WholeStep == ASSUME Typed, Whole, [Next]_vars PROVE Whole'
<1>0. Len(log) \in Nat
  BY DEF Typed, RepoTypes
<1>1. ASSUME NEW r \in Repo, NEW work \in SUBSET Work, NEW subs, NewCommit(r, work, subs),
             branch' = branch
      PROVE  Whole'
  <2>1. /\ Len(log') = Len(log) + 1 /\ \A c \in 1 .. Len(log) : log'[c] = log[c]
        /\ log'[Len(log) + 1].past = Past(HeadOf(r)) \cup {Len(log) + 1}
    BY <1>1, CommitLogged
  <2>2. \A c \in 1 .. Len(log') : c \in 1 .. Len(log) \/ c = Len(log) + 1
    BY <1>0, <2>1
  <2> QED
    BY <2>1, <2>2 DEF Whole
<1>2. ASSUME log' = log PROVE Whole'
  BY <1>2 DEF Whole
<1>3. ASSUME NEW r \in Repo, Others(r) PROVE Whole'
  <2>1. CASE UserCommit(r)
    <3>1. wt[r] \in SUBSET Work
      BY DEF Typed, RepoTypes
    <3> QED
      BY <1>1, <2>1, <3>1 DEF UserCommit
  <2>2. CASE ~UserCommit(r)
    BY <1>2, <1>3, <2>2 DEF Others, Edit, Conflict, Resolve, UserSwitch, UserBranch
  <2> QED
    BY <2>1, <2>2
<1>4. ASSUME NEW h \in Hook, Works(h) PROVE Whole'
  <2>1. CASE Commit(h)
    <3>1. Cur(h) \in Repo
      BY <2>1, CurType DEF Commit, At
    <3>2. Files(h) \in SUBSET Work
      BY <3>1 DEF Typed, RepoTypes, Files
    <3> QED
      BY <1>1, <2>1, <3>1, <3>2 DEF Commit
  <2>2. CASE ~Commit(h)
    BY <1>2, <1>4, <2>2 DEF Works, ReadList, TruncateList, WriteList, StopReads, Probe, ProbeFails,
       Count, CountFails, NoOrigin, Stay, ToSession, SwitchFails, Descend, DescendBlind, Enter,
       NoCommitMade, CommitFails, Push,
       PushRefused, PushUnheard, Answer, AnswerStash, AnswerStop, repos
  <2> QED
    BY <2>1, <2>2
<1>5. CASE UNCHANGED vars
  BY <1>2, <1>5 DEF vars, repos
<1>6. ASSUME NEW h \in Hook, BeginStop(h) PROVE Whole'
  BY <1>2, <1>6 DEF BeginStop, repos
<1>7. ASSUME NEW h \in Hook, NEW k \in Calls, NEW r \in Repo, Begin(h, k, r) PROVE Whole'
  BY <1>2, <1>7 DEF Begin, repos
<1> QED
  BY <1>3, <1>4, <1>5, <1>6, <1>7 DEF Next

LEMMA TiedStep == ASSUME Alone, Proper, Tied, [Next]_vars PROVE Tied'
<1>1. Typed /\ Whole /\ \A h \in Hook : Queued(h) /\ Prepared(h) /\ Linked(h)
  BY DEF Tied, Account, Sound
<1>2. Account' /\ Whole'
  BY <1>1, AccountStep, WholeStep DEF Tied
<1> SUFFICES ASSUME NEW h \in Hook PROVE Prepared(h)' /\ Linked(h)'
  BY <1>2 DEF Tied
<1>a. pc \in [Hook -> {"idle", "read", "truncate", "write", "probe", "count", "place",
                       "commit", "push"}]
  BY <1>1 DEF Typed, HookTypes
<1>3. CASE UNCHANGED vars
  <2>1. UNCHANGED << branch, tips, remote, log, pc, todo, found, failed, missed, disturbed >>
    BY <1>3 DEF vars, repos, hook, story
  <2>2. Prepared(h)' = Prepared(h)
    BY <2>1 DEF Prepared, Vouched, HeadOf, Past
  <2>3. Linked(h)' = Linked(h)
    BY <2>1 DEF Linked, Elsewhere, Cur, Moved, HeadOf, Link
  <2> QED
    BY <1>1, <2>2, <2>3
<1>4. ASSUME NEW r \in Repo, Others(r) PROVE Prepared(h)' /\ Linked(h)'
  BY <1>1, <1>4, OthersTied
<1>5. ASSUME NEW g \in Hook, Works(g) PROVE Prepared(h)' /\ Linked(h)'
  <2>1. g = h
    BY DEF Alone
  <2> QED
    BY <1>1, <1>5, <2>1, EdgeTied, DescendTied, WayTied, SavesTied DEF Works
<1>6. ASSUME NEW g \in Hook, BeginStop(g) PROVE Prepared(h)' /\ Linked(h)'
  <2>1. pc'[h] = "read"
    BY <1>a, <1>6 DEF BeginStop, Alone
  <2> QED
    BY <2>1, IdleTied
<1>7. ASSUME NEW g \in Hook, NEW k \in Calls, NEW r \in Repo, Begin(g, k, r)
      PROVE  Prepared(h)' /\ Linked(h)'
  <2>1. pc'[h] = "read"
    BY <1>a, <1>7 DEF Begin, Alone
  <2> QED
    BY <2>1, IdleTied
<1> QED
  BY <1>3, <1>4, <1>5, <1>6, <1>7 DEF Next

\* Every gitlink the guard publishes names a commit the submodule's remote has,
\* but for what a failure, a submodule it passed over, a change under the hook or
\* an old session branch brought (foundcommit.go:92): for any repositories, none
\* a submodule of itself, nested to any depth, any .gitmodules, failures and
\* surprises, and one hook at a time.
THEOREM GitlinksAlwaysResolve == ASSUME Alone, Proper PROVE Spec => GitlinksResolve
<1>1. ASSUME Tied, [Next]_vars, NEW h \in Hook, NEW r \in Repo, At(h, "push"), Cur(h) = r,
             NEW s \in SubsOf(r) \ (failed[h] \cup disturbed[h] \cup missed[h])
      PROVE  \/ Link(HeadOf(r), s) \in remote[s]
             \/ Link(HeadOf(r), s) # HeadOf(s) /\ (r \in disturbed[h] \/ branch[r] = "session")
  <2>1. Typed /\ Whole /\ Prepared(h) /\ Linked(h) /\ pc[h] = "push" /\ todo[h] # << >>
    BY <1>1 DEF Tied, Account, At
  <2>2. PICK q \in Seq(Visits) : q = todo[h] /\ q # << >>
    BY <2>1 DEF Typed, HookTypes
  <2>3. q[1].repo = r /\ q[1].down = 0 /\ 1 \in 1 .. Len(q) /\ 1 .. (1 - 1) = {}
    <3>1. Down(h) = 0
      BY <1>1, <2>1 DEF Tied, Account, Sound, Queued, Busy
    <3> QED
      BY <1>1, <2>2, <3>1 DEF Cur, Down
  <2>4. Vouched(h, s)
    BY <2>1, <2>2, <2>3 DEF Prepared, Busy
  <2>5. s \in Repo /\ Past(HeadOf(s)) \subseteq remote[s]
    BY <2>4, NotOwnSub DEF Vouched
  <2>6. HeadOf(s) \in Past(HeadOf(s))
    <3>1. HeadOf(s) \in 0 .. Len(log) /\ Len(log) \in Nat
      BY <2>1, <2>5 DEF Typed, Grounded, Commits, RepoTypes
    <3>2. PICK c \in 0 .. Len(log) : c = HeadOf(s)
      BY <3>1
    <3> QED
      BY <2>1, <3>1, <3>2 DEF Past, Whole
  <2>7. HeadOf(s) \in remote[s]
    BY <2>5, <2>6
  <2>8. Elsewhere(h) \/ s \notin Moved(r)
    BY <1>1, <2>1 DEF Linked
  <2>9. s \notin Moved(r) => HeadOf(s) = Link(HeadOf(r), s)
    BY DEF Moved
  <2> QED
    BY <1>1, <2>7, <2>8, <2>9 DEF Elsewhere
<1>2. Spec => []Tied
  BY TiedInit, TiedStep, PTL DEF Spec
<1>3. Tied /\ [Next]_vars =>
        (\A h \in Hook, r \in Repo : (At(h, "push") /\ Cur(h) = r /\ remote'[r] # remote[r]) =>
            \A s \in SubsOf(r) \ (failed[h] \cup disturbed[h] \cup missed[h]) :
                \/ Link(HeadOf(r), s) \in remote[s]
                \/ Link(HeadOf(r), s) # HeadOf(s) /\ (r \in disturbed[h] \/ branch[r] = "session"))
  BY <1>1
<1> QED
  BY <1>2, <1>3, PTL DEF Spec, GitlinksResolve
===============================================================================
