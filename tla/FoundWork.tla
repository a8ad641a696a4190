------------------------------ MODULE FoundWork ------------------------------
(***************************************************************************)
(* Found work (noworkloss/found.go, foundhook.go, foundcommit.go): every   *)
(* hook of a session records the repository it touches in the session's    *)
(* list, and commits and pushes what only this machine holds, submodules   *)
(* first: before a command that sets work aside, after one whose output    *)
(* showed such work, and at Stop, which a failure refuses.                 *)
(*                                                                         *)
(* Hooks of parallel tool calls interleave, and between any two steps the  *)
(* session's commands and the user change the repositories.  The list is   *)
(* a file that is truncated and then filled, with no lock.                 *)
(*                                                                         *)
(* Work is what an edit makes.  A commit is a number in the log, which     *)
(* gives the commits it contains, the work it brought and its gitlinks; 0  *)
(* is the commit every repository starts from.  commitPaths, which         *)
(* NoWorkLoss models step by step, is one step here.                       *)
(***************************************************************************)
EXTENDS Naturals, Sequences, SequencesExt

CONSTANTS Repo, Work, Hook,
          Subs,       (* a repository's submodules, as git knows them        *)
          Listed,     (* those that submodules() reads out of .gitmodules:   *)
                      (* not one whose path has a space                      *)
          HeadSet,    (* the repositories where origin/HEAD is set           *)
          Plain,      (* the branches of a repository called master or main  *)
          MaxDepth,   (* maxScriptDepth: how deep commitFound descends       *)
          NoCommit,   (* the tip of a branch that does not exist             *)
          Calls,      (* what a tool call may ask of its hook                *)
          Failing,    (* the git steps that may fail                         *)
          Doings,     (* what the session's commands and the user may do     *)
          MaxMoves    (* bound: what they do and what fails, together        *)

Branch == {"default", "detached", "topic", "session"}
Steps == {"submodules", "probe", "count", "origin", "branch", "switch", "commit", "push",
          "pushUnheard"}
Kinds == {"record", "commit", "stash"}

SubsOf(r) == Range(Subs[r])

ASSUME ConstantsAssumption ==
    /\ Repo # {}
    /\ Subs \in [Repo -> Seq(Repo)] /\ Listed \in [Repo -> Seq(Repo)]
    /\ \A r \in Repo : Range(Listed[r]) \subseteq SubsOf(r)
    /\ HeadSet \subseteq Repo /\ Plain \in [Repo -> SUBSET {"default", "topic"}]
    /\ MaxDepth \in Nat /\ MaxMoves \in Nat
    /\ NoCommit \notin Nat
    /\ Calls \subseteq Kinds /\ Failing \subseteq Steps
    /\ Doings \subseteq {"edit", "commit", "switch", "branch", "conflict"}

VARIABLES
    wt,                \* work in the working tree that no commit holds
    stash,             \* work a git stash took out of the working tree
    branch, tips,      \* HEAD, and the commit each branch names
    conflict,          \* an unresolved merge or rebase
    remote, tracking,  \* commits the remote has, and those git here knows it has
    log,               \* every commit made
    list,              \* the session's state file: the repositories it touched
    pc, kind, root,    \* per hook: its next step, its event, what it touches
    seen,              \* the list as it read it
    todo,              \* commitFound: the visits still to make
    found,             \* probeFound's answer for the first of them
    failed,            \* the repositories it reported a failure for
    missed,            \* history: those it passed over and has not visited
    ended,             \* the Stop was not refused
    moves, disturbed, due            \* the bound and history

repos == << wt, stash, branch, tips, conflict, remote, tracking, log >>
hook  == << pc, kind, root, seen, todo, found, failed, missed >>
story == << moves, disturbed, due >>
vars  == << repos, list, hook, ended, story >>

Past(c) == IF c = 0 THEN {0} ELSE log[c].past
Link(c, s) == IF c = 0 THEN 0 ELSE log[c].link[s]
WorkIn(commits) == UNION {log[c].work : c \in commits \ {0}}
HeadOf(r) == tips[r][branch[r]]

Moved(r) == {s \in SubsOf(r) : HeadOf(s) # Link(HeadOf(r), s)}

\* git status lists anything: a submodule is listed for what it holds, too.
Dirty[r \in Repo] == wt[r] # {} \/ Moved(r) # {} \/ \E s \in SubsOf(r) : Dirty[s]

Nothing == [work |-> {}, subs |-> {}, conflict |-> FALSE]
Fails(step) == step \in Failing /\ moves < MaxMoves

Init ==
    /\ wt = [r \in Repo |-> {}] /\ stash = [r \in Repo |-> {}]
    /\ branch \in [Repo -> {"default", "topic"}]
    /\ \E old \in SUBSET Repo :    \* an earlier turn left a session branch
           tips = [r \in Repo |-> [b \in Branch |->
               IF b \in {"default", branch[r]} \/ (b = "session" /\ r \in old)
               THEN 0 ELSE NoCommit]]
    /\ conflict = [r \in Repo |-> FALSE]
    /\ remote = [r \in Repo |-> {0}] /\ tracking = remote
    /\ log = << >>
    /\ list = << >>
    /\ pc = [h \in Hook |-> "idle"] /\ kind = [h \in Hook |-> "record"]
    /\ root = [h \in Hook |-> CHOOSE r \in Repo : TRUE]
    /\ seen = [h \in Hook |-> << >>] /\ todo = [h \in Hook |-> << >>]
    /\ found = [h \in Hook |-> Nothing]
    /\ failed = [h \in Hook |-> {}] /\ missed = [h \in Hook |-> {}]
    /\ ended = FALSE
    /\ moves = 0
    /\ disturbed = [h \in Hook |-> {}] /\ due = [h \in Hook |-> [r \in Repo |-> {}]]

-----------------------------------------------------------------------------
(* The session's commands and the user.                                     *)

Moving(what) == what \in Doings /\ moves < MaxMoves /\ ~ended

\* The repositories that changed under a hook, or for which git did not answer
\* it truly.
Disturb(r) ==
    /\ moves' = moves + 1
    /\ disturbed' = [h \in Hook |-> IF pc[h] = "idle" THEN {} ELSE disturbed[h] \cup {r}]

NewCommit(r, work, subs) ==
    /\ log' = Append(log,
         [past |-> Past(HeadOf(r)) \cup {Len(log) + 1}, work |-> work,
          link |-> [s \in Repo |-> IF s \in subs THEN HeadOf(s) ELSE Link(HeadOf(r), s)]])
    /\ tips' = [tips EXCEPT ![r][branch[r]] = Len(log) + 1]
    /\ wt' = [wt EXCEPT ![r] = @ \ work]

Made == (UNION {wt[r] \cup stash[r] : r \in Repo}) \cup WorkIn(1 .. Len(log))

Edit(r) ==
    /\ Moving("edit")
    /\ \E w \in Work \ Made : wt' = [wt EXCEPT ![r] = @ \cup {w}]
    /\ Disturb(r)
    /\ UNCHANGED << stash, branch, tips, conflict, remote, tracking, log, list, hook, ended, due >>

\* History: the work a hook answers for, what no commit holds and what HEAD
\* holds.
Owed == [r \in Repo |-> wt[r] \cup WorkIn(Past(HeadOf(r)))]

\* Whoever leaves a branch, the guard too, answers for the commits on it.
Forgive(r) == due' = [h \in Hook |-> [due[h] EXCEPT ![r] = @ \cap wt[r]]]

UserCommit(r) ==
    /\ Moving("commit") /\ ~conflict[r]
    /\ wt[r] # {} \/ Moved(r) # {}
    /\ NewCommit(r, wt[r], SubsOf(r))
    /\ Disturb(r)
    /\ UNCHANGED << stash, branch, conflict, remote, tracking, list, hook, ended, due >>

UserSwitch(r, b) ==
    /\ Moving("switch") /\ ~conflict[r]
    /\ b # branch[r] /\ tips[r][b] # NoCommit
    /\ branch' = [branch EXCEPT ![r] = b]
    /\ Disturb(r)
    /\ Forgive(r)
    /\ UNCHANGED << wt, stash, tips, conflict, remote, tracking, log, list, hook, ended >>

\* git switch -c topic, or git checkout --detach.
UserBranch(r, b) ==
    /\ Moving("branch") /\ ~conflict[r]
    /\ b \in {"topic", "detached"} /\ tips[r][b] = NoCommit
    /\ branch' = [branch EXCEPT ![r] = b]
    /\ tips' = [tips EXCEPT ![r][b] = HeadOf(r)]
    /\ Disturb(r)
    /\ Forgive(r)
    /\ UNCHANGED << wt, stash, conflict, remote, tracking, log, list, hook, ended >>

Conflict(r) ==
    /\ Moving("conflict") /\ ~conflict[r]
    /\ conflict' = [conflict EXCEPT ![r] = TRUE]
    /\ Disturb(r)
    /\ UNCHANGED << wt, stash, branch, tips, remote, tracking, log, list, hook, ended, due >>

\* What the refusal tells the session to do.
Resolve(r) ==
    /\ conflict[r] /\ ~ended
    /\ conflict' = [conflict EXCEPT ![r] = FALSE]
    /\ disturbed' = [h \in Hook |-> IF pc[h] = "idle" THEN {} ELSE disturbed[h] \cup {r}]
    /\ UNCHANGED << wt, stash, branch, tips, remote, tracking, log, list, hook, ended,
                    moves, due >>

-----------------------------------------------------------------------------
(* A hook: recordRepos.                                                     *)

Stopping == \E h \in Hook : kind[h] = "stop" /\ pc[h] # "idle"

Begin(h, k, r) ==
    /\ pc[h] = "idle" /\ ~Stopping /\ ~ended
    /\ pc' = [pc EXCEPT ![h] = "read"]
    /\ kind' = [kind EXCEPT ![h] = k] /\ root' = [root EXCEPT ![h] = r]
    /\ failed' = [failed EXCEPT ![h] = {}] /\ missed' = [missed EXCEPT ![h] = {}]
    /\ disturbed' = [disturbed EXCEPT ![h] = {}]
    /\ due' = [due EXCEPT ![h] = Owed]
    /\ UNCHANGED << repos, list, seen, todo, found, ended, moves >>

\* A call of commitFound: it may go through submodules down to maxScriptDepth,
\* and when it has, or may not, what is left is the repository itself.
Visit(r, down) == [repo |-> r, down |-> down]
Call(r) == Visit(r, MaxDepth + 1)

\* The process ends, and what it knew with it.
Gone(h) ==
    /\ pc' = [pc EXCEPT ![h] = "idle"]
    /\ kind' = [kind EXCEPT ![h] = "record"]
    /\ root' = [root EXCEPT ![h] = CHOOSE r \in Repo : TRUE]
    /\ seen' = [seen EXCEPT ![h] = << >>]
    /\ failed' = [failed EXCEPT ![h] = {}] /\ missed' = [missed EXCEPT ![h] = {}]
    /\ disturbed' = [disturbed EXCEPT ![h] = {}]
    /\ due' = [due EXCEPT ![h] = [r \in Repo |-> {}]]

\* After recordRepos: a call that only touches is done, the others commit.
Recorded(h) ==
    \/ /\ kind[h] = "record"
       /\ Gone(h)
       /\ UNCHANGED todo
    \/ /\ kind[h] # "record"
       /\ pc' = [pc EXCEPT ![h] = "probe"]
       /\ todo' = [todo EXCEPT ![h] = << Call(root[h]) >>]
       /\ UNCHANGED << kind, root, seen, failed, missed, disturbed, due >>

ReadList(h) ==
    /\ pc[h] = "read" /\ kind[h] # "stop"
    /\ \/ root[h] \in Range(list) /\ Recorded(h)
       \/ /\ root[h] \notin Range(list)
          /\ seen' = [seen EXCEPT ![h] = list]
          /\ pc' = [pc EXCEPT ![h] = "truncate"]
          /\ UNCHANGED << kind, root, todo, failed, missed, disturbed, due >>
    /\ UNCHANGED << repos, list, found, ended, moves >>

\* os.WriteFile: an empty file is a list a reader takes for no repository.
TruncateList(h) ==
    /\ pc[h] = "truncate"
    /\ list' = << >>
    /\ pc' = [pc EXCEPT ![h] = "write"]
    /\ UNCHANGED << repos, kind, root, seen, todo, found, failed, missed, ended, story >>

WriteList(h) ==
    /\ pc[h] = "write"
    /\ list' = Append(seen[h], root[h])
    /\ Recorded(h)
    /\ UNCHANGED << repos, found, ended, moves >>

BeginStop(h) ==
    /\ \A g \in Hook : pc[g] = "idle"
    /\ ~ended
    /\ pc' = [pc EXCEPT ![h] = "read"] /\ kind' = [kind EXCEPT ![h] = "stop"]
    /\ failed' = [failed EXCEPT ![h] = {}] /\ missed' = [missed EXCEPT ![h] = {}]
    /\ disturbed' = [disturbed EXCEPT ![h] = {}]
    /\ due' = [due EXCEPT ![h] = Owed]
    /\ UNCHANGED << repos, list, root, seen, todo, found, ended, moves >>

\* foundAtStop walks the list it reads.
StopReads(h) ==
    /\ pc[h] = "read" /\ kind[h] = "stop"
    /\ seen' = [seen EXCEPT ![h] = list]
    /\ todo' = [todo EXCEPT ![h] = [i \in DOMAIN list |-> Call(list[i])]]
    /\ pc' = [pc EXCEPT ![h] = "probe"]
    /\ UNCHANGED << repos, list, kind, root, found, failed, missed, ended, story >>

-----------------------------------------------------------------------------
(* commitFound and commitOne, for the first visit of todo.                  *)

At(h, step) == pc[h] = step /\ todo[h] # << >>
Cur(h) == Head(todo[h]).repo
Down(h) == Head(todo[h]).down

Goto(h, step) ==
    /\ pc' = [pc EXCEPT ![h] = step]
    /\ UNCHANGED << todo, found, failed, missed >>

Leave(h) ==
    /\ pc' = [pc EXCEPT ![h] = "probe"]
    /\ todo' = [todo EXCEPT ![h] = Tail(@)]
    /\ found' = [found EXCEPT ![h] = Nothing]
    /\ missed' = [missed EXCEPT ![h] = @ \ {Cur(h)}]

\* Mutant: a result that failed is reported like the others.
Fail_Unheard(h) == Leave(h) /\ UNCHANGED failed

Fail(h) == Leave(h) /\ failed' = [failed EXCEPT ![h] = @ \cup {Cur(h)}]
Done(h) == Leave(h) /\ UNCHANGED failed

Quiet(h) == UNCHANGED << list, kind, root, seen, ended, story >>
Faulty(h) ==
    /\ moves' = moves + 1
    /\ UNCHANGED << list, kind, root, seen, ended, disturbed, due >>

\* A repository with the submodules it has, and theirs.
Beneath(r) == {q \in Repo : \A S \in SUBSET Repo :
                  r \in S /\ (\A p \in S : SubsOf(p) \subseteq S) => q \in S}

\* Mutant: the parent goes first.
LastOf_First(calls, visit) == << visit >> \o calls

LastOf(calls, visit) == Append(calls, visit)

\* The calls for the submodules it lists go first.  Nobody hears of the others.
Enter(h, subs) ==
    /\ At(h, "probe") /\ Down(h) > 0
    /\ todo' = [todo EXCEPT ![h] =
           LastOf([i \in DOMAIN subs |-> Visit(subs[i], Down(h) - 1)], Visit(Cur(h), 0)) \o Tail(@)]
    /\ missed' = [missed EXCEPT ![h] = @ \cup UNION {Beneath(s) : s \in SubsOf(Cur(h)) \ Range(subs)}]
    /\ UNCHANGED << repos, pc, found, failed >>

Descend(h) ==
    /\ Enter(h, IF Down(h) > 1 THEN Listed[Cur(h)] ELSE << >>)
    /\ Quiet(h)

\* .gitmodules cannot be read, which looks like a repository without any.
DescendBlind(h) ==
    /\ Fails("submodules")
    /\ Enter(h, << >>)
    /\ Faulty(h)

\* git status of the repository.
Probe(h) ==
    /\ At(h, "probe") /\ Down(h) = 0
    /\ LET r == Cur(h) IN
       found' = [found EXCEPT ![h] =
           [work |-> wt[r], subs |-> Moved(r) \cup {s \in SubsOf(r) : Dirty[s]},
            conflict |-> conflict[r]]]
    /\ pc' = [pc EXCEPT ![h] = "count"]
    /\ UNCHANGED << repos, todo, failed, missed >> /\ Quiet(h)

ProbeFails(h) ==
    /\ At(h, "probe") /\ Down(h) = 0 /\ Fails("probe")
    /\ Fail(h)
    /\ UNCHANGED repos /\ Faulty(h)

\* rev-list --count HEAD --not --remotes; a failure counts none.
Ahead(r) == ~ (Past(HeadOf(r)) \subseteq tracking[r])

Judge(h, ahead) ==
    IF found[h].conflict THEN Fail(h)
    ELSE IF found[h].work = {} /\ found[h].subs = {} /\ ~ahead THEN Done(h)
    ELSE Goto(h, "place")

Count(h) ==
    /\ At(h, "count")
    /\ Judge(h, Ahead(Cur(h)))
    /\ UNCHANGED repos /\ Quiet(h)

\* The hook says nothing of it; what git did not count it does not answer for.
CountFails(h) ==
    /\ At(h, "count") /\ Fails("count")
    /\ Judge(h, FALSE)
    /\ moves' = moves + 1
    /\ disturbed' = [disturbed EXCEPT ![h] = @ \cup {Cur(h)}]
    /\ due' = [due EXCEPT ![h][Cur(h)] = @ \cap wt[Cur(h)]]
    /\ UNCHANGED << repos, list, kind, root, seen, ended >>

NoOrigin(h) ==
    /\ At(h, "place") /\ Fails("origin")
    /\ Fail(h)
    /\ UNCHANGED repos /\ Faulty(h)

Onward(h) == Goto(h, IF found[h].work = {} /\ found[h].subs = {} THEN "push" ELSE "commit")

\* What commitOne reads of HEAD and, twice, of the default branch.  A read that
\* fails answers "", as a detached HEAD and an unset origin/HEAD do.
Reading == [head : Branch, one : BOOLEAN, two : BOOLEAN]
Told(r) == [head |-> branch[r], one |-> r \in HeadSet, two |-> r \in HeadSet]
Misread(r) == [head : {branch[r], "detached"}, one : {FALSE, (r \in HeadSet)},
               two : {FALSE, (r \in HeadSet)}] \ {Told(r)}

\* The guard moves work off a branch it takes for the default one, and off no
\* branch.
OffLimits(r, t) ==
    \/ t.head = "detached"
    \/ t.one /\ t.head = "default"
    \/ ~t.two /\ t.head \in Plain[r]

\* What is told wrong, a hook does not answer for.
Misled(h, t) ==
    /\ t \in Misread(Cur(h)) /\ Fails("branch")
    /\ moves' = moves + 1
    /\ disturbed' = [disturbed EXCEPT ![h] = @ \cup {Cur(h)}]

Truly(h, t) == t = Told(Cur(h)) /\ UNCHANGED << moves, disturbed >>

\* Mutant: the work stays on the branch it was found on.
Stay_Anywhere(h, t) ==
    /\ At(h, "place")
    /\ Truly(h, t) \/ Misled(h, t)
    /\ Onward(h)
    /\ UNCHANGED << repos, list, kind, root, seen, ended, due >>

Stay(h, t) ==
    /\ At(h, "place") /\ ~OffLimits(Cur(h), t)
    /\ Truly(h, t) \/ Misled(h, t)
    /\ Onward(h)
    /\ UNCHANGED << repos, list, kind, root, seen, ended, due >>

\* git switch -c, and git switch where the branch exists: then the commits of
\* the branch it leaves stay behind.
LeftBehind(r) == branch[r] # "session" /\ tips[r]["session"] # NoCommit

ToSession(h, t) ==
    /\ At(h, "place") /\ OffLimits(Cur(h), t)
    /\ Truly(h, t) \/ Misled(h, t)
    /\ LET r == Cur(h) IN
       /\ tips' = IF tips[r]["session"] = NoCommit
                  THEN [tips EXCEPT ![r]["session"] = HeadOf(r)] ELSE tips
       /\ branch' = [branch EXCEPT ![r] = "session"]
       /\ IF LeftBehind(r) THEN Forgive(r) ELSE UNCHANGED due
    /\ Onward(h)
    /\ UNCHANGED << wt, stash, conflict, remote, tracking, log, list, kind, root, seen, ended >>

SwitchFails(h, t) ==
    /\ At(h, "place") /\ OffLimits(Cur(h), t) /\ Fails("switch")
    /\ t = Told(Cur(h)) \/ (t \in Misread(Cur(h)) /\ "branch" \in Failing)
    /\ Fail(h)
    /\ UNCHANGED repos /\ Faulty(h)

\* commitPaths over the paths the probe listed, wherever HEAD is by now.
Files(h) == found[h].work \cap wt[Cur(h)]

\* Mutant: a moved submodule is not among the paths the commit takes.
Links_None(h) == {}

Links(h) == found[h].subs \cap Moved(Cur(h))

Commit(h) ==
    /\ At(h, "commit")
    /\ Files(h) # {} \/ Links(h) # {}
    /\ NewCommit(Cur(h), Files(h), Links(h))
    /\ Goto(h, "push")
    /\ UNCHANGED << stash, branch, conflict, remote, tracking >> /\ Quiet(h)

\* No commit was made: that is a failure only if the tree still differs.
NoCommitMade(h) ==
    /\ At(h, "commit")
    /\ Files(h) = {} /\ Links(h) = {}
    /\ IF Dirty[Cur(h)] THEN Fail(h) ELSE Goto(h, "push")
    /\ UNCHANGED repos /\ Quiet(h)

\* git status may fail, too: then the tree counts as different.
CommitFails(h) ==
    /\ At(h, "commit") /\ Fails("commit")
    /\ Fail(h) \/ (~Dirty[Cur(h)] /\ Goto(h, "push"))
    /\ UNCHANGED repos /\ Faulty(h)

\* git push origin HEAD.
Push(h) ==
    /\ At(h, "push")
    /\ LET r == Cur(h) IN
       /\ remote' = [remote EXCEPT ![r] = @ \cup Past(HeadOf(r))]
       /\ tracking' = [tracking EXCEPT ![r] = @ \cup Past(HeadOf(r))]
    /\ Done(h)
    /\ UNCHANGED << wt, stash, branch, tips, conflict, log >> /\ Quiet(h)

PushRefused(h) ==
    /\ At(h, "push") /\ Fails("push")
    /\ Fail(h)
    /\ UNCHANGED repos /\ Faulty(h)

\* foundPushTimeout ends the call after the remote took the commits.
PushUnheard(h) ==
    /\ At(h, "push") /\ Fails("pushUnheard")
    /\ remote' = [remote EXCEPT ![Cur(h)] = @ \cup Past(HeadOf(Cur(h)))]
    /\ Fail(h)
    /\ UNCHANGED << wt, stash, branch, tips, conflict, tracking, log >> /\ Faulty(h)

-----------------------------------------------------------------------------
(* The hook answers.                                                        *)

Over(h) == pc[h] = "probe" /\ todo[h] = << >>

Answer(h) ==
    /\ Over(h) /\ kind[h] = "commit"
    /\ Gone(h)
    /\ UNCHANGED << repos, list, todo, found, ended, moves >>

\* No found work refuses a command: the stash runs whatever the hook reported.
AnswerStash(h) ==
    /\ Over(h) /\ kind[h] = "stash"
    /\ stash' = [stash EXCEPT ![root[h]] = @ \cup wt[root[h]]]
    /\ wt' = [wt EXCEPT ![root[h]] = {}]
    /\ Gone(h)
    /\ UNCHANGED << branch, tips, conflict, remote, tracking, log, list, todo, found, ended,
                    moves >>

AnswerStop(h) ==
    /\ Over(h) /\ kind[h] = "stop"
    /\ ended' = (failed[h] = {})
    /\ IF failed[h] = {}
       THEN /\ pc' = [pc EXCEPT ![h] = "idle"]
            /\ UNCHANGED << kind, root, seen, failed, missed, disturbed, due >>
       ELSE Gone(h)
    /\ UNCHANGED << repos, list, todo, found, moves >>

-----------------------------------------------------------------------------
Others(r) ==
    \/ Edit(r) \/ UserCommit(r) \/ Conflict(r) \/ Resolve(r)
    \/ \E b \in Branch : UserSwitch(r, b) \/ UserBranch(r, b)

Works(h) ==
    \/ ReadList(h) \/ TruncateList(h) \/ WriteList(h) \/ StopReads(h)
    \/ Descend(h) \/ DescendBlind(h)
    \/ Probe(h) \/ ProbeFails(h) \/ Count(h) \/ CountFails(h) \/ NoOrigin(h)
    \/ (\E t \in Reading : Stay(h, t) \/ ToSession(h, t) \/ SwitchFails(h, t))
    \/ Commit(h) \/ NoCommitMade(h) \/ CommitFails(h) \/ Push(h) \/ PushRefused(h) \/ PushUnheard(h)
    \/ Answer(h) \/ AnswerStash(h) \/ AnswerStop(h)

Next ==
    \/ \E r \in Repo : Others(r)
    \/ \E h \in Hook : Works(h) \/ BeginStop(h)
    \/ \E h \in Hook, k \in Calls, r \in Repo : Begin(h, k, r)

Spec == Init /\ [][Next]_vars

\* A hook that runs goes on, the session ends its turn again and again, and it
\* resolves the conflicts a refusal names.  Failures end with the bound.
FairSpec ==
    /\ Spec
    /\ \A h \in Hook : WF_vars(Works(h)) /\ SF_vars(BeginStop(h))
    /\ \A r \in Repo : WF_vars(Resolve(r))

-----------------------------------------------------------------------------
(* Properties.                                                              *)

TypeOK ==
    /\ wt \in [Repo -> SUBSET Work] /\ stash \in [Repo -> SUBSET Work]
    /\ branch \in [Repo -> Branch]
    /\ tips \in [Repo -> [Branch -> (0 .. Len(log)) \cup {NoCommit}]]
    /\ conflict \in [Repo -> BOOLEAN]
    /\ remote \in [Repo -> SUBSET (0 .. Len(log))]
    /\ tracking \in [Repo -> SUBSET (0 .. Len(log))]
    /\ \A r \in Repo : tracking[r] \subseteq remote[r]
    /\ log \in Seq([past : SUBSET Nat, work : SUBSET Work, link : [Repo -> Nat]])
    /\ list \in Seq(Repo)
    /\ pc \in [Hook -> {"idle", "read", "truncate", "write", "probe", "count", "place",
                        "commit", "push"}]
    /\ kind \in [Hook -> Kinds \cup {"stop"}] /\ root \in [Hook -> Repo]
    /\ seen \in [Hook -> Seq(Repo)]
    /\ todo \in [Hook -> Seq([repo : Repo, down : Nat])]
    /\ found \in [Hook -> [work : SUBSET Work, subs : SUBSET Repo, conflict : BOOLEAN]]
    /\ failed \in [Hook -> SUBSET Repo] /\ missed \in [Hook -> SUBSET Repo]
    /\ ended \in BOOLEAN
    /\ moves \in Nat
    /\ disturbed \in [Hook -> SUBSET Repo] /\ due \in [Hook -> [Repo -> SUBSET Work]]

\* The repositories a hook is to go through.
Roots(h) == IF kind[h] = "stop" THEN Range(seen[h]) ELSE {root[h]}
Reach(h) == UNION {Beneath(r) : r \in Roots(h)}

Kept(h, r) == due[h][r] \subseteq WorkIn(remote[r]) \cup stash[r]

\* When a hook answers, the work that stood when it began, and that git showed
\* it, is on the remote of its repository, or the hook reports a failure: a stop
\* it allows and a command it lets set work aside lose none of it
\* (foundcommit.go:92, foundhook.go:45 and :117).  It does not answer for the
\* commits of a branch somebody left, the guard among them, nor for a submodule
\* that no .gitmodules it could read led it to, though "it answers a result for
\* every repository that held found work" (foundcommit.go:92-94).
FoundWorkIsPushed ==
    \A h \in Hook : Over(h) => \A r \in Reach(h) \ (failed[h] \cup missed[h]) : Kept(h, r)

\* A gitlink the guard publishes names a commit the submodule's remote has,
\* unless the same hook reports the submodule or passed it over, it changed
\* meanwhile, or git did not answer truly for it (foundcommit.go:92: a submodule
\* goes first).  A branch the probe did not see, switched to under the hook or
\* the session's of earlier, may bring a link of its own to a commit the
\* submodule is not at.
GitlinksResolve ==
    [][\A h \in Hook, r \in Repo : (At(h, "push") /\ Cur(h) = r /\ remote'[r] # remote[r]) =>
         \A s \in SubsOf(r) \ (failed[h] \cup disturbed[h] \cup missed[h]) :
             \/ Link(HeadOf(r), s) \in remote[s]
             \/ Link(HeadOf(r), s) # HeadOf(s) /\ (r \in disturbed[h] \/ branch[r] = "session")]_vars

PushesDefault(r) == remote'[r] # remote[r] /\ branch[r] = "default"
Surprised(r) == \E h \in Hook : At(h, "push") /\ r \in disturbed[h]

\* What the code can tell the default branch by.
Nameable(r) == r \in HeadSet \/ "default" \in Plain[r]

\* "The default branch takes no direct push" (foundcommit.go:160), unless
\* somebody changed the repository while the hook was running, git did not say
\* truly which it is, or there is nothing to tell it by: with no origin/HEAD the
\* code knows master and main only (foundcommit.go:158-159).
NoDirectPush ==
    [][\A r \in Repo : PushesDefault(r) => Surprised(r) \/ ~Nameable(r)]_vars

\* When a turn ends that nobody disturbed, every commit of a repository it
\* touched is on its remote (found.go:1-3).  The code breaks it: a commit on
\* the default branch is left behind when the session branch already exists.
NothingLeftBehind ==
    ended /\ (\A h \in Hook : disturbed[h] = {}) => \A r \in Range(list), b \in Branch :
        tips[r][b] # NoCommit => WorkIn(Past(tips[r][b])) \subseteq WorkIn(remote[r])

\* However often it is refused, a turn can end, if the session is between its
\* tool calls again and again (foundhook.go:117).
Ends == []<>(\A h \in Hook : pc[h] = "idle") => <>ended
=============================================================================
