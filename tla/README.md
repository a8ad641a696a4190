# slopfix, specified

A TLA+ verification development of slopfix: modules that model its parts, TLC configurations that check them on small instances, and TLAPS proofs of what matters most for every instance. `PROJECT.json` lists the components, runs, mutants, findings, hazards and theorems, and maps each definition to the lines it stands for. Paths below are relative to `src/`.

1. [The system](#the-system): components, state, operations, interaction
2. [What is hard](#what-is-hard)
3. [The modules](#the-modules): how state and actions correspond to the code
4. [The runs](#the-runs): what each checks, its bounds, the fairness assumed
5. [The proofs](#the-proofs)
6. [Where code and docs part](#where-code-and-docs-part)
7. [What is not modelled](#what-is-not-modelled)
8. [Plan](#plan)

Modules run with `tlc -config X.cfg MCModule.tla`, proofs with `tlapm Module_proofs.tla`.

## The system

slopfix judges and repairs text: markdown, comments, workflows, the layout of a repository. The same binary is a command (`check`, `fix`), a CI step, an editor's language server and a hook of Claude Code, which starts one process per event. Nothing survives a process but files: the repaired tree, the git repository, and markers and caches in temporary and cache directories. Nearly every hard behaviour comes from that: several processes, started by parallel tool calls, share those files with no lock.

### Repairing text

| Component | State | Operations | Correct when |
|---|---|---|---|
| `edit` | none; a call works on a source, a batch of edits, a scope | `Gate`, `Splice`, `Scope.Shift` | what is written parses or is the source; the landed edits are disjoint and in scope; a bad edit costs only itself; no byte outside the scope changes |
| `fixer`, the gates of each file kind (`treecomments`, `markdown`, `goformat`) | an open file: text, scope, report | `Run`, `Apply` | every rewrite goes through the kind's gate |
| `fix.go` | none | `Fix`, `fixAll`, `fixText`: rounds of all fixers until the text holds, at most `fixRounds`; fork ownership carried across | the rounds settle; lines a fork does not own are left alone |
| `tree.go`, `fixfile.go` | the files of the tree; per run: which files are judged, the repairs, the merge's place | `treeRun`, `judgeFile`, `writeCreated`, `FixFileWith` | no file is written over with another's text; a killed run leaves every reference whole; a run leaves nothing for the next |
| `goembed`, `workflow/extract.go` | the new files a repair creates | `planFor`, `claimEarlier`, `extractTests` | each moved text is what its file names; one variable each |
| `split.go` | none | a root file over its budget is cut by sections, then at its tail | no line is lost |
| text rules (`ste`, `english`, `counts`, `cardinal`, `tombstones`, `table`, `commentfix`, `workflow`, `pins`) | none | findings and rewrites of one text | pure functions over language and tables |
| repository rules (`repo.go`, `rootfiles.go`, ...) | none | findings over a finished walk | functions of the tree |

A fixer asks a rule for rewrites, and hands them to the gate as edits. `fixText` runs the fixers of a kind in rounds. `treeRun` walks the tree with `walktree`, lets workers judge each file and merges their repairs in walk order; `FixFileWith` repairs one file and is what the hook and the language server call.

### Walking and reading

| Component | State | Operations | Correct when |
|---|---|---|---|
| `walktree` | per process: a tree's listings, its memo; on disk: a cache of listings by mtime, shared by processes | `Get`, `Visit`, `Created`, `Removed`, the parallel walk, load and save of the cache | a walk lists what an uncached walk would; a matching mtime never lies |
| `gitread`, `gitmod` | bounded caches of immutable objects | read git's store | agrees with git |
| `forkscope`: base | on disk: a record of the network's answers, replaced by rename; the clone, its shallow file and FETCH_HEAD | `Base`: record, fetch, deepen, compare | the base is the one whole histories have, however little the clone holds; the network is asked once an hour |
| `forkscope`: owned lines | none | diff, `Carry`, `WidenComments`, `Keep`, reflow | what lands on a line the fork does not own is nothing; no word is lost |
| `memo` | a map cleared when full | `Get` | pure results only |
| `langserver` | open documents; the walk of its process | one request at a time | diagnostics are those of the text sent |

### Answering hook events

| Component | State | Operations | Correct when |
|---|---|---|---|
| `cmd/hook.go`, `cmd/guards.go` | none | run an event's guards in order, thread rewrites, merge answers | the first refusal wins; no rewrite is lost |
| `cmd/placement.go`, `cmd/handfix.go` | none | repair an edit where it lands | the repair changes only what the edit wrote |
| `noworkloss`: preserve, then allow | the repository: disk, index, branch, remote | `judge`, `preserve`, `commitPaths` | nothing the command destroys is lost |
| `noworkloss`: found work | a session's list of repositories, rewritten with no lock; the repositories and their submodules | record, commit and push, submodules first, before and after a command and at Stop | unfinished work that it is led to reaches a remote or is reported before the session ends; no published gitlink dangles; the default branch is not pushed |
| `noworkloss`: routes | none | from a shell command to the paths it may destroy | tables of programs and flags |
| `mdbudget` | a session's marker: snapshot, offenders, refused signatures, candidates; rewritten with no lock | SessionStart seeds, PostToolUse sweeps and records, Stop refuses | a file is refused once per content, nothing untouched is blamed, no offender slips through, wherever the session goes |
| `busypoll` | none; reads the tail of the transcript, which the harness writes while calls run | refuse a status read; refuse a Stop after a streak of equal turns | a refusal rests on evidence in the window, and lapses; every turn can end |
| `bashclean`, `autoallow`, `laziness`, `agentlaunch`, `rustfmt`, display guards | none | pure decisions and rewrites | agree with their tables |
| `ratchet` | git | `CheckIn`: judge a branch against its base | never passes what grew |

The dispatcher calls the guards of an event one after another in one process. Parallel tool calls mean parallel processes: `mdbudget`, found work, `walktree`'s cache and the repository itself are what they share.

## What is hard

The hazards are listed with their lines in `PROJECT.json`. They fall into these groups.

- **Concurrency without locks.** Marker files (`mdbudget/marker.go:81`, `noworkloss/found.go:66`), the walk cache (`walktree/cache.go:111`), the repository while `commitPaths` runs ten git commands (`noworkloss/preserve.go:132`), two runs over one tree (`goembed/repair.go:67`).
- **Plans made before writes.** Every file is judged before the first is written (`tree.go:130`), every finding of a command rests on one `git status` (`noworkloss/repo.go:50`).
- **Partial failure.** Any git step fails or times out after it did its work; a read that fails looks like an answer (`noworkloss/foundcommit.go:80, 129`); a new file is written and the one that names it is not; a marker is truncated before it is written.
- **Caches that outlive the truth.** A directory's mtime has a granularity; a pruned worktree is known only after its parent's listing was recorded; a candidate list is two minutes old, and of the folder its walk began in (`mdbudget/marker.go:110`).
- **Boundaries.** Edits that touch, a group of one, a scope's end; an empty snapshot; an empty chain of commits.
- **Progress.** A refused Stop that must not be refused for ever, a subject that must open again, a search of a shallow clone's history that must end, rounds that must settle.
- **Order within one answer.** Thirteen guards rewrite one tool input and join their refusals (`cmd/guards.go:200, 322`); an edit is moved, repaired, widened and cut back (`cmd/placement.go:183`, `cmd/handfix.go:320`); a repair is kept to some lines by diffs of diffs (`forkscope/reflow.go:41`).

Real, and not in the list of `PROJECT.json` for want of a property that could state what the code promises there: two hooks that rewrite the found-work list at once (`noworkloss/found.go:66`; `FoundWork` has the steps, its properties speak of the list as it is, and its instance has one hook), the sweep that takes over another hook's snapshot (`mdbudget/marker.go:159`) or an empty one (`marker.go:142`), a repair written over what an editor just saved (`tree.go:150`), the gate's second plan and two processes that take one name (`goembed/goembed.go:80`, `goembed/repair.go:67`), the walk a language server never forgets (`walktree/walk.go:82`), the claim that replays what an earlier file's repair takes (`goembed/repair.go:129`; `TreeRun` has it, and `NamesItsOwnText` rests on it), a commit of somebody else that `update-ref` drops from the branch (`noworkloss/preserve.go:132`; `NoWorkLoss` has it, but its properties speak of what no commit held when judging began), and a guard asked after a refusal (`cmd/guards.go:193`; proved, see below).

## The modules

Each component has a module with its state and actions, an `MC` module with the instance, and a `_proofs` module where something is proved; `HookGuards_proofs` serves the dispatcher and one of the guards it asks, `BusyPoll`. The components interact through files and through calls that return, so each is composed with the other processes and the environment it shares those files with. `edit.Gate` inside `TreeRun` would multiply states and tell its properties nothing new, so `TreeRun` takes a repair as a whole and `EditGate` says what a repair is. The pure algorithms are composed as the code composes them:

```
Text <- FixText <- Placement <- HandFix <- HookWrite        the hook on a write
Edits <- EditGate, FixText                                  edits, splice, scope
Text <- ForkLines;  FixText, ForkLines <- ForkFix           a repair in a fork
Myers, Split                                                on their own
HookPromise <- HookDispatch <- MCHookDispatch -> GuardTable the dispatcher
```

### Edits, EditGate: `edit/edit.go`

`Edits` has what every repair is made of: an edit, a scope, `Splice` and `Shift`.

One call of `Gate`. Its inputs are the source, the edits, the scope, the edits the parser bars (`reach`) and the texts it accepts (`holds`): both predicates are arbitrary sets. `pc` is the part of the function that runs: the loop that triages the sorted edits (`Drop`, `Refuse`, `Keep`), the batch tried as a whole (`NoCandidates`, `Batch`, `Split`), and the bisection `settle`, whose recursion is the explicit `stack` of index ranges (`SettleEmpty`, `SettleLand`, `SettleRefuse`, `SettleHalve`, `Finish`). A group is tried together with what has landed, as in the code. `asked` counts reparses.

### NoWorkLoss: `noworkloss/decide.go`, `preserve.go`, `repo.go`

The repository is `disk`, `index`, `head` and `remote`. A branch is the sequence of its trees, so a commit is named by its history, as a hash does. A command is a sequence of findings, each with the paths it touches, whether tracked or untracked content is at risk, and what it does to the disk. The hook judges the findings in order (`seen` is the status it reads once), and preserves with one action per git command of `commitPaths`: the probe and the temporary index, `read-tree`, `rev-parse HEAD^{tree}`, the listing of staged entries, `update-index --cacheinfo`, the staged tree, `add`, `write-tree`, `commit-tree` per tree, `update-ref`, `reset`, `push`. Each step named in `Failing` may fail, and those that change the repository may also fail after their work is done, which is a timeout. Between any two steps another session or the user may commit (`PeerCommits`, at most `Peers`). `Run` is the command itself, after the hook allowed it.

The shell walk that produces findings is an input. A stash, an unreachable commit and an unresolved operand are one verdict, `denied`.

### WalkTree: `walktree/walk.go`, `cache.go`, `change.go`

The file system is a fixed universe of paths with a `present` set, an `mtime` per directory and a `clock`; stamps are rounded down to `Grain`. The cache file holds a listing per directory. A process loads it (`Start`), stats directories (`Stat`, `StatCached` when the mtime matches, `StatGone`), reads them (`Read`, `ReadGone`), in any order as its workers do, and in `Finish` unlists the worktrees from their parents and saves the cache when enough was read, dropping the listings that are `racy`. `Own` is a change the process makes itself and reports through `Created` or `Removed`; `Change` is anyone else's. `foreign` remembers that somebody else changed the tree during a process's walk, which is when no listing is promised.

The memo's locks, the order and callbacks of `Visit`, and `List` are left out.

### TreeRun: `tree.go`, `fixfile.go`, `goembed/repair.go`, `workflow/extract.go`

A file is the sequence of its hoistable strings: Go strings that hold another language, `run:` scripts that hold a test. `Judge` is a worker's whole judgement of one file against the disk: up to `FixRounds` passes of `GoPlan` (`planFor`: the claims of the package's earlier files, then the plan of this one) or `MoveSteps` (`extractTests`), then each new file settled by the rules (`Settle`, what every rule makes of a text). `Merge` waits for every worker, then the repairs land in walk order: each created file (`WriteCreated`) before the file that names it (`WriteFile`). A write may fail (`WriteFails`), the process may be killed (`Crash`), and between runs an author adds a string (`Author`). A run is of the whole tree or of one file.

### MdBudget: `mdbudget/hook.go`, `marker.go`, `budget.go`

A version of a file stands for its signature, size and mtime. Tool calls (`Write`, `Bash`, `Read`, `Other`) run in slots at the same time, and each call's PostToolUse hook has its reads and its writes of the marker as separate steps: `SweepRead`, `SweepWrite`, `Pass` over each file that differs, `RecordRead`, `RecordWrite`, `Done`. `Seed` is SessionStart, which is also sent again after a compaction. Stop is one step, as no tool call runs then: `StopBlocks`, `StopPasses`, `StopWaves`. `Outside` is another program's edit, `Lose` the loss of the marker; a hook that reads while another's `os.WriteFile` has truncated the file reads nothing, and that is counted with the losses.

Every event names the folder the session is in, and a hook that walks lists what is under that one (`Candidates(cwd)`): `Seed` and `SweepWrite` take any folder, and `SweepWrite` takes the marker's list or a walk, as nothing bounds the time between two hooks. `dropped` is history: the files a walk has left out since they changed.

The measure of a file is the bit `big`. The reports' wording is left out.

### FoundWork: `noworkloss/found.go`, `foundhook.go`, `foundcommit.go`

Each repository has a working tree (`wt`), a stash, a branch out of the default, the session's, a topic branch and none (a detached HEAD), the tip of each, what its remote has and what the clone knows of it (`tracking`). A commit is a number in `log`, which gives what it contains and its gitlinks. A hook reads the session's list, truncates it and writes it (three steps, no lock), then visits the repositories. `todo` is the recursion of `commitFound` as a queue: a call of a repository puts the calls for its submodules before the repository itself (`Descend`), down to `MaxDepth`. Then come `Probe`, the count of unpushed commits, the place to commit (`Stay`, `ToSession`), the commit, the push. Between any two steps the session and the user edit, commit, switch, branch, leave a conflict. A Stop that a failure refuses is tried again.

Each of these steps may fail, and the code hears of some failures only. A push may fail after it did its work. A `git config` of `.gitmodules` that fails is a repository without submodules (`DescendBlind`); `Listed` is what `submodules` makes of a `.gitmodules` it can read, which leaves out a path of two words and a submodule that is not checked out. A `symbolic-ref HEAD` that fails is a detached HEAD, and one of `origin/HEAD` that fails is one that is not set (`Reading`, `Misread`): the code reads the latter twice (`foundcommit.go:159`), and each read may fail alone. `HeadSet` says where `origin/HEAD` is set, `Plain` which branches are called master or main.

Which repositories a command line names is an input. Four variables are history, and say what a hook does not answer for. `due` is what stood when the hook began, less what lies on a branch that somebody left meanwhile, the guard among them, and less the commits it could not count (`Forgive`, `CountFails`). `disturbed` are the repositories that changed under it, or for which a read answered wrong. `missed` are those below a submodule it passed over, until it visits them another way. `moves` counts surprises.

### HookDispatch, HookPromise, GuardTable: `cmd/guards.go`

`GuardTable` is the table: the order of the thirteen guards, the events each serves, the shapes of answer its code can write. `HookDispatch` puts one event to the guards that serve it: `preToolUse` one after another, threading rewrites, until the first refusal; the display event, one text through all; the other events, all of them, merged. An answer is the set of its parts, and each part of the reply is the set of guards whose words it holds. `HookPromise` is the abstract specification: what was said, and one step to an answer that refuses with every reason or holds everything said. `HookDispatch` implements it under the mapping at its end.

### BusyPoll: `busypoll/*.go`

The session writes records (a prompt, a call, an answer, a wake), the transcript keeps the last `Kept` of them, and `Tick` makes them older, counted no further than `Gap + 1`. `Refused` is the guard on a status read (`judgeCall`: settled, or read and answered since the last signal), `PollingStop` the guard on a Stop (`streak`). A turn makes up to `MaxCalls` calls, in parallel; other guards may refuse its Stop too. Which call is a status read and which wording settles a subject are inputs.

### ForkBase: `forkscope/forkscope.go`, `listed.go`, `shallow.go`, `repo.go`

A world is a history of commits in date order, what the network says of the repository as time goes on, and how deep the clone is. The clone is the set of commits it has (`have`), the ones it has cut (`shallow`), HEAD and FETCH_HEAD. A process (`Begin`) reads the record (`ReadRecord`), or asks who the repository is (`Identify`), what upstream tags (`ListTags`) or what the parent's branch is (`Fetch`, `Resolve`) and keeps it (`Store`). A listed fork deepens the clone (`Deepen`, `Unshallow`), looks for a tag in HEAD's history (`Tagged`) or for the closest snapshot (`Snapshot`); a fork of a parent looks for the merge base and deepens both remotes by turns (`Merge`, `Look`, `DeepenParent`, `DeepenOwn`, `Compare`). Every call may fail. Meanwhile remotes move, and the user fetches, prunes and checks out. Two variables are history: `others` is who ran beside a process or began after it (a prune counts as everybody), and a record is `pure` when no other fetch moved FETCH_HEAD under the process that made it.

What `git fetch` does to a shallow clone was compared with git 2.39: `--depth` gives back the parents of what is nearer and cuts at the last generation whatever was there before, `--deepen` counts from where the clone ends.

### Text, FixText, Placement, HandFix, HookWrite: the hook on a write

`Text` has what the code does with Go's strings and with a line diff. `FixText` is `fixText`: fixers in order, each through the gate, passes until the text holds. `Placement` (`cmd/placement.go`) replays an edit on the file, repairs the result inside the edit's span, widens the span to the paragraph and cuts the new text out. `HandFix` (`cmd/handfix.go`) repairs the lines an edit wrote and folds the whole into one edit that the tool can place. `HookWrite` is `judge` of `cmd/hook.go`: both, in their order.

### ForkLines, ForkFix, Myers: a repair in a fork

`ForkLines` (`forkscope/scope.go`, `reflow.go`, `lines.go`): which lines a fork wrote, how they follow a repair (`Carry`), how far they reach (`Widen...`), what of a repair may land (`Keep`, with the rewraps `reflow.go` takes apart). `ForkFix` (`fix.go`, `forkscope.go`) is the repair around it: whole, kept, alone, folded, block by block. `Myers` (`forkscope/myers.go`) is the shortest diff by searches from both ends.

### Split: `split.go`

A root file over its budget loses its largest sections to documents of their own, level by level, and then its tail.

## The runs

Every property has a mutant: a change of one mapped definition, of the kind a plausible bug would be, under which the run finds the property violated. The mutants stand in the modules above the definitions they change.

| Run | Configuration | Checks | Distinct states | Shows |
|---|---|---|---|---|
| `edit_gate` | `MCEditGate.cfg` | `ResultHolds`, `OutsideSurvives`, `OneBadEditCostsOnlyItself`, `FewReparses` | 73,851 | Every list of up to three edits over a four byte source, and four- and five-edit batches under every coupling of at most two pairs: what lands holds, stays in scope, and the bisection costs only the bad edits. |
| `nwl_peers` | `MCNoWorkLoss.cfg` | `JudgedIsCommitted`, `WorkingKept`, `StagedKept`, `PushedMeansRemote` | 1,233,368 | Every index and disk over a born branch, commands of one or two findings, any git step but read-tree and the staged listing failing, one commit of another session at any point: nothing that stood in the working tree or the index is lost. |
| `nwl_alone` | `MCNoWorkLossAlone.cfg` | `BystandersKept`, `NoEmptyCommit` | 267,478 | Born and unborn branches with nobody else committing, and the staged listing failing too: no path that is not at risk is disturbed, and no empty commit is made. |
| `found_work` | `MCFoundWork.cfg` | `FoundWorkIsPushed`, `Ends`, `GitlinksResolve`, `NoDirectPush` | 839,018 | A repository and its submodule on any branch, tool calls, stashes and Stops in any order, two surprises (an edit, a commit, a switch, a conflict, a git step or read that fails) between any two steps: what stood when a hook began is pushed or reported when it answers unless an unread `.gitmodules` hid the repository, a published gitlink resolves unless a branch the probe did not see brings it, a default branch that can be told is not pushed, and the turn can end. |
| `found_behind` | `FoundWorkBehind.cfg` | `NothingLeftBehind` | violated | With nothing failing, a second commit on the default branch stays on this machine, because the session branch is there already, and the turn ends. |
| `hook_dispatch` | `MCHookDispatch.cfg` | `JudgedAsRun`, `KeepsPromise` | 33,160 | The thirteen guards, every event and kind of tool, every subset of the guards that serve it and every answer each can write: later guards judge the input that runs, and the dispatcher implements `HookPromise`. |
| `busy_poll` | `MCBusyPoll.cfg` | `RefusalIsGrounded`, `NoWastedRead`, `Reopens`, `TurnEnds` | 176,101 | One pull request two tools can read, turns of up to two calls that may run in parallel, a tail of five records: reads are refused exactly when they can learn nothing, no subject stays shut, and every turn ends. |
| `md_budget` | `MCMdBudget.cfg` | `NeverTwice`, `BlamesOnlyChanged`, `EndsKnown` | 2,003,151 | Two tool calls whose hooks interleave over one marker, an edit by a tool or another program, two calls that change nothing, a torn read or a lost marker, and any walk of the project's folder or of another: a file is refused once per content and loss, blamed only if it changed, was named or was left out by a walk, and calls made one at a time end no turn with a watched file unrefused that no walk left out. |
| `tree_run` | `MCTreeRun.cfg` | `NamesItsOwnText`, `NothingStranded`, `LeavesNothing`, `HeldStays` | 111,886 | Tree runs and single-file repairs of a package and a workflow, by one process with texts the rules change or by two at once with settled texts, alike or different, with a failed write or a kill anywhere and an author between runs: no file is written over, everything moved keeps its own text, and a run leaves nothing for the next. |
| `walk_tree` | `MCWalkTree.cfg` | `WalkIsTrue`, `MatchMeansSame` | 760,745 | Two processes walk one root at once, change it, load each other's cache and overwrite it while others change the tree too, under the tightest racy window the mtime granularity allows: a quiet walk lists what an uncached one would, and a matching mtime never lies. |
| `fork_base` | `MCForkBase.cfg` | `BaseIsRight`, `AsksOnce`, `InProportion` | 1,398,813 | Two processes in a clone, whole or shallow, of a fork of a parent that moves on, of forks that merged or squashed a listed upstream, of a repository that becomes a listed fork, or of a branch rewritten at origin, with one failure or one act of the user or the remotes anywhere: every base is that of the whole histories, the second of two processes that follow one another does not ask the network, and the search stays in proportion. |
| `algorithms` | `MCAlgorithms.cfg` | `PlacesOnce`, `JudgedIsWritten`, `KeepsUnwritten`, `WordsStandOnce`, `ForeignLinesStand`, `ShortestScript`, `SplitKeeps` | 176,918 | Every edit of one place in texts of up to three lines, edits of every place and pairs of edits in short ones, four-word rewraps kept to every set of lines, repairs of bases of up to three lines in a fork, diffs of up to five lines and splits of five-line files. |

### What the properties say

- **EditGate.** `ResultHolds`: the text is one the parser accepted, or the source. `OutsideSurvives`: bytes outside a bounded scope survive and the shifted scope still ends where the tail begins. `OneBadEditCostsOnlyItself` and `FewReparses`: what the comment on the bisection promises, and its price.
- **NoWorkLoss.** `JudgedIsCommitted`, `WorkingKept`, `StagedKept`: the invariant of decision-model.md for the working tree and the index. `BystandersKept`, `NoEmptyCommit`: what a preservation may not do. `PushedMeansRemote`: the notice is honest.
- **FoundWork.** `FoundWorkIsPushed`: what a hook answers for is on a remote or reported when it answers, in every repository but those it passed over without knowing (`missed`). `GitlinksResolve`: no published gitlink names a commit the submodule's remote lacks, unless the hook reported or passed over the submodule, it was disturbed, or a branch that the probe did not see brings a link of its own. `NoDirectPush`: the default branch is pushed only if the repository was disturbed or nothing tells the branch (`Nameable`). `Ends`: a Stop is not refused for ever. `NothingLeftBehind` is what the comment at the head of the file promises without these conditions, and is violated. What each condition leaves out is listed [below](#where-code-and-docs-part).
- **HookDispatch.** `JudgedAsRun`: the input the tool runs with was judged by every guard after its last rewrite and holds every rewrite. `KeepsPromise`: the refinement of `HookPromise`.
- **BusyPoll.** `RefusalIsGrounded` and `NoWastedRead`: a read is refused on evidence in the window, and runs only without. `Reopens`: no subject stays shut. `TurnEnds`.
- **MdBudget.** `NeverTwice`: a file is refused once per content, plus once per loss. `BlamesOnlyChanged`: what is held against the session changed, a call named it, or a walk of another folder left it out. `EndsKnown`: when tool calls ran one at a time, no turn ends unopposed over a watched file they wrote too big, unless a walk left it out before it was noted. Without `dropped` the last two would be what a test and a comment promise, and are violated: see [below](#where-code-and-docs-part).
- **TreeRun.** `NamesItsOwnText`: at every moment, what a file names holds that file's text. `HeldStays` (nothing on disk is written over with another text), `NothingStranded` (every file a run made is named), `LeavesNothing` (a tree run that met no failure leaves nothing movable).
- **WalkTree.** `WalkIsTrue`: a walk nobody disturbed lists what an uncached walk would, through the cache and the process's own changes. `MatchMeansSame`: a cached listing with the directory's own mtime is the directory's listing, whoever wrote it.
- **ForkBase.** `BaseIsRight`: the answer is the merge base, the tagged commit or the closest snapshot of docs/fork-scope.md (the newest of several, the merge base last), computed on whole histories and on what the network said within the record's life. `AsksOnce`: of two processes that answered one after the other, for one HEAD and with nothing pruned between, the second does not use the network while the first one's record holds, unless the clone of a listed fork stays cut. `InProportion`: a search nobody disturbs asks for less than twice the generations down to the base, and gives up within four times the history where no base can show.
- **Algorithms.** `PlacesOnce`: an edit the hook hands back stands in the file once and writes what was decided. `JudgedIsWritten`: the file the hook judged is the file the tool writes. `KeepsUnwritten`: a line the edit left alone comes out as it was and in its place. `WordsStandOnce`: keeping a rewrap to some lines neither loses nor repeats a word. `ForeignLinesStand`: a line the fork does not own stands as it was. `ShortestScript`: the diff is right and shortest. `SplitKeeps`: a split loses no line and doubles none, comes down to the target and leaves no fence open.

### Bounds, and why they are enough

- **EditGate.** Every list of up to three edits from a pool of nine that insert, replace, delete, overlap, abut, and leave the scope or the source: a triage decision depends on one edit and the one kept before it. Three and four disjoint edits under every pair of couplings "text with W and without V is rejected": a coupling of two edits is the smallest parser that judges a group differently from its members. Five edits under every set of bad ones reach a split of odd groups twice.
- **NoWorkLoss.** Two paths (one at risk, one bystander, or both), three contents (committed, staged or written later, written last), one earlier commit or none, commands of one or two findings: a second finding is what makes the status stale. One peer commit at any point. The listing of staged entries fails only in `nwl_alone` and the unborn branch is only there, because there `StagedKept` does not hold: see below.
- **FoundWork.** One submodule, one piece of work, one hook at a time beside the session and the user, two surprises: one to make the work or the failure and one to undo what the hook decided. The two repositories differ in what tells their default branch: `origin/HEAD` for the parent, which also has a topic branch called main, and the name main for the submodule. Larger instances were checked for the safety properties: two pieces of work with 1.6 million states; a chain of three repositories of which `MaxDepth = 1` leaves the last one out, and one surprise, with 2.5 million; two hooks at once over one repository (without `GitlinksResolve`, which is not about them) with 408,000. Two hooks over two repositories are more than TLC can exhaust here, and are the proofs' matter.
- **HookDispatch.** The table is the real one: nothing is bounded but that a guard answers a call once.
- **BusyPoll.** One subject, because a refusal looks at one; two tools, as they stand for each other; `Gap = 0`, an age of none or some, which is what the window tells apart (`Gap = 1` passed too); a tail of five for turns of two calls, the shortest that the assumption `Kept > 2 * MaxCalls` allows.
- **ForkBase.** Histories of three to eight commits: the base is two doublings away in the deepest. Two processes, since the record, the clone and FETCH_HEAD are each held by one at a time. One tick is the record's life: `CacheTTL = 0` and `MaxTime = 1` are the cases "within" and "after". One surprise at any step, a failed call included. Three processes with a record that lives a tick more and two surprises were checked too, on some of the worlds.
- **Algorithms.** Words, line ends and comment marks stand for bytes; six words are each the occasion of one kind of repair (in place, dividing, joining, moving, with the word before it, by the loss of the line). Four bytes or three lines are enough for every edit to lie before, at, in, across and after a repair.
- **WalkTree.** A root, a `node_modules`, a directory that may be a worktree, its marker and a file; two processes; a granularity of two ticks with the shortest racy window that `Guard >= Grain - 1` allows. The clock takes three values: a walk in the tick of a change, one a tick later under the same stamp, and one after the stamp has moved on, which are the cases around the racy window's edge. A third process adds nothing: only one cache file is shared, and the oldest and the newest walk suffice to race.
- **TreeRun.** `Lone`: one process, four Go files of one package whose strings want one name (one file generated, one with two strings, a test whose string moves to testdata) and a workflow, texts that the rules change, a name held by a foreign file. `Pair`: two processes, two Go files that hold one text twice, settled texts. `Distinct`: two processes, two Go files and a workflow, settled texts, no two alike. Two runs, one fault, one authored string. `Tries` is 7 where the code has 100, and no string of these packages runs out.
- **MdBudget.** Two tool calls at once, a file of the project and one under the home directory, a folder with the project's file and one without, one edit, two looks, one loss. A file that was too big from the start is named, refused, changed, and can be refused again; one walk can leave it out and the next can find it. With two edits and one look the properties hold in 6,251,569 states.

`CHECK_DEADLOCK FALSE` stands in every configuration but `busy_poll`'s, whose session runs for ever: elsewhere a call returns, a command is done, and the bounded counters run out.

### Fairness

`FoundWork` assumes that a hook that has begun runs (`WF(Works)`, the same timeouts), that a turn which could stop again and again does (`SF(BeginStop)`: the harness sends Stop when the session makes no further call), and that the session resolves a conflict it was told of (`WF(Resolve)`). `Ends` also asks that hooks are between their calls again and again. Failures need no fairness: each uses up the bound, and a remote that refused for ever would be right to hold the turn.

`BusyPoll` assumes that a call is answered (`WF(Result)`), that a refused Stop is answered with a turn that makes no call (`WF(StopRefused)`), that the other guards let a Stop go in the end (`SF(Stop)`), and that time passes (`SF(Tick)`).

The other modules, `NoWorkLoss` among them, state safety only. `ForkBase` says that a search ends by a measure, `InProportion`, and not by fairness.

## The proofs

TLAPS checks the theorems below for every value of the constants that meets the named assumptions.

| Theorem | Says | Assumes |
|---|---|---|
| `EditGate_proofs!Inductive`, `TypeCorrect` | the invariant below, types | `InputsAssumption` |
| `EditGate_proofs!ResultAlwaysHolds` | `ResultHolds` for every parser, source and batch | the same |
| `EditGate_proofs!AppliedAlwaysDisjoint` | what landed is in scope, in bounds, allowed and disjoint, so `Splice` never slices backwards | the same |
| `EditGate_proofs!NeverSkips` | the bisection visits left to right and passes over no candidate | the same |
| `EditGate_proofs!AsksFew` | `FewReparses` for a batch of any length, however the parser couples its edits | the same |
| `EditGate_proofs!OutsideAlwaysSurvives` | `OutsideSurvives` for every source, scope and batch | the same |
| `EditGate_proofs!BadEditCostsOnlyItself` | `OneBadEditCostsOnlyItself`, the same | the same |
| `NoWorkLoss_proofs!Inductive`, `TypeCorrect` | the invariant below, types | `ConstantsAssumption`, `ReadTreeWorks` |
| `NoWorkLoss_proofs!LetThroughMeansCommitted` | `JudgedIsCommitted` for every repository, command, failure and number of peer commits | the same |
| `NoWorkLoss_proofs!WorkingAlwaysKept` | `WorkingKept`, the same | and `FindingsCover`: a command destroys only what its findings name |
| `NoWorkLoss_proofs!StagedAlwaysKept` | `StagedKept`, the same | and `ListWorks`, `Born`: the listing of staged entries does not fail, the branch has a commit |
| `NoWorkLoss_proofs!BystandersAlwaysKept`, `NeverEmpty` | `BystandersKept`, `NoEmptyCommit` | and `NobodyElse`: no peer commits; for the second, `HeadTreeWorks` |
| `NoWorkLoss_proofs!PushedIsRemote` | `PushedMeansRemote` | as `Inductive` |
| `FoundWork_proofs!Inductive`, `DefaultNeverPushed` | the invariant below, `NoDirectPush` for any number of repositories, hooks, submodules, wrong answers and surprises, wherever `origin/HEAD` is set | `ConstantsAssumption` |
| `FoundWork_proofs!TypeCorrect` | types, and that whatever a branch, a remote or a gitlink names was committed | the same |
| `FoundWork_proofs!FoundWorkAlwaysPushed` | `FoundWorkIsPushed` for any number of hooks at once, repositories and surprises, whatever `.gitmodules` lists and however deep submodules nest | the same |
| `FoundWork_proofs!GitlinksAlwaysResolve` | `GitlinksResolve`, the same | and `Alone`: one hook at a time; `Proper`: no repository is its own submodule |
| `HookGuards_proofs!DispatchTypes`, `RefusalsHeard`, `AllSaid`, `InputJudged`, `RefusalEnds` | types; every reason is in the reply; without a refusal everything said is; `JudgedAsRun`; no guard is asked after the first refusal | `DispatchAssumption`, `AnswersAssumption` |
| `HookGuards_proofs!Refinement` | `KeepsPromise`, the refinement of `HookPromise`, for every table of guards | the same |
| `HookGuards_proofs!CoherentTail`, `TypeCorrect` | the invariant below, types | `BusyAssumption` |
| `HookGuards_proofs!RefusalAlwaysGrounded`, `NothingWasted` | `RefusalIsGrounded`, `NoWastedRead` for every set of subjects and tools, gap and tail | the same |
| `WalkTree_proofs!Inductive` | the invariant below | `TreeAssumption`, `ClockAssumption`, `PathAssumption`, `MarkersStay` |
| `WalkTree_proofs!MatchIsSame` | `MatchMeansSame` for every tree, granularity and number of processes | the same |
| `WalkTree_proofs!WalkIsTrueTheorem` | `WalkIsTrue`, the same | and `StaysOutside`: no process changes what is inside a worktree that its walk pruned |
| `MdBudget_proofs!TypeTheorem` | types | `BudgetAssumption`, `NoneAssumption` |
| `MdBudget_proofs!BlamesTheorem`, `NeverTwiceTheorem` | `BlamesOnlyChanged`, `NeverTwice` for every number of parallel calls and every set of files and folders | the same |
| `MdBudget_proofs!EndsKnownTheorem` | `EndsKnown`, the same | the same |
| `ForkBase_proofs!TypeCorrect` | types: what git holds are commits of the world, and what is cut or fetched is among them | `ConstantsAssumption` |
| `ForkBase_proofs!AskedOnce` | `AsksOnce` for every history, whole or shallow clone and number of processes | the same |
| `ForkBase_proofs!BaseIsRightInWholeClones` | `BaseIsRight` for every history, number of processes, failure and act of the user or the remotes | and that clones begin whole (`w.clone = 0`) |
| `TreeRun_proofs!TypesHold` | types | `NameAssumption`, `SettleAssumption`, `ScenarioAssumption` |
| `TreeRun_proofs!NothingStrandedHolds` | `NothingStranded` for every tree, all names and whatever authors add | the same |
| `TreeRun_proofs!LeavesNothingHolds` | `LeavesNothing` for every tree and any number of processes, failures and kills | and, whenever a run judges, `Room` and `Open`: see below |
| `TreeRun_proofs!NamesItsOwnTextHolds`, `HeldStaysHolds` | `NamesItsOwnText`, `HeldStays` for every tree and number of runs, failures and kills | and `OneAtATime`: one run at a time; whenever it judges, `Room` and `Separate` |
| `TreeRun_proofs!NamesItsOwnTextTogether`, `HeldStaysTogether` | `NamesItsOwnText`, `HeldStays` for every tree and any number of processes at once, failures and kills | and, while any of them runs, `Room`, `Separate`, `Unlike` and `Neat` (`Orderly`) |
| `TreeRun_proofs!EnoughNames` | `Room`, wherever each Go string has as many free names as there are Go strings to move | as `TypesHold` |

**EditGate.** No property is inductive alone: that the answer holds depends on what the bisection landed, and that on how the stack divides the batch. `IInv` says that candidates passed triage and ascend, that the ranges on the stack follow one another from the first unvisited candidate to the last (`Partition`), that what landed is visited and its splice held (`LandedHolds`), and what the answer is made of. The lemmas about `Interval`, `Pick` and concatenation carry each step.

Three arguments build on it. `Metered` counts the questions: an open group may still cost one more than two for each of its candidates, whichever way it is halved, and a group below another on the stack holds one candidate at least. `TakesTheRest` says which of the visited have landed when the parser minds only the edits of some set: all others. And `Splice` and `Shift` are unfolded one edit at a time to see that they move the bytes before the scope by nothing and those after it by what the landed edits grew or shrank.

**NoWorkLoss.** A finding is let through long after its paths were committed, so `IInv` remembers on the way: until the command runs the disk stands as it stood (`DiskStands`); while a chain is built, its last tree has the working content of every path at risk (`Carried`); and what earlier findings were promised is on the branch (`Earlier`), which holds because the hook and its peers only append. `ReadTreeWorks` is needed: when `read-tree` fails the code goes on with an empty index and no parent, and `update-ref` then drops the history. `Sparing` carries the other theorems: what the branch, the disk and the index hold of what stood, step by step of the preservation, and what each step leaves alone.

**FoundWork.** A hook decides once where to commit and pushes some steps later. `OffDefault` keeps what is left of the decision: from the placing on, the repository it is at is off the default branch, or somebody changed the repository under the hook, or a read misled it, or nothing tells the default branch. Both reads of `origin/HEAD` matter: when each answers truly, one of the two tests of `OffLimits` catches a default branch that is `Nameable`.

`Account` follows the work a hook answers for. It can always be found, in the working tree, a stash, HEAD's history or the remote (`Findable`); what of it still stands uncommitted is in the answer of the hook's probe, and none of it when the hook pushes (`Decided`); that of a repository the hook is done with is safe or reported (`Accounted`). Which these are, the queue says: a call still to be made covers a repository with everything beneath it, a visit covers one (`Covers`, `Pending`), and a repository within reach is pending, passed over, reported, or safe. A descent replaces one call by those for the listed submodules, and what lies beneath the others goes to `missed`, so no assumption on nesting is needed: `Beneath` is the least set that holds with a repository its submodules. An earlier form of the proof showed that with two hooks the property was false as first stated: a hook that takes a repository to its session branch leaves commits behind (`found_behind`), and another hook that has counted them answers for work it no longer sees. `Forgive` takes such commits from every hook's `due`, as it does where the user switches.

`Tied` follows gitlinks. What is still to be visited has its submodules before it, or they are seen to or passed over, or it is a call that has not gone down yet (`Prepared`), and of a repository that nobody touched the probe lists each submodule that moved, so that none is left at another commit when it is pushed (`Linked`). This too was false as first stated, more moves deep than the two of the run: see the link of the session branch below. `Alone` is needed, because another hook's commit moves a submodule's HEAD between two steps, and `Proper`, because a repository that listed itself would be visited before its own links are read.

**Recursive functions.** The library's induction theorems speak of formulas, which the installed provers cannot instantiate. `NatInduct` is induction for a set, from the least element of its complement, and `Recursion` says that a step on values can be repeated; both stand in `EditGate_proofs` and `TreeRun_proofs`. That is enough to unfold the recursive functions of `Edits`, `EditGate` and `TreeRun` (`Splice`, `Shift`, `Chosen`, `PlanWith`, `Claim`, `MoveSteps`, `Fixed`). `Reach` of `ForkBase` and `Dirty` of `FoundWork` are unfolded another way, as least sets closed under parents.

**HookDispatch.** The invariant ties every part of the reply to the answers of the guards asked so far, and those to the order of the table: the reply holds the reasons of exactly those that refused, the guards asked are those that serve the event up to the last one, and the payload is the join of the rewrites. The refinement maps the asked guards' answers to `said` and the finished reply to `answer`; each step but the last is a stutter or a saying.

**BusyPoll.** The code looks for the last read and the last signal in what the tail happens to hold. `Coherent` says why that is enough: records stand in the order of time, a call has one answer at most and it stands after it, and an open call is among the last records, never cut off, because `Kept > 2 * MaxCalls`.

**WalkTree.** A listing is good when a directory whose mtime still matches has those entries, or the stamp is too recent to be trusted. `IInv` says it of the cache, of what each process loaded and of what it has read; that a directory is read once and after its parent (`Once`); and that what is pruned is pruned still or its parent was stamped again (`PrunedTrue`). The racy window makes a recent stamp harmless, which is where `Guard >= Grain - 1` is used. `MarkersStay` excludes a worktree that loses its marker and keeps its directory, where it is false: see below.

`WInv` adds the walk nobody interferes with: what is pending or read is the root and what a read directory lists (`Stands`), each read is exact, and once nothing is pending that settles the whole tree (`Settle`, by induction along `Parent`). `StaysOutside` excludes the second finding about worktrees below.

**MdBudget.** The marker is copied, and a stale copy is written back. `IInv` says of every copy, wherever it is, that its snapshot and its candidates miss no file as it was when the session began, unless a walk left it out (`Settled`), and that a call judges only what may be blamed. For `NeverTwice`, `Told`: a file refused more often than markers were lost is known as refused to the marker and to each copy that is still to be written.

For `EndsKnown`, `Known`: no snapshot and no debt is ahead of its file (`SeenPast`), a turn that is not open has no call running (`Rests`), and while calls run one at a time a file that is due is in the marker, or the one call in flight has yet to sweep it, name it or write it down (`Aware`), or a walk has left it out.

**ForkBase.** `AskedOnce` follows what one process leaves for the next. A process beside which nobody ran has its record stored, a clone as whole as its fetches make it, and a base to be found there (`Own`, `Leaves`). The process that follows reads that record and finds that base, and never comes to a step that fetches (`Follows`), unless HEAD moved, the record ran out or a listed fork's clone is still cut (`Excused`). The property was false as first stated: with three processes, with records that live longer than the run's one tick, and for a shallow clone of a listed fork whose branch was rewritten at origin, see below.

`BaseIsRightInWholeClones` follows the records. Whatever is fetched or pruned, the clone holds whole histories and HEAD's among them (`Whole`), so that git answers the truth. A record says what the network said when it was made or later, each thing at its own time (`Spoken`), and a process goes by a record that answers for the time it began (`Informed`). In a clone that began shallow the property is TLC's: what a cut history shows as a merge base is a matter of which side was deepened how far, and on some histories it is the wrong one.

**TreeRun.** A judgement is a recursion over a package inside a recursion over rounds. `Claims` says what the files before each file take, and `GoPlanLaid` that the plan of a file adds to it: each string goes to a name that neither they nor the strings before it took (`Lies`). As a plan depends on contents and held files only (`FixedSame`), and claims only grow, two strings that any judgements move go to different paths (`Spread`).

That needs three conditions. In `tree_run` TLC finds `Room`, `Separate` and `Open` true whenever a process judges, and `OneAtATime` true where one process runs. `Room`: a Go string that is left had no free name, and was not crowded out by the claims of others, else the next round forgets what the first one took. `EnoughNames` derives it by counting; the count is sufficient and not necessary, and a package of the run with seven names for each string can fall short of it after a kill. `Separate`: a workflow's names are its own, because the workflow fixer looks at nothing else that is moved. `OneAtATime`: no other run judges or writes meanwhile. Each is needed: the findings about trees below show the properties violated without it. `Open` says that every string has a free name.

`SafeInv` keeps what a judgement promised until the merge has written it: a repair that is due answers to its file as it is (`Turning`), where its strings go there is nothing or their text (`Fitting`), no two of them go to one path (`Spreading`), and what is written of the current repair stands (`Standing`). A failed write or a kill only drops repairs. `NothingStranded` needs less (`StrandInv`): whatever the names, what a repair creates its file names. `LeavesNothing` needs more of a judgement (`FixedMovesAll`, no string stays) and nothing of the others: `EmptyInv` says that while a whole run goes well, a file it judged is moved or has its repair to come.

Processes that overlap judge different disks: each finds some strings moved and some names held by what another has just written. `NamesItsOwnTextTogether` rests on `TargetsStay`: whatever the others write meanwhile, a judgement made now sends each string where one made before did. The proof walks the package once more, string by string, on any two disks of which the second came from the first by strings that moved and files that were written for them (`Layout`, `Advance`). Claims only shrink, by the names of strings that have moved; those names are held, by other texts than a string that could take them has (`Unlike`), so they are as little free as when they were claimed; and the place of a string is taken by none but itself (`Diverse`), so its least free name stays (`AimSame`). `Neat` is needed because what lands of an unsettled text is another text, which its own judgement takes for a stranger's. `ManyInv` then says that each repair still to be written sends every string where a judgement would send it now, and that what is written of the current one stands, letter for letter. TLC finds `Orderly` true in every state of `Distinct`, where the processes overlap in every way, and finds the properties violated without `Unlike` or `Neat`: see the findings about trees below.

Left to TLC:

- Liveness (`Ends`, `Reopens`, `TurnEnds`), which is out of the prover's reach, as `ENABLED` is.
- The seven properties of `algorithms`. Their modules use `RECURSIVE` operators, which the prover cannot take, and say what text comes out for given bytes.
- `ForkBase`: `InProportion`, and `BaseIsRight` in clones that began shallow. What a search sees is a recursive function over a graph that every fetch cuts elsewhere, and both need a theory of shallow histories: how far a deepening reaches by generations, and when a common ancestor that shows is the merge base.
- `TreeRun`: `NamesItsOwnText` and `HeldStays` for two processes where one text stands twice, as in `Pair` (in another order of the same strings they fail, see the findings about trees below), and that the suffixes of the variables suffice (`VarTries`, which stands for suffixes without end).

## Where code and docs part

`found_behind` is a run that TLC finds violated, with nothing failing: `commitOne` puts a commit of the default branch on the session's branch only when it can make that branch (`noworkloss/foundcommit.go:163`). When the branch is there already, a second commit on the default branch is neither moved nor pushed, and the Stop passes, against `found.go:1-3`. A `symbolic-ref HEAD` that fails (`:158`) does the same to the commits of a topic branch.

The others were met while modelling. Each was found by TLC on one of the modules, or by running the code, and has no run of its own.

*No work lost.*

- On a branch with no commits, `stagedTree` answers nothing and the reset after the commit overwrites a staged version that no commit holds (`noworkloss/preserve.go:146`): `StagedKept` in `MCNoWorkLoss` with `Repos <- BothRepos`.
- A commit that another session lands between `read-tree` and `commit-tree` is undone by the preservation commit (`preserve.go:104`). It stays in the history, so nothing is lost. One that lands between `commit-tree` and `update-ref` falls off the branch, because `update-ref` compares no old value: then only the reflog has it, which `decision-model.md:7` says is enough.
- A failure to list the staged entries reads as "nothing staged" (`preserve.go:181`), so the reset loses them; decision-model.md:21 has every failure deny.
- A failed `read-tree` leads to a commit with no parent (`preserve.go:64`, against decision-model.md:13): `Failing` with "seed".
- A path whose content is already committed is denied when the chain is empty (`preserve.go:101`).
- Found work: `submodules` keeps the lines of `git config` that have two words (`foundcommit.go:85`), so a submodule whose path has a space is not visited: what it holds stays here, the parent's gitlink to it is pushed, and no failure is reported, against `foundcommit.go:92-94`, "It answers a result for every repository that held found work". When `.gitmodules` cannot be read (`:80`) that goes for all of them. TLC shows it with `Listed <- ` a function to `<< >>` and `FoundWorkIsPushed` without `missed`.
- Found work: where `origin/HEAD` is not set, or its read fails, only master and main count as the default branch (`foundcommit.go:127-133, 158-159`), and another one is pushed, against the comment at `:160`, "The default branch takes no direct push". TLC shows it with `HeadSet = {}`, no branch in `Plain`, and `NoDirectPush` without `Nameable`.
- Found work: a failed `rev-list --count` counts none and is not reported (`foundcommit.go:71`), so unpushed commits are passed over, and a parent may publish a gitlink to one. `FoundWorkIsPushed` and `GitlinksResolve` leave that case out by `due` and `disturbed`, as they do a HEAD that is misread.
- A link of the session branch: the session commits in a submodule and in its parent, and switches both to the default branch. The hook finds nothing to do in the submodule, which is where its default branch has it. If it finds an edit in the parent, and takes it to the session's branch of earlier (`foundcommit.go:163`), it publishes that branch's link to a commit that only this machine has, against `foundcommit.go:92`, "A submodule goes first, so the parent's commit records the pushed gitlink". `GitlinksResolve` leaves out links to a commit the submodule is not at.
- The list of repositories is read and rewritten with no lock (`found.go:66`): a repository that two hooks add at once can be missing at Stop.
- The long help of `cmd/hook.go` and `docs/commands.md` list no-work-loss under fewer events than `cmd/guards.go` runs it for.

*The hook on a write.*

- `cutBack` takes the new text out of the repaired file at the scope the repair answers. An insertion at the very start of the span moves the scope's start past it (`edit/edit.go:55`), so the file the hook judged holds the insertion and the file the tool writes does not, against the comment at `cmd/placement.go:175`. The file header of `commentfix/header.go:76` is such an insertion, for an edit of a file's first bytes. `JudgedIsWritten` is checked with fixers that write inside the span or at its end.
- A MultiEdit of one edit, or one that `handFix` made one: its repair goes to `new_string` of the payload, which the tool ignores, so it is reported and not written. A MultiEdit with `replace_all` is repaired as a fragment, which can break a later edit's `old_string`.
- A payload with no event name is PreToolUse to the dispatcher, Stop to busypoll and laziness, and nothing to the others. That `merge` overwrites a permission is out of reach with today's guards.

*Repairs in a fork.*

- `ownedRewrap` counts only the words of lines that are not owned (`forkscope/reflow.go:41-55`): a word of an owned line in a refused hunk that is also moved stands twice. Base `a | b c d`, repair `c | d b`, the fork owns line 2: `a | b c d b`. `WordsStandOnce` is checked for repairs that change one word.
- `Keep` with repeated or swapped lines: old `a|b|`, new `b|a|`, the fork owns line 1: `b|a|b|`, against the reason `scope.go:281-283` gives. `ForeignLinesStand` is checked for contents with no line twice.

*The base of a fork.*

- FETCH_HEAD is read after the fetch has ended (`forkscope/shallow.go:60`, `listed.go:109`). When another hook deepens origin, or the user fetches, in between, the fork's own commit becomes the parent's tip: the base is then HEAD or near it, nothing the fork wrote counts as its own, and the record keeps that for an hour. `BaseIsRight` leaves such records out (`pure`).
- In a shallow clone, `parentBase` takes the first common ancestor that shows (`shallow.go:74`). When the parent merged a side branch that reaches past the fork point sooner than its main line does, that is an older commit than the merge base, and the fork is blamed for upstream's lines; docs/fork-scope.md has the clone deepened "until the merge base shows". `BaseIsRight` is violated with `Worlds <- MCShortcut`, and a clone built that way with git 2.39 shows the older commit too.
- Two hooks unshallow one clone at once: the slower one is refused by git, and refuses the write (`forkscope.go:438`, action `UnshallowTooLate`).
- In a shallow clone of a listed fork whose branch was rewritten at origin, HEAD's history stays cut after the unshallowing (`forkscope.go:438`), and its tags are not seen. Every later process finds the clone shallow and fetches again, against docs/fork-scope.md:27, "asks the network once"; `AsksOnce` leaves it out (`shallow = {}`).
- "The newer commit wins a tie" (`listed.go:44`), but the merge base comes after the first-parent commits (`listed.go:84`): an older one of those wins over a merge base that is newer. `TrueSnapshot` does as the code does.

*Trees.*

- Two workflows whose stem and job join to one script name overwrite each other's script (`workflow/extract.go:58`).
- A worktree that loses its `.git` file and keeps its directory stays out of every later cached walk (`walktree/walk.go:195`). `Get` of a linked worktree below a walked root answers an empty view (`walktree/walk.go:91`). `created` puts a pruned worktree back into its parent's listing (`walktree/change.go:80`).
- With every name held, later rounds of the Go fixer forget the names its first round took; two processes with texts the rules change can take one name (`goembed/repair.go:67, 170`): `NamesItsOwnText` in `MCTreeRun`, with a raw text in `Pair`. With settled texts they can as well, when one text stands twice in a package: a process that judges after the other has moved the first occurrence sends the second to the same name, and gives the string after it the name the other has planned for the second. In `Pair` that string comes before the second occurrence, which is why the properties hold there. No doc promises that two runs of one tree may overlap.

*Budgets and polls.*

- `changedFiles` takes every listed file that its snapshot lacks for a changed one (`mdbudget/marker.go:150`), and the snapshot holds what a walk of the event's folder listed (`marker.go:110`, `budget.go:166`). A session that leaves a folder, has the tree walked from there and comes back is refused the end of its turn for a file nobody touched, against `hook_test.go:322-323`, "A file the session never touched is reported at session start but must not block the turn". TLC shows it with `BlamesOnlyChanged` without `dropped`, one call at a time, no loss.
- The other way about, the sweep after a Bash call compares what is under the folder that call ended in, and a watched file elsewhere that it wrote too big is not compared, against `marker.go:132-133`, "Watching files rather than tool_input.file_path catches a Bash edit". TLC shows it with `EndsKnown` without `dropped`.
- A `Read` of an oversized `CLAUDE.md` holds the file against the session (`mdbudget/hook.go:83`).
- An empty snapshot counts as none (`mdbudget/marker.go:142`), so in a session that began with no instruction file the first one that Bash writes is missed, which `seedSnapshot`'s comment wants caught. Two overlapping hooks can lose an offender (`marker.go:159`).
- Turns that a webhook woke count in busypoll's streak, against the comment at `busypoll/detect.go:1-4`.
- Split moves sections level 2, then 3, then 1, so a section of level 1 can take links along that an earlier level made, and they are then relative to the wrong directory; text moved word for word keeps relative links that no longer resolve; and a file with no final newline can end one over the target (`split.go:185`).

## What is not modelled

- **Text rules, parsers, tables** (`ste`, `english`, `counts`, `cardinal`, `tombstones`, `commentfix`, `code`, `grammars`, `shellwalk`, ...): functions of natural language and syntax trees, and most of the repository's lines. Their data is the point, and TLC cannot enumerate it. `EditGate` takes their rewrites as arbitrary edits, `FixText` as one fixer per kind of rewrite.
- **Readers** (`gitread`, `gitmod`): no state but caches of immutable objects; formats that are tested against git.
- **Decisions of tables** (`autoallow`, `laziness`, `agentlaunch`, `bashclean`, routes of a command): one step each, and as right as the table.
- **The language server and `ratchet`**: one request, and one judgement, at a time.
- **Output** (`progress`, `trace`, reports, flags).
- **Found work's own files**: a state file that cannot be read or written, and a `repoRoot` that fails, record nothing (`noworkloss/found.go:64, 75`); the next hooks then do not know the repository, and `FoundWork`'s properties speak of the list as it is. The file `info/exclude` and the operands `git add` drops are not there either.
- Within the modelled components: what the notes in `PROJECT.json` name.

## Plan

Done: `EditGate`, `NoWorkLoss`, `WalkTree`, `TreeRun`, `MdBudget`, `FoundWork`, `HookDispatch`, `BusyPoll`, the algorithms of the write hook, of a fork's repair and of the split, and `ForkBase`.

What is left, in this order:

1. The language server's walk: `WalkTree` with a process that lives for ever and is told of changes late or never.
2. `ratchet`'s `CheckIn` as a decision: when it passes without judging.
3. `TreeRun` with a judgement split into plan and gate, for two processes over texts the rules change.
4. The record of the pins (`refcache.go`) beside `ForkBase`'s.

Abstract specifications worth stating: "preserve, then allow" (content at risk moves to the branch in one step, then the command runs), implemented by `NoWorkLoss` when nothing fails; a marker that is one atomic record, implemented by `MdBudget` when calls do not overlap.

Theorems: `BranchOnlyGrows` of `NoWorkLoss`; a theory of shallow histories for what is left of `ForkBase`.
