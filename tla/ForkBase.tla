------------------------------- MODULE ForkBase -------------------------------
(***************************************************************************)
(* The base of a fork (forkscope/forkscope.go, listed.go, shallow.go): the *)
(* commit its own lines count from.  A process asks the network what the   *)
(* repository is, fetches, and keeps the answer in slopfix-fork.json in    *)
(* the git directory for an hour; every hook on a write is such a process, *)
(* and they share that file, the object store, the shallow file and        *)
(* FETCH_HEAD with each other and with the user's git.                     *)
(*                                                                         *)
(* Commits are numbers in date order.  A world says how they hang together *)
(* and what the network answers as time goes on; git is external.          *)
(***************************************************************************)
EXTENDS Naturals, Sequences, FiniteSets, SequencesExt, FiniteSetsExt

CONSTANTS Proc,
          Worlds,     (* the histories and remotes a behaviour may live in   *)
          CacheTTL,   (* how long a record answers                           *)
          Failing,    (* the git and network calls that may fail             *)
          Doings,     (* what the user's git and the remotes may do          *)
          MaxMoves,   (* bound: how often they do, and calls fail, together  *)
          MaxTime,    (* bound: the clock                                    *)
          NoCommit, NoRecord

Calls == {"identify", "tags", "fetch", "store", "unshallow", "deepen"}

\* A world: who descends from whom, first parents first; which paths a commit's
\* tree gives the fork's own text; what the network says of the repository, one
\* state after the other; the commits HEAD may name and the one origin's branch
\* names; and how deep the clone is, 0 for all of it.
Kinds == {"plain", "listed", "parent"}
Worldly(w) ==
    /\ w.parents \in Seq(Seq(Nat))
    /\ \A c \in DOMAIN w.parents : ToSet(w.parents[c]) \subseteq 1..(c-1)
    /\ w.heads \cup {w.origin} \subseteq DOMAIN w.parents
    /\ w.says \in Seq([kind : Kinds, tags : SUBSET Nat, tip : DOMAIN w.parents]) \ {<< >>}
    /\ w.clone \in Nat

\* slopfix-fork.json: what the network said, when, and the commits that came of
\* it; pure is history: no other fetch had a hand in it.
Record == [kind : Kinds \cup {"none"}, checked : Nat, tags : SUBSET Nat, tip : Nat \cup {NoCommit},
           parent : Nat \cup {NoCommit}, pure : BOOLEAN]

ASSUME ConstantsAssumption ==
    /\ \A w \in Worlds : Worldly(w)
    /\ CacheTTL \in Nat /\ MaxMoves \in Nat /\ MaxTime \in Nat
    /\ NoCommit \notin Nat /\ NoRecord \notin Record

VARIABLES
    world, age,        \* the remotes: what they are and the state they are in
    since,             \* history: when each state came about
    head, have, shallow, fetchHead,        \* the clone
    file,              \* slopfix-fork.json
    now,
    pc, mine,          \* per process: its next step and its record
    depth, before,     \* parentBase: the step of its search, and the shallow file it saw
    answer,
    moves,             \* the bound
    began, heads,      \* history: when a process began, and what HEAD named since
    asked,             \* history: it used the network
    others             \* history: who ran beside it or began after it

clone   == << head, have, shallow, fetchHead >>
remotes == << world, age, since >>
search  == << depth, before >>
tale    == << began, heads, asked, others >>
vars    == << remotes, clone, file, now, pc, mine, search, answer, moves, tale >>

\* What each commit reaches when the commits of cut have no parents.
Reach(cut) ==
    LET R[c \in DOMAIN world.parents] ==
            {c} \cup IF c \in cut THEN {} ELSE UNION {R[p] : p \in ToSet(world.parents[c])}
    IN  R
Ancestors(c) == Reach({})[c]
Seen(c) == Reach(shallow)[c] \cap have

Remote == world.says[age]

Nobody == [kind |-> "none", checked |-> 0, tags |-> {}, tip |-> NoCommit, parent |-> NoCommit,
           pure |-> TRUE]

Init ==
    /\ world \in Worlds /\ age = 1 /\ since = << 0 >>
    /\ head \in world.heads
    /\ have = IF world.clone = 0 THEN UNION {Ancestors(c) : c \in world.heads} ELSE {head}
    /\ shallow = IF world.clone = 0 THEN {} ELSE {head}
    /\ fetchHead = NoCommit
    /\ file = NoRecord
    /\ now = 0
    /\ pc = [p \in Proc |-> "idle"] /\ mine = [p \in Proc |-> Nobody]
    /\ depth = [p \in Proc |-> 0] /\ before = [p \in Proc |-> {}]
    /\ answer = [p \in Proc |-> NoCommit]
    /\ moves = 0
    /\ began = [p \in Proc |-> 0] /\ heads = [p \in Proc |-> {}]
    /\ asked = [p \in Proc |-> FALSE] /\ others = [p \in Proc |-> {}]

-----------------------------------------------------------------------------
(* git.                                                                     *)

\* The commits within n steps of a set, the set itself being the first.
Within(set) ==
    LET W[n \in Nat] == IF n = 0 THEN {} ELSE IF n = 1 THEN set
                        ELSE LET nearer == W[n-1]
                             IN  nearer \cup UNION {ToSet(world.parents[c]) : c \in nearer}
    IN  W

\* A fetch of tip that counts n steps from a set: what is nearer has its parents
\* again, what stands at the n-th has none, whatever was there before.
Cut(tip, set, n) ==
    LET inner == Within(set)[n-1]
        all   == Within(set)[n]
    IN  /\ shallow' = (shallow \ inner) \cup (all \ inner)
        /\ have' = have \cup all \cup Reach(shallow')[tip]

\* git fetch: the histories a clone has cut stay cut.
Bring(c) ==
    /\ have' = have \cup Reach(shallow)[c]
    /\ UNCHANGED shallow

\* Whoever fetches writes FETCH_HEAD, and a process that has yet to read it reads
\* that.
Fetched(p, c) ==
    /\ fetchHead' = c
    /\ mine' = [q \in Proc |-> IF q # p /\ pc[q] = "resolve" /\ c # fetchHead
                               THEN [mine[q] EXCEPT !.pure = FALSE] ELSE mine[q]]

Common(a, b) == Seen(a) \cap Seen(b)
\* git merge-base: the newest of the common ancestors that no other one reaches.
Best(set, reach) == {c \in set : \A d \in set \ {c} : c \notin reach[d]}
MergeBase(a, b) ==
    IF {a, b} \subseteq have /\ Common(a, b) # {}
    THEN Max(Best(Common(a, b), Reach(shallow))) ELSE NoCommit

\* FirstParentExcluding: the first parents from c on, down to what is reached.
FirstParents(c, reached, cut) ==
    LET F[d \in DOMAIN world.parents] ==
            IF d \in reached THEN {}
            ELSE {d} \cup IF d \in cut \/ world.parents[d] = << >> THEN {}
                          ELSE F[world.parents[d][1]]
    IN  F[c]

\* DiffTrees: in how many paths two commits differ.
Far(c, d) == Cardinality((world.tree[c] \ world.tree[d]) \cup (world.tree[d] \ world.tree[c]))
Closest(set, c) == {d \in set : \A e \in set : Far(d, c) <= Far(e, c)}
\* The newer commit wins a tie; the merge base is compared last.
Newer(closest, base) == IF closest = {base} THEN base ELSE Max(closest \ {base})

-----------------------------------------------------------------------------
(* A process: Base and record.                                              *)

Goto(p, step) == pc' = [pc EXCEPT ![p] = step]
Ends(p, c) == Goto(p, "done") /\ answer' = [answer EXCEPT ![p] = c]
Refuses(p) == Goto(p, "refused") /\ UNCHANGED answer

May(call) == call \in Failing /\ moves < MaxMoves

\* A call that fails ends the process with an error: the check fails, or the
\* hook refuses the write.
Fails(p, call) ==
    /\ May(call)
    /\ Refuses(p)
    /\ moves' = moves + 1
    /\ UNCHANGED << remotes, clone, file, now, mine, search, tale >>

Asks(p) == asked' = [asked EXCEPT ![p] = TRUE] /\ UNCHANGED << began, heads, others >>

Running == {p \in Proc : pc[p] \notin {"idle", "done", "refused"}}

Begin(p) ==
    /\ pc[p] = "idle"
    /\ Goto(p, "cached")
    /\ began' = [began EXCEPT ![p] = now]
    /\ heads' = [heads EXCEPT ![p] = {head}]
    /\ others' = [q \in Proc |-> IF q = p THEN Running
                                 ELSE IF pc[q] = "idle" THEN others[q] ELSE others[q] \cup {p}]
    /\ UNCHANGED << remotes, clone, file, now, mine, search, answer, moves, asked >>

\* Where a process goes with its record.
Onward(p, rec) ==
    \/ rec.kind = "plain" /\ Ends(p, NoCommit) /\ UNCHANGED search
    \/ rec.kind = "listed" /\ Goto(p, "deepen") /\ UNCHANGED << search, answer >>
    \/ rec.kind = "parent" /\ Goto(p, "merge") /\ depth' = [depth EXCEPT ![p] = 2]
         /\ UNCHANGED << before, answer >>

\* Mutant: a record answers however old it is.
Fresh_Always(rec) == rec # NoRecord /\ (rec.kind = "parent" => rec.parent \in have)

Fresh(rec) ==
    /\ rec # NoRecord /\ now - rec.checked <= CacheTTL
    /\ rec.kind = "parent" => rec.parent \in have

ReadRecord(p) ==
    /\ pc[p] = "cached"
    /\ IF Fresh(file)
       THEN mine' = [mine EXCEPT ![p] = file] /\ Onward(p, file)
       ELSE Goto(p, "identify") /\ UNCHANGED << mine, search, answer >>
    /\ UNCHANGED << remotes, clone, file, now, moves, tale >>

\* The fork list, the event payload and the API.
Identify(p) ==
    /\ pc[p] = "identify"
    /\ mine' = [mine EXCEPT ![p] = [Nobody EXCEPT !.kind = Remote.kind, !.checked = now]]
    /\ Goto(p, CASE Remote.kind = "plain" -> "store"
                 [] Remote.kind = "listed" -> "tags"
                 [] Remote.kind = "parent" -> "fetch")
    /\ Asks(p)
    /\ UNCHANGED << remotes, clone, file, now, search, answer, moves >>

ListTags(p) ==
    /\ pc[p] = "tags"
    /\ mine' = [mine EXCEPT ![p].tags = Remote.tags]
    /\ Goto(p, "store")
    /\ Asks(p)
    /\ UNCHANGED << remotes, clone, file, now, search, answer, moves >>

\* fetchParent takes the tip alone into a shallow clone; fetchUpstreamHead does
\* not ask.
Fetch(p) ==
    /\ pc[p] = "fetch"
    /\ IF shallow # {} /\ mine[p].kind = "parent" THEN Cut(Remote.tip, {Remote.tip}, 1) ELSE Bring(Remote.tip)
    /\ Fetched(p, Remote.tip)
    /\ Goto(p, "resolve")
    /\ Asks(p)
    /\ UNCHANGED << remotes, head, file, now, search, answer, moves >>

Resolve(p) ==
    /\ pc[p] = "resolve"
    /\ mine' = [mine EXCEPT ![p] = IF mine[p].kind = "parent" THEN [@ EXCEPT !.parent = fetchHead]
                                   ELSE [@ EXCEPT !.tip = fetchHead]]
    /\ Goto(p, "store")
    /\ UNCHANGED << remotes, clone, file, now, search, answer, moves, tale >>

\* Mutant: what the snapshot fetched is not kept.
Store_Identity(p) ==
    /\ pc[p] = "store"
    /\ file' = [mine[p] EXCEPT !.tip = NoCommit]
    /\ IF mine[p].tip = NoCommit THEN Onward(p, mine[p])
       ELSE Goto(p, "snapshot") /\ UNCHANGED << search, answer >>
    /\ UNCHANGED << remotes, clone, now, mine, moves, tale >>

\* writeRecord replaces the file by a rename.
Store(p) ==
    /\ pc[p] = "store"
    /\ file' = mine[p]
    /\ IF mine[p].tip = NoCommit THEN Onward(p, mine[p])
       ELSE Goto(p, "snapshot") /\ UNCHANGED << search, answer >>
    /\ UNCHANGED << remotes, clone, now, mine, moves, tale >>

-----------------------------------------------------------------------------
(* tagBase and snapshotBase.                                                *)

Deepen(p) ==
    /\ pc[p] = "deepen"
    /\ Goto(p, IF shallow = {} THEN "tagged" ELSE "unshallow")
    /\ UNCHANGED << remotes, clone, file, now, mine, search, answer, moves, tale >>

\* git fetch --unshallow origin.
Unshallow(p) ==
    /\ pc[p] = "unshallow" /\ shallow # {}
    /\ have' = have \cup Ancestors(world.origin)
    /\ shallow' = shallow \ Ancestors(world.origin)
    /\ Fetched(p, world.origin)
    /\ Goto(p, "tagged")
    /\ Asks(p)
    /\ UNCHANGED << remotes, head, file, now, search, answer, moves >>

\* "--unshallow on a complete repository does not make sense."
UnshallowTooLate(p) ==
    /\ pc[p] = "unshallow" /\ shallow = {}
    /\ Refuses(p)
    /\ UNCHANGED << remotes, clone, file, now, mine, search, moves, tale >>

Tagged(p) ==
    /\ pc[p] = "tagged"
    /\ LET named == Seen(head) \cap mine[p].tags IN
       IF named # {} THEN Ends(p, Max(named))
       ELSE /\ Goto(p, IF mine[p].tip \in have THEN "snapshot" ELSE "fetch")
            /\ UNCHANGED answer
    /\ UNCHANGED << remotes, clone, file, now, mine, search, moves, tale >>

Snapshot(p) ==
    /\ pc[p] = "snapshot"
    /\ IF mine[p].tip \notin have THEN Refuses(p)
       ELSE LET base    == MergeBase(head, mine[p].tip)
                reached == IF base = NoCommit THEN {} ELSE Seen(base)
                after   == FirstParents(mine[p].tip, reached, shallow)
            IN  Ends(p, Newer(Closest(after \cup ({base} \ {NoCommit}), head), base))
    /\ UNCHANGED << remotes, clone, file, now, mine, search, moves, tale >>

-----------------------------------------------------------------------------
(* parentBase.                                                              *)

Merge(p) ==
    /\ pc[p] = "merge"
    /\ LET base == MergeBase(head, mine[p].parent) IN
       \/ base # NoCommit /\ Ends(p, base)
       \/ base = NoCommit /\ Goto(p, "look") /\ UNCHANGED answer
    /\ UNCHANGED << remotes, clone, file, now, mine, search, moves, tale >>

\* A whole clone with no merge base has none; otherwise the next step begins.
Look(p) ==
    /\ pc[p] = "look"
    /\ \/ shallow = {} /\ Refuses(p) /\ UNCHANGED before
       \/ /\ shallow # {}
          /\ before' = [before EXCEPT ![p] = shallow]
          /\ Goto(p, "deepenParent") /\ UNCHANGED answer
    /\ UNCHANGED << remotes, clone, file, now, mine, depth, moves, tale >>

\* git fetch --depth of the parent's branch.
DeepenParent(p) ==
    /\ pc[p] = "deepenParent"
    /\ Cut(Remote.tip, {Remote.tip}, depth[p])
    /\ Fetched(p, Remote.tip)
    /\ Goto(p, "deepenOwn")
    /\ Asks(p)
    /\ UNCHANGED << remotes, head, file, now, search, answer, moves >>

\* git fetch --deepen of origin: so many more steps from where the clone ends.
DeepenOwn(p) ==
    /\ pc[p] = "deepenOwn"
    /\ Cut(world.origin, shallow \cap Ancestors(world.origin), depth[p] \div 2 + 1)
    /\ Fetched(p, world.origin)
    /\ Goto(p, "compare")
    /\ Asks(p)
    /\ UNCHANGED << remotes, head, file, now, search, answer, moves >>

\* Mutant: a step that brings in nothing is followed by another.
Compare_Never(p) ==
    /\ pc[p] = "compare"
    /\ Goto(p, "merge")
    /\ depth' = [depth EXCEPT ![p] = @ * 2]
    /\ UNCHANGED << remotes, clone, file, now, mine, before, answer, moves, tale >>

\* A step that brought in nothing ends the search.
Compare(p) ==
    /\ pc[p] = "compare"
    /\ \/ /\ shallow # before[p]
          /\ Goto(p, "merge")
          /\ depth' = [depth EXCEPT ![p] = @ * 2]
          /\ UNCHANGED answer
       \/ /\ shallow = before[p]
          /\ LET base == MergeBase(head, mine[p].parent) IN
             IF base = NoCommit THEN Refuses(p) ELSE Ends(p, base)
          /\ UNCHANGED depth
    /\ UNCHANGED << remotes, clone, file, now, mine, before, moves, tale >>

CallFails(p) ==
    \/ pc[p] \in {"identify", "tags", "fetch", "store", "unshallow"} /\ Fails(p, pc[p])
    \/ pc[p] \in {"deepenParent", "deepenOwn"} /\ Fails(p, "deepen")

-----------------------------------------------------------------------------
(* The user's git, the remotes and the clock.                               *)

Does(what) == what \in Doings /\ moves < MaxMoves /\ moves' = moves + 1

\* Upstream pushes or tags; the fork list or GitHub says something else.
RemoteMoves ==
    /\ Does("remote") /\ age < Len(world.says)
    /\ age' = age + 1 /\ since' = Append(since, now)
    /\ UNCHANGED << world, clone, file, now, pc, mine, search, answer, tale >>

\* The user checks out another of the fork's branches.
Checkout ==
    /\ Does("checkout")
    /\ \E c \in (world.heads \cap have) \ {head} :
          /\ head' = c
          /\ heads' = [p \in Proc |-> IF p \in Running THEN heads[p] \cup {c} ELSE heads[p]]
    /\ UNCHANGED << remotes, have, shallow, fetchHead, file, now, pc, mine, search, answer,
                    began, asked, others >>

\* git fetch or git pull of origin.
UserFetch ==
    /\ Does("fetch")
    /\ Bring(world.origin)
    /\ fetchHead' = world.origin
    /\ mine' = [q \in Proc |-> IF pc[q] = "resolve" /\ world.origin # fetchHead
                               THEN [mine[q] EXCEPT !.pure = FALSE] ELSE mine[q]]
    /\ UNCHANGED << remotes, head, file, now, pc, search, answer, tale >>

\* git gc --prune=now keeps what HEAD, the branches and FETCH_HEAD reach.  It
\* counts as everybody.
Prune ==
    /\ Does("prune")
    /\ have' = have \cap UNION {Seen(c) : c \in (world.heads \cup {fetchHead}) \cap have}
    /\ shallow' = shallow \cap have'
    /\ others' = [p \in Proc |-> Proc]
    /\ UNCHANGED << remotes, head, fetchHead, file, now, pc, mine, search, answer,
                    began, heads, asked >>

Tick ==
    /\ now < MaxTime
    /\ now' = now + 1
    /\ UNCHANGED << remotes, clone, file, pc, mine, search, answer, moves, tale >>

Works(p) ==
    \/ ReadRecord(p) \/ Identify(p) \/ ListTags(p) \/ Fetch(p) \/ Resolve(p) \/ Store(p)
    \/ Deepen(p) \/ Unshallow(p) \/ UnshallowTooLate(p) \/ Tagged(p) \/ Snapshot(p)
    \/ Merge(p) \/ Look(p) \/ DeepenParent(p) \/ DeepenOwn(p) \/ Compare(p) \/ CallFails(p)

Next ==
    \/ \E p \in Proc : Begin(p) \/ Works(p)
    \/ RemoteMoves \/ Checkout \/ UserFetch \/ Prune \/ Tick

Spec == Init /\ [][Next]_vars

-----------------------------------------------------------------------------
(* Properties.                                                              *)

TypeOK ==
    /\ world \in Worlds /\ age \in 1..Len(world.says) /\ Len(since) = age
    /\ {head} \cup have \cup shallow \subseteq DOMAIN world.parents
    /\ shallow \subseteq have
    /\ fetchHead \in have \cup {NoCommit}
    /\ now \in 0..MaxTime /\ moves \in 0..MaxMoves
    /\ \A p \in Proc : depth[p] \in Nat /\ began[p] \in 0..now

\* What the network said at a time from which a record may still answer p.
Said(p) == {world.says[k] : k \in {n \in 1..age : n = age \/ since[n+1] + CacheTTL >= began[p]}}

TrueBase(h, tip) ==
    LET common == Ancestors(h) \cap Ancestors(tip)
    IN  IF common = {} THEN NoCommit ELSE Max(Best(common, Reach({})))
TrueSnapshot(h, tip) ==
    LET base    == TrueBase(h, tip)
        reached == IF base = NoCommit THEN {} ELSE Ancestors(base)
        after   == FirstParents(tip, reached, {})
    IN  Newer(Closest(after \cup ({base} \ {NoCommit}), h), base)

\* "The base is the merge base with the parent's default branch", "the newest
\* commit of HEAD's history that a tag names", or else "the commit of that branch
\* whose tree differs from HEAD's in the fewest paths" (docs/fork-scope.md), the
\* newest of several and the merge base the last of them: of whole histories,
\* however little of them the clone holds, and of what the network said at most
\* an hour before the process began, whatever record it came from, and whoever
\* fetches, prunes or checks out meanwhile.  A record that took its commit from
\* the FETCH_HEAD of another fetch is left out.
BaseIsRight ==
    \A p \in Proc : pc[p] = "done" /\ mine[p].pure =>
        \E h, i \in heads[p], a, b, c \in Said(p) :
            \/ a.kind = "plain" /\ answer[p] = NoCommit
            \/ a.kind = "parent" /\ answer[p] = TrueBase(h, b.tip)
            \/ /\ a.kind = "listed"
               /\ LET named == Ancestors(h) \cap b.tags
                  IN  answer[p] = IF named # {} THEN Max(named) ELSE TrueSnapshot(i, c.tip)

\* "The write hook runs on every write and asks the network once"
\* (docs/fork-scope.md): of two processes that answered one after the other, for
\* the same HEAD and with nothing pruned, the second does not go to the network
\* while the record of the first holds, unless the clone of a listed fork stays
\* cut whatever is fetched.
AsksOnce ==
    \A p, q \in Proc :
        /\ p # q /\ {pc[p], pc[q]} = {"done"} /\ others[p] = {q} /\ others[q] = {}
        /\ heads[p] = {head} /\ heads[q] = {head}
        /\ now <= mine[p].checked + CacheTTL
        /\ mine[q].kind = "listed" => shallow = {}
        => ~asked[q]

Generations(c, d) == Min({n \in 1..Cardinality(DOMAIN world.parents) : d \in Within({c})[n]})

\* "The download grows with the distance to the fork point, not with the history",
\* and the search "stops when a step brings in nothing" (shallow.go:70): a process
\* that nobody disturbs asks for less than twice the generations that either side
\* has down to the merge base, and where origin's branch no longer holds HEAD, so
\* that no step can show the base, for at most four times the whole history.
InProportion ==
    \A p \in Proc : pc[p] \in {"deepenOwn", "compare"} /\ others[p] = {} /\ heads[p] = {head} =>
        LET base == TrueBase(head, mine[p].parent)
            far  == {Generations(c, base) : c \in {head} \cup {world.says[k].tip : k \in 1..age}}
        IN  depth[p] < IF base # NoCommit /\ head \in Ancestors(world.origin)
                       THEN 2 * Max(far) ELSE 4 * Cardinality(DOMAIN world.parents) + 1
===============================================================================
