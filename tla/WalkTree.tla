------------------------------ MODULE WalkTree ------------------------------
(***************************************************************************)
(* walktree: the one walk of a tree a process makes, and the cache of      *)
(* directory listings, keyed by mtime, that processes share.               *)
(*                                                                         *)
(* Nodes are a fixed universe of paths; present says which exist.  Time is *)
(* counted in ticks, and the file system stamps a directory with the tick  *)
(* rounded down to its granularity Grain.  A walk is parallel: directories *)
(* are statted and read in any order, and files come and go meanwhile.     *)
(***************************************************************************)
EXTENDS Integers, FiniteSets

CONSTANTS
    Node, Root, Dir,     (* paths, the walked root, those that are directories *)
    Parent,              (* the directory that holds a path                    *)
    Vendored,            (* directories named .git or node_modules             *)
    Marker,              (* .git files that make their directory a worktree    *)
    Proc,                (* processes that walk the root                       *)
    Grain,               (* granularity of mtimes, in ticks                    *)
    Guard,               (* the two seconds of racy, in ticks                  *)
    PersistFloor,        (* fewest directories a cache is written for          *)
    Ops,                 (* what happens to files: see Unmake and Own          *)
    MaxClock, MaxOps     (* bounds                                             *)

ASSUME TreeAssumption ==
    /\ Root \in Dir /\ Dir \subseteq Node /\ Parent \in [Node \ {Root} -> Dir]
    /\ Vendored \subseteq Dir \ {Root} /\ Marker \subseteq Node \ Dir
    /\ Ops \subseteq {"create", "delete", "unmark", "inside"}
ASSUME ClockAssumption ==
    /\ Grain \in Nat \ {0} /\ Guard \in Nat /\ Guard >= Grain - 1
    /\ PersistFloor \in Nat /\ MaxClock \in Nat /\ MaxOps \in Nat

Unread == [mtime |-> -1, entries |-> {}, pruned |-> FALSE, read |-> FALSE]
Nothing == [d \in Dir |-> Unread]
Listing == [mtime : Int, entries : SUBSET Node, pruned : BOOLEAN, read : BOOLEAN]

VARIABLES
    present, mtime, clock, ops,   \* the file system
    cache,                        \* the cache file
    st,                           \* per process: idle, walking, done
    old, fresh,                   \* per process: loaded cache, listings read
    start, todo, open,            \* per process: walk start, queue, statted
    foreign                       \* history: a change the process did not make

fs   == << present, mtime, ops >>
walk == << st, old, fresh, start, todo, open >>
vars == << fs, clock, cache, walk, foreign >>

Children(d) == {n \in present \ {Root} : Parent[n] = d}

\* linkedWorktree
Worktree(d) == d # Root /\ \E m \in Children(d) : m \in Marker

Above[n \in Node] == IF n = Root THEN {} ELSE {Parent[n]} \cup Above[Parent[n]]
\* Parent climbs to the root: paths form a tree.
ASSUME PathAssumption ==
    /\ Above[Root] = {}
    /\ \A n \in Node \ {Root} : Above[n] = {Parent[n]} \cup Above[Parent[n]]
    /\ \A S \in SUBSET Node : S # {} => \E n \in S : n = Root \/ Parent[n] \notin S

PathTo(n) == {m \in Node \ {Root} : m = n \/ m \in Above[n]}
Subtree(n) == {m \in Node : m = n \/ n \in Above[m]}

Init ==
    /\ present \in {S \in SUBSET Node : Root \in S /\ \A n \in S \ {Root} : Parent[n] \in S}
    /\ mtime = [d \in Dir |-> 0] /\ clock = 0 /\ ops = 0
    /\ cache = Nothing
    /\ st = [p \in Proc |-> "idle"]
    /\ old = [p \in Proc |-> Nothing]
    /\ fresh = [p \in Proc |-> Nothing]
    /\ start = [p \in Proc |-> 0]
    /\ todo = [p \in Proc |-> {}] /\ open = [p \in Proc |-> {}]
    /\ foreign = [p \in Proc |-> FALSE]

-----------------------------------------------------------------------------
(* The file system.                                                         *)

Stamp == clock - (clock % Grain)

Tick == /\ clock < MaxClock /\ clock' = clock + 1
        /\ UNCHANGED << fs, cache, walk, foreign >>

Make(n) ==
    /\ "create" \in Ops /\ ops < MaxOps
    /\ n \notin present /\ Parent[n] \in present
    /\ present' = present \cup {n}
    /\ mtime' = [d \in Dir |-> IF d = n \/ d = Parent[n] THEN Stamp ELSE mtime[d]]
    /\ ops' = ops + 1

\* A directory goes with all it holds.  Removing a worktree's .git file and
\* leaving the directory is an operation of its own.
Unmake(n) ==
    /\ IF n \in Marker THEN "unmark" \in Ops ELSE "delete" \in Ops
    /\ ops < MaxOps /\ n \in present
    /\ present' = present \ Subtree(n)
    /\ mtime' = [mtime EXCEPT ![Parent[n]] = Stamp]
    /\ ops' = ops + 1

\* The user, git, an editor, another process.
Change ==
    /\ \E n \in Node \ {Root} : Make(n) \/ Unmake(n)
    /\ foreign' = [p \in Proc |-> st[p] # "idle"]
    /\ UNCHANGED << clock, cache, walk >>

-----------------------------------------------------------------------------
(* The walk.                                                                *)

\* Get of a root no walk covers: walk loads the cache.
Start(p) ==
    /\ st[p] = "idle"
    /\ st' = [st EXCEPT ![p] = "walking"]
    /\ old' = [old EXCEPT ![p] = cache]
    /\ fresh' = [fresh EXCEPT ![p] = Nothing]
    /\ start' = [start EXCEPT ![p] = clock]
    /\ todo' = [todo EXCEPT ![p] = {Root}] /\ open' = [open EXCEPT ![p] = {}]
    /\ UNCHANGED << fs, clock, cache, foreign >>

\* The walk descends into the entries that are directories.
Subdirs(names) == names \cap Dir

Cached(p, d) == old[p][d].read /\ old[p][d].mtime = mtime[d]

\* read's first half: the stat of a queued directory.
StatGone(p, d) ==
    /\ d \in todo[p] /\ d \notin present
    /\ todo' = [todo EXCEPT ![p] = @ \ {d}]
    /\ UNCHANGED << fs, clock, cache, st, old, fresh, start, open, foreign >>

StatCached(p, d) ==
    /\ d \in todo[p] /\ d \in present /\ Cached(p, d)
    /\ fresh' = [fresh EXCEPT ![p][d] = old[p][d]]
    /\ todo' = [todo EXCEPT ![p] = (@ \ {d}) \cup Subdirs(old[p][d].entries)]
    /\ UNCHANGED << fs, clock, cache, st, old, start, open, foreign >>

Stat(p, d) ==
    /\ d \in todo[p] /\ d \in present /\ ~Cached(p, d)
    /\ todo' = [todo EXCEPT ![p] = @ \ {d}]
    /\ open' = [open EXCEPT ![p] = @ \cup {<< d, mtime[d] >>}]
    /\ UNCHANGED << fs, clock, cache, st, old, fresh, start, foreign >>

\* Mutant: no guard, any mtime is kept.
Settled_Any(p, m) == m

\* An mtime too close to the walk's start may be given out again: never match it.
Settled(p, m) == IF m >= start[p] - Guard THEN -1 ELSE m

ReadGone(p, d) ==
    /\ d \notin present /\ d \in {e[1] : e \in open[p]}
    /\ open' = [open EXCEPT ![p] = {e \in @ : e[1] # d}]
    /\ UNCHANGED << fs, clock, cache, st, old, fresh, start, todo, foreign >>

\* read's second half: ReadDir, the pruning, and AddDir.
Read(p, d) ==
    \E e \in open[p] :
        /\ e[1] = d /\ d \in present
        /\ open' = [open EXCEPT ![p] = {f \in @ : f[1] # d}]
        /\ LET kept == IF Worktree(d) THEN {} ELSE Children(d) \ Vendored
           IN  /\ fresh' = [fresh EXCEPT ![p][d] =
                      [mtime |-> Settled(p, e[2]), entries |-> kept,
                       pruned |-> Worktree(d), read |-> TRUE]]
               /\ todo' = [todo EXCEPT ![p] = @ \cup Subdirs(kept)]
        /\ UNCHANGED << fs, clock, cache, st, old, start, foreign >>

\* unlist: a pruned directory leaves its parent's listing.
Unlisted(ls) == [d \in Dir |-> [ls[d] EXCEPT !.entries = {n \in @ : ~(n \in Dir /\ ls[n].pruned)}]]

\* The walk ends, and the cache file is replaced unless that fails.
Finish(p) ==
    /\ st[p] = "walking" /\ todo[p] = {} /\ open[p] = {}
    /\ st' = [st EXCEPT ![p] = "done"]
    /\ fresh' = [fresh EXCEPT ![p] = Unlisted(@)]
    /\ \/ UNCHANGED cache
       \/ /\ Cardinality({d \in Dir : fresh[p][d].read}) >= PersistFloor
          /\ cache' = Unlisted(fresh[p])
    /\ old' = [old EXCEPT ![p] = Nothing] /\ start' = [start EXCEPT ![p] = 0]
    /\ UNCHANGED << fs, clock, todo, open, foreign >>

\* The process ends, in the middle of a walk or after it.
Exit(p) ==
    /\ st[p] # "idle"
    /\ st' = [st EXCEPT ![p] = "idle"]
    /\ old' = [old EXCEPT ![p] = Nothing] /\ fresh' = [fresh EXCEPT ![p] = Nothing]
    /\ start' = [start EXCEPT ![p] = 0]
    /\ todo' = [todo EXCEPT ![p] = {}] /\ open' = [open EXCEPT ![p] = {}]
    /\ foreign' = [foreign EXCEPT ![p] = FALSE]
    /\ UNCHANGED << fs, clock, cache >>

-----------------------------------------------------------------------------
(* What a process does to the tree after its walk, and tells the walk.      *)

\* Mutant: a removed directory stays in its parent's listing.
Removed_KeepsName(ls, n) == [d \in Dir |-> IF d \in Subtree(n) THEN Unread ELSE ls[d]]

\* A listing the process edits: no mtime matches it.
Noted(l, names) == [mtime |-> -1, entries |-> names, pruned |-> l.pruned, read |-> TRUE]

\* Removed
Removed(ls, n) == [d \in Dir |-> CASE d \in Subtree(n) -> Unread
                                   [] d = Parent[n] /\ ls[d].read -> Noted(ls[d], ls[d].entries \ {n})
                                   [] OTHER -> ls[d]]

\* Created adds each name on the way down, until a pruned name or directory.
Reached(ls, n) == IF ls[Root].read THEN {m \in PathTo(n) : \A k \in PathTo(m) :
                                             k \notin Vendored /\ ~ls[Parent[k]].pruned}
                  ELSE {}
Created(ls, n) ==
    [d \in Dir |->
        LET new == {m \in Reached(ls, n) : Parent[m] = d /\ m \notin ls[d].entries}
        IN  IF new # {} THEN Noted(ls[d], ls[d].entries \cup new)
            ELSE IF d \in Reached(ls, n) /\ ~ls[d].read THEN Noted(Unread, {})
            ELSE ls[d]]

Inside(n) == \E m \in PathTo(n) : Worktree(m)

Own(p, n) ==
    /\ st[p] = "done" /\ n \notin Marker /\ (Inside(n) => "inside" \in Ops)
    /\ \/ Make(n) /\ fresh' = [fresh EXCEPT ![p] = Created(@, n)]
       \/ Unmake(n) /\ fresh' = [fresh EXCEPT ![p] = Removed(@, n)]
    /\ foreign' = [q \in Proc |-> IF q = p THEN foreign[q] ELSE st[q] # "idle"]
    /\ UNCHANGED << clock, cache, st, old, start, todo, open >>

Walk(p) == \/ Start(p) \/ Finish(p) \/ Exit(p)
           \/ \E d \in Dir : StatGone(p, d) \/ StatCached(p, d) \/ Stat(p, d)
           \/ \E d \in Dir : ReadGone(p, d) \/ Read(p, d)
           \/ \E n \in Node \ {Root} : Own(p, n)

Next == Tick \/ Change \/ \E p \in Proc : Walk(p)

Spec == Init /\ [][Next]_vars

-----------------------------------------------------------------------------
(* Properties.                                                              *)

\* Every variable keeps its type.
TypeOK ==
    /\ present \subseteq Node /\ mtime \in [Dir -> Int] /\ clock \in Nat /\ ops \in Nat
    /\ cache \in [Dir -> Listing] /\ st \in [Proc -> {"idle", "walking", "done"}]
    /\ old \in [Proc -> [Dir -> Listing]] /\ fresh \in [Proc -> [Dir -> Listing]]
    /\ start \in [Proc -> Nat] /\ todo \in [Proc -> SUBSET Dir]
    /\ open \in [Proc -> SUBSET (Dir \X Int)]
    /\ foreign \in [Proc -> BOOLEAN]

\* What an uncached walk lists, and what Visit answers from the memo.
Visible == {n \in present \ {Root} : \A m \in PathTo(n) : m \notin Vendored /\ ~Worktree(m)}
Listed(p) == {n \in Node \ {Root} : \A m \in PathTo(n) : m \in fresh[p][Parent[m]].entries}

\* "The walk prunes .git, node_modules and every git linked worktree below the
\* root, and records every other entry" (walk.go): when nobody else changed
\* the tree since it began, a finished walk lists what an uncached walk would,
\* through the cache and through the process's own creations and removals.
WalkIsTrue == \A p \in Proc : st[p] = "done" /\ ~foreign[p] => Listed(p) = Visible

\* A walk of the root that is a worktree enters it (TestWalkEntersARootThatIsA-
\* Worktree), and Get answers a directory inside a walked root as a walk of its
\* own would.
VisibleFrom(d) == {n \in present : d \in Above[n] /\
                      \A m \in PathTo(n) \ PathTo(d) : m \notin Vendored /\ ~Worktree(m)}
ListedFrom(p, d) == {n \in Node : d # n /\ d \in Above[n] /\
                      \A m \in PathTo(n) \ PathTo(d) : m \in fresh[p][Parent[m]].entries}

\* "A match means the listing is the same" (walk.go): a cached listing whose
\* mtime is the directory's own holds every name the walk records there and no
\* name that is gone, whoever wrote the cache and whatever changed since.
Same(d, l) ==
    /\ {c \in Children(d) \ Vendored : ~Worktree(c)} \subseteq l.entries \/ Worktree(d)
    /\ l.entries \subseteq Children(d) \ Vendored
    /\ l.pruned => Worktree(d)
MatchMeansSame ==
    \A d \in present \cap Dir : cache[d].read /\ cache[d].mtime = mtime[d] => Same(d, cache[d])
=============================================================================
