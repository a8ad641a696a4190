--------------------------- MODULE WalkTree_proofs ---------------------------
(***************************************************************************)
(* A cached listing whose mtime matches is the directory's listing, and a  *)
(* finished walk nobody interfered with lists what an uncached walk would, *)
(* for every tree, every number of processes and every interleaving,       *)
(* provided that no linked worktree loses its .git file and keeps its      *)
(* directory, and, for the second, that no process changes what is inside  *)
(* a worktree its own walk pruned.                                         *)
(***************************************************************************)
EXTENDS WalkTree, TLAPS

\* What the theorem needs of the file system.
MarkersStay == "unmark" \notin Ops

\* Every later change of a directory stamps it after l was settled.
Old(l) == l.mtime = -1 \/ l.mtime + Grain <= clock

Matches(d, l) == d \in present /\ l.read /\ l.mtime = mtime[d]
\* The listing a read of d makes now, but for the worktrees unlist drops.
Exact(d, l) == Same(d, l) /\ (Worktree(d) => l.pruned)
Good(d, l) ==
    Old(l) /\ (l.pruned => l.read /\ l.entries = {}) /\ (Matches(d, l) => Exact(d, l))

Typed ==
    /\ clock \in Nat /\ present \subseteq Node
    /\ mtime \in [Dir -> Nat]
    /\ cache \in [Dir -> Listing]
    /\ st \in [Proc -> {"idle", "walking", "done"}]
    /\ old \in [Proc -> [Dir -> Listing]] /\ fresh \in [Proc -> [Dir -> Listing]]
    /\ start \in [Proc -> Nat] /\ todo \in [Proc -> SUBSET Dir]
    /\ open \in [Proc -> SUBSET (Dir \X Nat)]

Started == \A p \in Proc : start[p] <= clock

CacheGood == \A d \in Dir : Good(d, cache[d])
OldGood == \A p \in Proc, d \in Dir : Good(d, old[p][d])
FreshGood == \A p \in Proc, d \in Dir : st[p] = "walking" => Good(d, fresh[p][d])

\* A directory is queued, statted or read once, after its parent was read.
Opened(p, d) == \E e \in open[p] : e[1] = d
Pending(p, d) == d \in todo[p] \/ Opened(p, d)
Once ==
    \A p \in Proc, d \in Dir :
        /\ Pending(p, d) => st[p] = "walking" /\ ~fresh[p][d].read
        /\ ~(d \in todo[p] /\ Opened(p, d))
        /\ d # Root /\ st[p] = "walking" /\ (Pending(p, d) \/ fresh[p][d].read) =>
               fresh[p][Parent[d]].read /\ ~Pending(p, Parent[d])

\* A directory read as a pruned worktree is one still, or its parent's listing
\* no longer matches.
PrunedTrue ==
    \A p \in Proc, c \in Dir \ {Root} : st[p] = "walking" /\ fresh[p][c].pruned =>
        \/ c \in present /\ Worktree(c)
        \/ ~Matches(Parent[c], fresh[p][Parent[c]])

IInv == Typed /\ Started /\ CacheGood /\ OldGood /\ FreshGood /\ Once /\ PrunedTrue

-----------------------------------------------------------------------------
(* The file system.                                                         *)

\* A stamp is a time of the last Grain ticks.
LEMMA StampRecent ==
    ASSUME clock \in Nat
    PROVE  Stamp \in Nat /\ Stamp <= clock /\ Stamp + Grain > clock
BY ClockAssumption, SMT DEF Stamp

FsStep(n) == Make(n) \/ Unmake(n)

\* A worktree whose directory survives a step is a worktree after it.
LEMMA WorktreeStays ==
    ASSUME Typed, MarkersStay, NEW n \in Node \ {Root}, FsStep(n),
           NEW c \in Node, c \in present', Worktree(c)
    PROVE  Worktree(c)'
<1>1. PICK m \in Children(c) : m \in Marker
  BY DEF Worktree
<1>2. m \in Node \ {Root} /\ m \in present /\ Parent[m] = c
  BY <1>1 DEF Children, Typed
<1>3. m \in present'
  <2>1. CASE Make(n)
    BY <1>2, <2>1 DEF Make
  <2>2. CASE Unmake(n)
    <3>1. n \notin Marker
      BY <2>2 DEF Unmake, MarkersStay
    <3>2. c \notin Subtree(n)
      BY <2>2 DEF Unmake
    <3>3. m # n /\ n \notin Above[m]
      BY <1>1, <1>2, <3>1, <3>2, PathAssumption DEF Subtree
    <3> QED
      BY <1>2, <2>2, <3>3 DEF Unmake, Subtree
  <2> QED
    BY <2>1, <2>2 DEF FsStep
<1>4. m \in Children(c)'
  BY <1>2, <1>3 DEF Children
<1> QED
  BY <1>1, <1>4 DEF Worktree

\* A step that leaves a directory's mtime leaves its entries.
LEMMA EntriesStay ==
    ASSUME Typed, NEW n \in Node \ {Root}, FsStep(n), NEW d \in Dir,
           d \in present', mtime'[d] # Stamp
    PROVE  mtime'[d] = mtime[d] /\ d \in present /\ Children(d)' = Children(d)
<1>1. CASE Make(n)
  <2>1. d # n /\ d # Parent[n]
    BY <1>1 DEF Make
  <2> QED
    BY <1>1, <2>1 DEF Make, Children
<1>2. CASE Unmake(n)
  <2>1. d # Parent[n]
    BY <1>2, TreeAssumption DEF Unmake, Typed
  <2>2. d \in present /\ mtime'[d] = mtime[d]
    BY <1>2, <2>1, TreeAssumption DEF Unmake, Typed
  <2>3. d \in Node /\ d # n /\ n \notin Above[d]
    BY <1>2, TreeAssumption DEF Unmake, Subtree
  <2>4. ASSUME NEW c \in Children(d)
        PROVE  c \in present'
    <3>1. c \in Node \ {Root} /\ c \in present /\ Parent[c] = d
      BY <2>4 DEF Children, Typed
    <3>2. c # n /\ n \notin Above[c]
      BY <2>1, <2>3, <3>1, PathAssumption
    <3> QED
      BY <1>2, <3>1, <3>2 DEF Unmake, Subtree
  <2>5. present' \subseteq present
    BY <1>2 DEF Unmake
  <2> QED
    BY <2>2, <2>4, <2>5 DEF Children
<1> QED
  BY <1>1, <1>2 DEF FsStep

LEMMA FsType ==
    ASSUME Typed, NEW n \in Node \ {Root}, FsStep(n)
    PROVE  present' \subseteq Node /\ mtime' \in [Dir -> Nat]
<1>1. Stamp \in Nat
  BY StampRecent DEF Typed
<1>2. CASE Make(n)
  BY <1>1, <1>2 DEF Make, Typed
<1>3. CASE Unmake(n)
  BY <1>1, <1>3 DEF Unmake, Typed
<1> QED
  BY <1>2, <1>3 DEF FsStep

\* A good listing stays good, and one that does not match never will.
LEMMA FsKeepsGood ==
    ASSUME Typed, MarkersStay, NEW n \in Node \ {Root}, FsStep(n), clock' = clock,
           NEW d \in Dir, NEW l \in Listing, Old(l)
    PROVE  /\ Matches(d, l)' => Matches(d, l) /\ mtime'[d] # Stamp
           /\ Good(d, l) => Good(d, l)'
<1>1. Stamp \in Nat /\ Stamp + Grain > clock
  BY StampRecent DEF Typed
<1>2. mtime' \in [Dir -> Nat]
  BY FsType
<1>3. ASSUME Matches(d, l)'
      PROVE  mtime'[d] # Stamp /\ d \in present' /\ l.mtime = mtime'[d] /\ l.read
  <2>1. d \in present' /\ l.read /\ l.mtime = mtime'[d]
    BY <1>3 DEF Matches
  <2>2. mtime'[d] \in Nat
    BY <1>2
  <2>3. l.mtime + Grain <= clock
    BY <2>1, <2>2 DEF Old
  <2> QED
    BY <1>1, <2>1, <2>2, <2>3, ClockAssumption DEF Typed
<1>4. Matches(d, l)' => Matches(d, l) /\ mtime'[d] # Stamp
  BY <1>3, EntriesStay DEF Matches
<1>5. ASSUME Good(d, l), Matches(d, l)'
      PROVE  Exact(d, l)'
  <2>1. Exact(d, l) /\ Children(d)' = Children(d) /\ d \in present'
    BY <1>3, <1>4, <1>5, EntriesStay DEF Good
  <2>2. Worktree(d) <=> Worktree(d)'
    BY <2>1 DEF Worktree
  <2>3. \A c \in Children(d) : Worktree(c) => Worktree(c)'
    <3>1. ASSUME NEW c \in Children(d), Worktree(c)
          PROVE  Worktree(c)'
      <4>1. c \in Node /\ c \in present'
        BY <2>1 DEF Children, Typed
      <4> QED
        BY <3>1, <4>1, WorktreeStays
    <3> QED
      BY <3>1
  <2> QED
    BY <2>1, <2>2, <2>3 DEF Same, Exact
<1> QED
  BY <1>4, <1>5 DEF Good, Old

\* Listings under a step that leaves the file system and the clock alone.
LEMMA Frame ==
    ASSUME UNCHANGED << present, mtime, clock >>, NEW d, NEW l
    PROVE  /\ Good(d, l)' <=> Good(d, l)
           /\ Matches(d, l)' <=> Matches(d, l)
           /\ Worktree(d)' <=> Worktree(d)
<1>1. \A c : Children(c)' = Children(c)
  BY DEF Children
<1>2. \A c : Worktree(c)' <=> Worktree(c)
  BY <1>1 DEF Worktree
<1>3. Same(d, l)' <=> Same(d, l)
  BY <1>1, <1>2 DEF Same
<1>4. Matches(d, l)' <=> Matches(d, l)
  BY DEF Matches
<1> QED
  BY <1>2, <1>3, <1>4 DEF Good, Old, Exact

LEMMA UnreadGood ==
    ASSUME NEW d \in Dir
    PROVE  Unread \in Listing /\ Good(d, Unread) /\ ~Unread.read /\ ~Unread.pruned
BY DEF Unread, Listing, Good, Old, Matches

LEMMA NothingIs == Nothing \in [Dir -> Listing] /\ \A d \in Dir : Nothing[d] = Unread
BY DEF Nothing, Unread, Listing

-----------------------------------------------------------------------------
(* The initial states and the steps of the file system and the clock.       *)

LEMMA InitIInv == Init => IInv
<1> SUFFICES ASSUME Init PROVE IInv
  OBVIOUS
<1>1. Typed /\ Started
  BY NothingIs, ClockAssumption DEF Init, Typed, Started
<1>2. CacheGood
  BY NothingIs, UnreadGood DEF Init, CacheGood
<1>3. OldGood
  BY NothingIs, UnreadGood DEF Init, OldGood
<1>4. FreshGood /\ Once /\ PrunedTrue
  BY DEF Init, FreshGood, Once, PrunedTrue, Pending, Opened
<1> QED
  BY <1>1, <1>2, <1>3, <1>4 DEF IInv

\* A step of the file system, by anyone; a process that is not walking may
\* note it.
LEMMA FsIInv ==
    ASSUME IInv, MarkersStay, NEW n \in Node \ {Root}, FsStep(n),
           UNCHANGED << clock, cache, st, old, start, todo, open >>,
           fresh' \in [Proc -> [Dir -> Listing]],
           \A p \in Proc : st[p] = "walking" => fresh'[p] = fresh[p]
    PROVE  IInv'
<1> USE DEF IInv
<1>1. Typed' /\ Started'
  BY FsType DEF Typed, Started
<1>2. CacheGood'
  <2>1. ASSUME NEW d \in Dir
        PROVE  Good(d, cache[d])'
    <3>1. PICK l \in Listing : l = cache[d]
      BY DEF Typed
    <3>2. Good(d, l)
      BY <3>1 DEF CacheGood
    <3>3. Good(d, l)'
      BY <3>2, FsKeepsGood DEF Good
    <3>4. cache'[d] = l
      BY <3>1
    <3> QED
      BY <3>3, <3>4
  <2> QED
    BY <2>1 DEF CacheGood
<1>3. OldGood'
  <2>1. ASSUME NEW p \in Proc, NEW d \in Dir
        PROVE  Good(d, old[p][d])'
    <3>1. PICK l \in Listing : l = old[p][d]
      BY DEF Typed
    <3>2. Good(d, l)
      BY <3>1 DEF OldGood
    <3>3. Good(d, l)'
      BY <3>2, FsKeepsGood DEF Good
    <3>4. old'[p][d] = l
      BY <3>1
    <3> QED
      BY <3>3, <3>4
  <2> QED
    BY <2>1 DEF OldGood
<1>4. FreshGood'
  <2>1. ASSUME NEW p \in Proc, NEW d \in Dir, st[p] = "walking"
        PROVE  Good(d, fresh[p][d])'
    <3>1. PICK l \in Listing : l = fresh[p][d]
      BY DEF Typed
    <3>2. Good(d, l)
      BY <2>1, <3>1 DEF FreshGood
    <3>3. Good(d, l)'
      BY <3>2, FsKeepsGood DEF Good
    <3>4. fresh'[p][d] = l
      BY <2>1, <3>1
    <3> QED
      BY <3>3, <3>4
  <2> QED
    BY <2>1 DEF FreshGood
<1>5. Once'
  BY DEF Once, Pending, Opened
<1>6. PrunedTrue'
  <2> SUFFICES ASSUME NEW p \in Proc, NEW c \in Dir \ {Root}, st[p] = "walking",
                      fresh[p][c].pruned,
                      Matches(Parent[c], fresh[p][Parent[c]])'
               PROVE  c \in present' /\ Worktree(c)'
    BY DEF PrunedTrue
  <2>1. c \in Node /\ Parent[c] \in Dir
    BY TreeAssumption
  <2>2. PICK l \in Listing : l = fresh[p][Parent[c]]
    BY <2>1 DEF Typed
  <2>3. Matches(Parent[c], l)'
    <3>1. fresh'[p][Parent[c]] = l
      BY <2>2
    <3> QED
      BY <3>1
  <2>4. Old(l)
    BY <2>1, <2>2 DEF FreshGood, Good
  <2>5. Matches(Parent[c], l) /\ mtime'[Parent[c]] # Stamp
    BY <2>1, <2>3, <2>4, FsKeepsGood
  <2>6. c \in present /\ Worktree(c)
    BY <2>2, <2>5 DEF PrunedTrue
  <2>7. c \in present'
    <3>1. CASE Make(n)
      BY <2>6, <3>1 DEF Make
    <3>2. CASE Unmake(n)
      <4>1. c # n
        BY <2>1, <2>5, <3>2 DEF Unmake, Typed
      <4>2. Parent[c] \in present'
        BY <2>3 DEF Matches
      <4>3. Parent[c] # n /\ n \notin Above[Parent[c]]
        BY <2>1, <3>2, <4>2, TreeAssumption DEF Unmake, Subtree
      <4> QED
        BY <2>1, <2>6, <3>2, <4>1, <4>3, PathAssumption DEF Unmake, Subtree
    <3> QED
      BY <3>1, <3>2 DEF FsStep
  <2> QED
    BY <2>1, <2>6, <2>7, WorktreeStays
<1> QED
  BY <1>1, <1>2, <1>3, <1>4, <1>5, <1>6

LEMMA ChangeIInv == ASSUME IInv, MarkersStay, Change PROVE IInv'
<1>1. PICK n \in Node \ {Root} : FsStep(n)
  BY DEF Change, FsStep
<1> QED
  BY <1>1, FsIInv DEF Change, walk, IInv, Typed

\* What a process notes of its own changes are listings.
LEMMA NotedType ==
    ASSUME NEW ls \in [Dir -> Listing], NEW n \in Node \ {Root}
    PROVE  Created(ls, n) \in [Dir -> Listing] /\ Removed(ls, n) \in [Dir -> Listing]
<1>1. ASSUME NEW l \in Listing, NEW names \in SUBSET Node
      PROVE  Noted(l, names) \in Listing
  BY DEF Listing, Noted
<1>2. Unread \in Listing
  BY DEF Listing, Unread
<1>3. Created(ls, n) \in [Dir -> Listing]
  <2>1. ASSUME NEW d \in Dir, NEW new, new = {m \in Reached(ls, n) : Parent[m] = d /\ m \notin ls[d].entries}
        PROVE  Noted(ls[d], ls[d].entries \cup new) \in Listing /\ Noted(Unread, {}) \in Listing
    <3>1. new \in SUBSET Node /\ ls[d] \in Listing
      BY <2>1 DEF Reached, PathTo
    <3> QED
      BY <1>1, <1>2, <3>1 DEF Listing
  <2> QED
    BY <1>2, <2>1 DEF Created
<1>4. Removed(ls, n) \in [Dir -> Listing]
  <2>1. \A d \in Dir : Noted(ls[d], ls[d].entries \ {n}) \in Listing
    BY <1>1 DEF Listing
  <2> QED
    BY <1>2, <2>1 DEF Removed
<1> QED
  BY <1>3, <1>4

LEMMA OwnIInv ==
    ASSUME IInv, MarkersStay, NEW p \in Proc, NEW n \in Node \ {Root}, Own(p, n)
    PROVE  IInv'
<1>1. FsStep(n) /\ st[p] = "done"
  BY DEF Own, FsStep
<1>2. PICK ls \in [Dir -> Listing] : fresh' = [fresh EXCEPT ![p] = ls]
  <2>1. fresh[p] \in [Dir -> Listing]
    BY DEF IInv, Typed
  <2> QED
    BY <2>1, NotedType DEF Own
<1>3. fresh' \in [Proc -> [Dir -> Listing]]
  BY <1>2 DEF IInv, Typed
<1>4. \A q \in Proc : st[q] = "walking" => fresh'[q] = fresh[q]
  BY <1>1, <1>2 DEF IInv, Typed
<1> QED
  BY <1>1, <1>3, <1>4, FsIInv DEF Own

LEMMA TickIInv == ASSUME IInv, Tick PROVE IInv'
<1>1. clock \in Nat /\ clock' = clock + 1
  BY DEF Tick, IInv, Typed
<1>2. ASSUME NEW d \in Dir, NEW l \in Listing
      PROVE  /\ Good(d, l) => Good(d, l)'
             /\ Matches(d, l)' <=> Matches(d, l)
  <2>1. Old(l) => Old(l)'
    BY <1>1, ClockAssumption DEF Old, Listing
  <2>2. Exact(d, l)' <=> Exact(d, l)
    BY DEF Tick, fs, Exact, Same, Children, Worktree
  <2> QED
    BY <2>1, <2>2 DEF Good, Matches, Tick, fs
<1>3. Typed' /\ Started'
  BY <1>1 DEF Tick, fs, walk, IInv, Typed, Started
<1>4. CacheGood'
  BY <1>2 DEF Tick, IInv, Typed, CacheGood
<1>5. OldGood'
  BY <1>2 DEF Tick, walk, IInv, Typed, OldGood
<1>6. FreshGood'
  BY <1>2 DEF Tick, walk, IInv, Typed, FreshGood
<1>7. Once'
  BY DEF Tick, walk, IInv, Once, Pending, Opened
<1>8. PrunedTrue'
  BY DEF Tick, fs, walk, IInv, PrunedTrue, Matches, Worktree, Children
<1> QED
  BY <1>3, <1>4, <1>5, <1>6, <1>7, <1>8 DEF IInv

-----------------------------------------------------------------------------
(* The steps of a walk.                                                     *)

\* What a step of one walk leaves alone.
LEMMA Others ==
    ASSUME IInv, UNCHANGED << present, mtime, clock, cache, old >>
    PROVE  CacheGood' /\ OldGood'
BY Frame DEF IInv, CacheGood, OldGood

\* A step that drops or moves a pending directory and records nothing.
LEMMA DropIInv ==
    ASSUME IInv,
           UNCHANGED << present, mtime, clock, cache, st, old, fresh, start >>,
           todo' \in [Proc -> SUBSET Dir], open' \in [Proc -> SUBSET (Dir \X Nat)],
           \A q \in Proc, d \in Dir :
               /\ Pending(q, d)' => Pending(q, d)
               /\ ~(d \in todo'[q] /\ Opened(q, d)')
    PROVE  IInv'
<1>1. Typed' /\ Started'
  BY DEF IInv, Typed, Started
<1>2. CacheGood' /\ OldGood'
  BY Others
<1>3. FreshGood'
  BY Frame DEF IInv, FreshGood
<1>4. Once'
  BY TreeAssumption DEF IInv, Once
<1>5. PrunedTrue'
  BY Frame DEF IInv, PrunedTrue
<1> QED
  BY <1>1, <1>2, <1>3, <1>4, <1>5 DEF IInv

\* A step that records the listing l of d and queues kids.
LEMMA RecordIInv ==
    ASSUME IInv, NEW p \in Proc, NEW d \in Dir, Pending(p, d),
           NEW l \in Listing, Good(d, l), l.read,
           l.pruned => d \in present /\ Worktree(d),
           NEW kids, kids \subseteq Children(d) \cap Dir,
           UNCHANGED << present, mtime, clock, cache, st, old, start >>,
           fresh' = [fresh EXCEPT ![p][d] = l],
           todo' \in [Proc -> SUBSET Dir], open' \in [Proc -> SUBSET (Dir \X Nat)],
           \A q \in Proc \ {p} : todo'[q] = todo[q] /\ open'[q] = open[q],
           todo'[p] = (todo[p] \ {d}) \cup kids,
           open'[p] = {e \in open[p] : e[1] # d}
    PROVE  IInv'
<1> USE DEF IInv
<1>1. fresh \in [Proc -> [Dir -> Listing]] /\ fresh[p] \in [Dir -> Listing]
  BY DEF Typed
<1>2. /\ fresh'[p][d] = l
      /\ \A q \in Proc, c \in Dir : q # p \/ c # d => fresh'[q][c] = fresh[q][c]
  BY <1>1
<1>3. Typed' /\ Started'
  <2>1. fresh' \in [Proc -> [Dir -> Listing]]
    BY <1>1
  <2> QED
    BY <2>1 DEF Typed, Started
<1>4. CacheGood' /\ OldGood'
  BY Others
<1>5. FreshGood'
  BY <1>2, Frame DEF FreshGood
<1>6. st[p] = "walking" /\ ~fresh[p][d].read
  BY DEF Once
<1>7. \A c \in kids : c \in Dir \ {Root} /\ Parent[c] = d /\ c # d /\ ~Pending(p, c) /\ ~fresh[p][c].read
  BY <1>6 DEF Once, Children
<1>8. \A q \in Proc, c \in Dir : q # p => (Pending(q, c)' <=> Pending(q, c)) /\ (Opened(q, c)' <=> Opened(q, c))
  BY DEF Pending, Opened
<1>9. \A c \in Dir : /\ Pending(p, c)' <=> (Pending(p, c) /\ c # d) \/ c \in kids
                     /\ Opened(p, c)' <=> Opened(p, c) /\ c # d
  BY <1>7 DEF Pending, Opened
<1>10. Once'
  <2>1. ASSUME NEW q \in Proc, NEW c \in Dir, Pending(q, c)'
        PROVE  st[q] = "walking" /\ ~fresh'[q][c].read
    BY <2>1, <1>2, <1>6, <1>7, <1>8, <1>9 DEF Once
  <2>2. ASSUME NEW q \in Proc, NEW c \in Dir, c \in todo'[q], Opened(q, c)'
        PROVE  FALSE
    BY <2>2, <1>7, <1>8, <1>9 DEF Once, Pending
  <2>3. ASSUME NEW q \in Proc, NEW c \in Dir \ {Root}, st[q] = "walking",
               Pending(q, c)' \/ fresh'[q][c].read
        PROVE  fresh'[q][Parent[c]].read /\ ~Pending(q, Parent[c])'
    <3> DEFINE e == Parent[c]
    <3>1. c \in Node \ {Root} /\ e \in Dir
      BY TreeAssumption
    <3>2. CASE q # p
      BY <2>3, <3>1, <3>2, <1>2, <1>8 DEF Once
    <3>3. CASE q = p /\ c \in kids
      BY <3>3, <1>2, <1>6, <1>7, <1>9
    <3>4. CASE q = p /\ c \notin kids
      <4>1. Pending(p, c) \/ fresh[p][c].read
        BY <2>3, <3>4, <1>2, <1>9
      <4>2. fresh[p][e].read /\ ~Pending(p, e)
        BY <2>3, <3>4, <4>1 DEF Once
      <4> QED
        BY <3>1, <3>4, <4>2, <1>2, <1>6, <1>7, <1>9
    <3> QED
      BY <3>2, <3>3, <3>4
  <2> QED
    BY <2>1, <2>2, <2>3 DEF Once
<1>11. PrunedTrue'
  <2> SUFFICES ASSUME NEW q \in Proc, NEW c \in Dir \ {Root}, st[q] = "walking",
                      fresh'[q][c].pruned
               PROVE  \/ c \in present /\ Worktree(c)
                      \/ ~Matches(Parent[c], fresh'[q][Parent[c]])
    BY Frame DEF PrunedTrue
  <2>1. Parent[c] \in Dir
    BY TreeAssumption
  <2>2. CASE q = p /\ c = d
    BY <2>2, <1>2
  <2>3. CASE q # p
    BY <2>1, <2>3, <1>2 DEF PrunedTrue
  <2>4. CASE q = p /\ c # d
    <3>1. fresh[p][c].read
      BY <2>4, <1>2 DEF FreshGood, Good
    <3>2. Parent[c] # d
      BY <2>4, <3>1, <1>6 DEF Once
    <3> QED
      BY <2>1, <2>4, <3>2, <1>2 DEF PrunedTrue
  <2> QED
    BY <2>2, <2>3, <2>4
<1> QED
  BY <1>3, <1>4, <1>5, <1>10, <1>11

LEMMA StatGoneIInv ==
    ASSUME IInv, NEW p \in Proc, NEW d \in Dir, StatGone(p, d) PROVE IInv'
<1>1. todo' \in [Proc -> SUBSET Dir] /\ open' = open /\ \A q \in Proc : todo'[q] \subseteq todo[q]
  BY DEF StatGone, IInv, Typed
<1>2. \A q \in Proc, c \in Dir : /\ Pending(q, c)' => Pending(q, c)
                               /\ ~(c \in todo'[q] /\ Opened(q, c)')
  BY <1>1 DEF IInv, Once, Pending, Opened
<1> QED
  BY <1>1, <1>2, DropIInv DEF StatGone, fs, IInv, Typed

LEMMA ReadGoneIInv ==
    ASSUME IInv, NEW p \in Proc, NEW d \in Dir, ReadGone(p, d) PROVE IInv'
<1>1. open' \in [Proc -> SUBSET (Dir \X Nat)] /\ todo' = todo /\ \A q \in Proc : open'[q] \subseteq open[q]
  BY DEF ReadGone, IInv, Typed
<1>2. \A q \in Proc, c \in Dir : /\ Pending(q, c)' => Pending(q, c)
                               /\ ~(c \in todo'[q] /\ Opened(q, c)')
  BY <1>1 DEF IInv, Once, Pending, Opened
<1> QED
  BY <1>1, <1>2, DropIInv DEF ReadGone, fs, IInv, Typed

LEMMA StatIInv ==
    ASSUME IInv, NEW p \in Proc, NEW d \in Dir, Stat(p, d) PROVE IInv'
<1>1. /\ todo' \in [Proc -> SUBSET Dir] /\ open' \in [Proc -> SUBSET (Dir \X Nat)]
      /\ todo'[p] = todo[p] \ {d} /\ open'[p] = open[p] \cup {<< d, mtime[d] >>}
      /\ \A q \in Proc \ {p} : todo'[q] = todo[q] /\ open'[q] = open[q]
  BY DEF Stat, IInv, Typed
<1>2. \A q \in Proc, c \in Dir : q # p \/ c # d =>
          (c \in todo'[q] <=> c \in todo[q]) /\ (Opened(q, c)' <=> Opened(q, c))
  BY <1>1 DEF Opened
<1>3. d \in todo[p] /\ d \notin todo'[p]
  BY <1>1 DEF Stat
<1>4. \A q \in Proc, c \in Dir : /\ Pending(q, c)' => Pending(q, c)
                               /\ ~(c \in todo'[q] /\ Opened(q, c)')
  BY <1>2, <1>3 DEF IInv, Once, Pending
<1> QED
  BY <1>1, <1>4, DropIInv DEF Stat, fs

LEMMA StatCachedIInv ==
    ASSUME IInv, NEW p \in Proc, NEW d \in Dir, StatCached(p, d) PROVE IInv'
<1>1. PICK l \in Listing : l = old[p][d]
  BY DEF IInv, Typed
<1>2. Good(d, l) /\ Matches(d, l)
  BY <1>1 DEF StatCached, Cached, Matches, IInv, OldGood
<1>3. l.read /\ Same(d, l) /\ (l.pruned => d \in present /\ Worktree(d))
  BY <1>2 DEF Good, Matches, Exact, Same
<1>4. PICK kids : kids = Subdirs(l.entries)
  OBVIOUS
<1>5. kids \subseteq Children(d) \cap Dir
  BY <1>3, <1>4 DEF Same, Subdirs
<1>6. Pending(p, d) /\ ~Opened(p, d)
  BY DEF StatCached, Pending, IInv, Once
<1>7. /\ fresh' = [fresh EXCEPT ![p][d] = l]
      /\ todo' = [todo EXCEPT ![p] = (@ \ {d}) \cup kids]
      /\ UNCHANGED << present, mtime, clock, cache, st, old, start, open >>
  BY <1>1, <1>4 DEF StatCached, fs
<1>8. /\ todo' \in [Proc -> SUBSET Dir] /\ open' \in [Proc -> SUBSET (Dir \X Nat)]
      /\ todo'[p] = (todo[p] \ {d}) \cup kids
      /\ \A q \in Proc \ {p} : todo'[q] = todo[q] /\ open'[q] = open[q]
  BY <1>5, <1>7 DEF IInv, Typed
<1>9. open'[p] = {e \in open[p] : e[1] # d}
  BY <1>6, <1>7 DEF Opened
<1>10. UNCHANGED << present, mtime, clock, cache, st, old, start >> /\ fresh' = [fresh EXCEPT ![p][d] = l]
  BY <1>7
<1>11. Pending(p, d) /\ Good(d, l) /\ l.read /\ (l.pruned => d \in present /\ Worktree(d))
  BY <1>2, <1>3, <1>6
<1> QED
  BY <1>5, <1>8, <1>9, <1>10, <1>11, RecordIInv

LEMMA ReadIInv ==
    ASSUME IInv, NEW p \in Proc, NEW d \in Dir, Read(p, d) PROVE IInv'
<1>1. PICK e \in open[p] : Read(p, d)!(e)
  BY DEF Read
<1>2. PICK m \in Nat : e = << d, m >>
  BY <1>1 DEF IInv, Typed
<1>3. PICK kept : kept = IF Worktree(d) THEN {} ELSE Children(d) \ Vendored
  OBVIOUS
<1>4. PICK l : l = [mtime |-> Settled(p, m), entries |-> kept, pruned |-> Worktree(d), read |-> TRUE]
  OBVIOUS
<1>5. /\ d \in present /\ open' = [open EXCEPT ![p] = {f \in @ : f[1] # d}]
      /\ fresh' = [fresh EXCEPT ![p][d] = l]
      /\ todo' = [todo EXCEPT ![p] = @ \cup Subdirs(kept)]
      /\ UNCHANGED << present, mtime, clock, cache, st, old, start >>
  BY <1>1, <1>2, <1>3, <1>4 DEF fs
<1>6. Worktree(d) \in BOOLEAN /\ kept \subseteq Children(d) \ Vendored /\ kept \subseteq Node
  BY <1>3 DEF Worktree, Children, IInv, Typed
<1>7. Settled(p, m) \in Int /\ (Settled(p, m) = -1 \/ Settled(p, m) + Grain <= clock)
  BY <1>2, ClockAssumption DEF Settled, IInv, Typed, Started
<1>8. l \in Listing /\ l.read /\ l.entries = kept /\ (l.pruned <=> Worktree(d)) /\ Old(l)
  BY <1>4, <1>6, <1>7 DEF Listing, Old
<1>9. Good(d, l)
  BY <1>3, <1>6, <1>8 DEF Good, Exact, Same
<1>10. PICK kids : kids = Subdirs(kept)
  OBVIOUS
<1>11. kids \subseteq Children(d) \cap Dir /\ (l.pruned => d \in present /\ Worktree(d))
  BY <1>5, <1>6, <1>8, <1>10 DEF Subdirs
<1>12. Pending(p, d) /\ d \notin todo[p]
  BY <1>1, <1>2 DEF Pending, Opened, IInv, Once
<1>13. /\ todo' \in [Proc -> SUBSET Dir] /\ open' \in [Proc -> SUBSET (Dir \X Nat)]
       /\ todo'[p] = (todo[p] \ {d}) \cup kids
       /\ open'[p] = {f \in open[p] : f[1] # d}
       /\ \A q \in Proc \ {p} : todo'[q] = todo[q] /\ open'[q] = open[q]
  BY <1>5, <1>10, <1>11, <1>12 DEF IInv, Typed
<1>14. UNCHANGED << present, mtime, clock, cache, st, old, start >> /\ fresh' = [fresh EXCEPT ![p][d] = l]
  BY <1>5
<1> QED
  BY <1>14, <1>8, <1>9, <1>11, <1>12, <1>13, RecordIInv

LEMMA StartIInv == ASSUME IInv, NEW p \in Proc, Start(p) PROVE IInv'
<1> USE DEF IInv
<1>1. /\ UNCHANGED << present, mtime, clock, cache >> /\ st[p] = "idle"
      /\ st' = [st EXCEPT ![p] = "walking"] /\ old' = [old EXCEPT ![p] = cache]
      /\ fresh' = [fresh EXCEPT ![p] = Nothing] /\ start' = [start EXCEPT ![p] = clock]
      /\ todo' = [todo EXCEPT ![p] = {Root}] /\ open' = [open EXCEPT ![p] = {}]
  BY DEF Start, fs
<1>2. Typed' /\ Started'
  BY <1>1, NothingIs, TreeAssumption DEF Typed, Started
<1>3. CacheGood'
  BY <1>1, Frame DEF CacheGood
<1>4. OldGood'
  BY <1>1, Frame DEF OldGood, CacheGood, Typed
<1>5. /\ \A d \in Dir : fresh'[p][d] = Unread
      /\ \A q \in Proc \ {p} : /\ fresh'[q] = fresh[q] /\ st'[q] = st[q]
                               /\ todo'[q] = todo[q] /\ open'[q] = open[q]
      /\ todo'[p] = {Root} /\ open'[p] = {} /\ st'[p] = "walking"
  BY <1>1, NothingIs DEF Typed
<1>6. FreshGood'
  BY <1>1, <1>5, UnreadGood, Frame DEF FreshGood
<1>7. \A q \in Proc \ {p}, d \in Dir :
          (Pending(q, d)' <=> Pending(q, d)) /\ (Opened(q, d)' <=> Opened(q, d))
  BY <1>5 DEF Pending, Opened
<1>8. \A d \in Dir : (Pending(p, d)' <=> d = Root) /\ ~Opened(p, d)'
  BY <1>5 DEF Pending, Opened
<1>9. \A d \in Dir : ~fresh'[p][d].read /\ ~fresh'[p][d].pruned
  BY <1>5, UnreadGood
<1>10. Once'
  <2>1. ASSUME NEW q \in Proc, NEW d \in Dir, q # p
        PROVE  Once!(q, d)'
    BY <2>1, <1>5, <1>7, TreeAssumption DEF Once
  <2>2. ASSUME NEW d \in Dir
        PROVE  Once!(p, d)'
    BY <1>5, <1>8, <1>9
  <2> QED
    BY <2>1, <2>2 DEF Once
<1>11. PrunedTrue'
  BY <1>1, <1>5, <1>9, Frame DEF PrunedTrue
<1> QED
  BY <1>2, <1>3, <1>4, <1>6, <1>10, <1>11

\* A process that is not walking owes nothing.
LEMMA StopIInv ==
    ASSUME IInv, NEW p \in Proc, NEW s \in {"idle", "done"}, NEW ls \in [Dir -> Listing],
           UNCHANGED << present, mtime, clock >>, CacheGood', cache' \in [Dir -> Listing],
           st' = [st EXCEPT ![p] = s], old' = [old EXCEPT ![p] = Nothing],
           fresh' = [fresh EXCEPT ![p] = ls], start' = [start EXCEPT ![p] = 0],
           todo' = [todo EXCEPT ![p] = {}], open' = [open EXCEPT ![p] = {}]
    PROVE  IInv'
<1> USE DEF IInv
<1>1. Typed' /\ Started'
  BY NothingIs DEF Typed, Started
<1>2. OldGood'
  BY NothingIs, UnreadGood, Frame DEF OldGood, Typed
<1>3. /\ \A q \in Proc \ {p} : /\ fresh'[q] = fresh[q] /\ st'[q] = st[q]
                               /\ todo'[q] = todo[q] /\ open'[q] = open[q]
      /\ todo'[p] = {} /\ open'[p] = {} /\ st'[p] # "walking"
  BY DEF Typed
<1>4. FreshGood'
  BY <1>3, Frame DEF FreshGood
<1>5. \A q \in Proc \ {p}, d \in Dir :
          (Pending(q, d)' <=> Pending(q, d)) /\ (Opened(q, d)' <=> Opened(q, d))
  BY <1>3 DEF Pending, Opened
<1>6. \A d \in Dir : ~Pending(p, d)' /\ ~Opened(p, d)'
  BY <1>3 DEF Pending, Opened
<1>7. Once'
  <2>1. ASSUME NEW q \in Proc, NEW d \in Dir, q # p
        PROVE  Once!(q, d)'
    BY <2>1, <1>3, <1>5, TreeAssumption DEF Once
  <2>2. ASSUME NEW d \in Dir
        PROVE  Once!(p, d)'
    BY <1>3, <1>6
  <2> QED
    BY <2>1, <2>2 DEF Once
<1>8. PrunedTrue'
  BY <1>3, Frame DEF PrunedTrue
<1> QED
  BY <1>1, <1>2, <1>4, <1>7, <1>8

LEMMA ExitIInv == ASSUME IInv, NEW p \in Proc, Exit(p) PROVE IInv'
<1>1. CacheGood' /\ cache' \in [Dir -> Listing]
  BY Frame DEF Exit, fs, IInv, CacheGood, Typed
<1> QED
  BY <1>1, StopIInv, NothingIs DEF Exit, fs

LEMMA UnlistedIs ==
    ASSUME NEW ls \in [Dir -> Listing], NEW d \in Dir
    PROVE  /\ Unlisted(ls) \in [Dir -> Listing]
           /\ Unlisted(ls)[d].read = ls[d].read /\ Unlisted(ls)[d].mtime = ls[d].mtime
           /\ Unlisted(ls)[d].pruned = ls[d].pruned
           /\ Unlisted(ls)[d].entries = {n \in ls[d].entries : ~(n \in Dir /\ ls[n].pruned)}
BY DEF Unlisted, Listing

\* The listings a walk saves are good: what unlist drops is still pruned, or
\* the listing it is dropped from matches no more.
LEMMA UnlistedGood ==
    ASSUME IInv, NEW p \in Proc, st[p] = "walking", NEW d \in Dir
    PROVE  Good(d, Unlisted(fresh[p])[d])
<1> DEFINE l == fresh[p][d]
<1> DEFINE u == Unlisted(fresh[p])[d]
<1>1. fresh[p] \in [Dir -> Listing] /\ Good(d, l)
  BY DEF IInv, Typed, FreshGood
<1>2. /\ u.read = l.read /\ u.mtime = l.mtime /\ u.pruned = l.pruned
      /\ u.entries = {n \in l.entries : ~(n \in Dir /\ fresh[p][n].pruned)}
  BY <1>1, UnlistedIs
<1>3. ASSUME Matches(d, u)
      PROVE  Exact(d, u)
  <2>1. Matches(d, l) /\ Exact(d, l)
    BY <1>1, <1>2, <1>3 DEF Matches, Good
  <2>2. ASSUME NEW c \in Children(d) \ Vendored, ~Worktree(c), c \in l.entries
        PROVE  c \in u.entries
    <3>1. c \in Node \ {Root} /\ Parent[c] = d
      BY DEF Children, IInv, Typed
    <3>2. ~(c \in Dir /\ fresh[p][c].pruned)
      BY <2>1, <2>2, <3>1 DEF IInv, PrunedTrue
    <3> QED
      BY <1>2, <2>2, <3>2
  <2> QED
    BY <1>2, <2>1, <2>2 DEF Exact, Same
<1> QED
  BY <1>1, <1>2, <1>3 DEF Good, Old

LEMMA FinishIInv == ASSUME IInv, NEW p \in Proc, Finish(p) PROVE IInv'
<1>1. PICK ls \in [Dir -> Listing] : ls = Unlisted(fresh[p])
  BY UnlistedIs, TreeAssumption DEF IInv, Typed
<1>2. \A d \in Dir : Good(d, ls[d])
  BY <1>1, UnlistedGood DEF Finish
<1>3. UNCHANGED << present, mtime, clock >>
  BY DEF Finish, fs
<1>4. CacheGood' /\ cache' \in [Dir -> Listing]
  <2>1. CASE UNCHANGED cache
    BY <2>1, <1>3, Frame DEF IInv, CacheGood, Typed
  <2>2. CASE cache' = ls
    BY <2>2, <1>2, <1>3, Frame DEF CacheGood
  <2> QED
    BY <2>1, <2>2, <1>1 DEF Finish
<1>5. /\ fresh' = [fresh EXCEPT ![p] = ls] /\ st' = [st EXCEPT ![p] = "done"]
      /\ old' = [old EXCEPT ![p] = Nothing] /\ start' = [start EXCEPT ![p] = 0]
      /\ todo' = [todo EXCEPT ![p] = {}] /\ open' = [open EXCEPT ![p] = {}]
  BY <1>1 DEF Finish, IInv, Typed
<1> QED
  BY <1>3, <1>4, <1>5, StopIInv

-----------------------------------------------------------------------------
(* The theorems.                                                            *)

LEMMA NextIInv == ASSUME IInv, MarkersStay, [Next]_vars PROVE IInv'
<1>1. CASE Tick
  BY <1>1, TickIInv
<1>2. CASE Change
  BY <1>2, ChangeIInv
<1>3. ASSUME NEW p \in Proc, Walk(p)
      PROVE  IInv'
  BY <1>3, StartIInv, FinishIInv, ExitIInv, StatGoneIInv, StatCachedIInv, StatIInv,
     ReadGoneIInv, ReadIInv, OwnIInv DEF Walk
<1>4. CASE UNCHANGED vars
  <2>1. UNCHANGED << present, mtime, clock, cache, st, old, fresh, start, todo, open >>
    BY <1>4 DEF vars, fs, walk
  <2>2. \A q \in Proc, c \in Dir : /\ Pending(q, c)' => Pending(q, c)
                                 /\ ~(c \in todo'[q] /\ Opened(q, c)')
    BY <2>1 DEF Pending, Opened, IInv, Once
  <2>3. todo' \in [Proc -> SUBSET Dir] /\ open' \in [Proc -> SUBSET (Dir \X Nat)]
    BY <2>1 DEF IInv, Typed
  <2> QED
    BY <2>1, <2>2, <2>3, DropIInv
<1> QED
  BY <1>1, <1>2, <1>3, <1>4 DEF Next

\* The inductive invariant: every listing that is cached, loaded or read and
\* still matches its directory is that directory's listing, and what a walk
\* means to prune is pruned still or noticed (walk, read, saveCache).
THEOREM Inductive == ASSUME MarkersStay PROVE Spec => []IInv
<1>1. IInv /\ [Next]_vars => IInv'
  BY NextIInv
<1> QED
  BY InitIInv, <1>1, PTL DEF Spec

\* A cached listing whose mtime is the directory's own is its listing (the
\* comment of read), for every tree, granularity and number of processes, as
\* long as no worktree loses its marker alone and the racy window is no
\* shorter than the granularity of mtimes.
THEOREM MatchIsSame == ASSUME MarkersStay PROVE Spec => []MatchMeansSame
<1>1. IInv => MatchMeansSame
  BY DEF IInv, CacheGood, Good, Exact, Matches, MatchMeansSame
<1> QED
  BY Inductive, <1>1, PTL

-----------------------------------------------------------------------------
(* The paths are a tree.                                                    *)

\* A set of paths that holds a path whenever it holds its parent, and the
\* root, holds them all.
LEMMA FromTheRoot ==
    ASSUME NEW S, Root \in S, \A n \in Node \ {Root} : Parent[n] \in S => n \in S
    PROVE  Node \subseteq S
<1> SUFFICES ASSUME NEW b \in Node, b \notin S PROVE FALSE
  OBVIOUS
<1>1. PICK T \in SUBSET Node : T = Node \ S
  OBVIOUS
<1>2. PICK n \in T : n = Root \/ Parent[n] \notin T
  BY <1>1, PathAssumption
<1>3. n \in Node \ {Root} /\ Parent[n] \in Node
  BY <1>1, <1>2, TreeAssumption
<1> QED
  BY <1>1, <1>2, <1>3

LEMMA AboveStep ==
    ASSUME NEW n \in Node \ {Root}
    PROVE  Above[n] = {Parent[n]} \cup Above[Parent[n]] /\ Parent[n] \in Dir /\ Parent[n] \in Node
BY PathAssumption, TreeAssumption

\* What is above a directory above a path is above the path.
LEMMA AboveTransitive ==
    ASSUME NEW n \in Node, NEW m \in Above[n]
    PROVE  m \in Node /\ Above[m] \subseteq Above[n]
<1> DEFINE Fine(k) == \A a \in Above[k] : a \in Node /\ Above[a] \subseteq Above[k]
<1>1. PICK S : S = {k \in Node : Fine(k)}
  OBVIOUS
<1>2. Root \in S
  BY <1>1, PathAssumption, TreeAssumption
<1>3. ASSUME NEW k \in Node \ {Root}, Parent[k] \in S
      PROVE  k \in S
  <2>1. \A a \in Above[Parent[k]] : a \in Node /\ Above[a] \subseteq Above[Parent[k]]
    BY <1>1, <1>3
  <2>2. Fine(k)
    BY <2>1, AboveStep
  <2> QED
    BY <1>1, <2>2
<1>4. n \in S
  BY <1>2, <1>3, FromTheRoot
<1> QED
  BY <1>1, <1>4

\* No path is above itself.
LEMMA NoLoop == ASSUME NEW n \in Node PROVE n \notin Above[n]
<1>1. PICK S : S = {k \in Node : k \notin Above[k]}
  OBVIOUS
<1>2. Root \in S
  BY <1>1, PathAssumption, TreeAssumption
<1>3. ASSUME NEW k \in Node \ {Root}, Parent[k] \in S
      PROVE  k \in S
  <2> SUFFICES ASSUME k \in Above[k] PROVE FALSE
    BY <1>1
  <2>1. Above[k] = {Parent[k]} \cup Above[Parent[k]] /\ Parent[k] \in Node
    BY AboveStep
  <2>2. Parent[k] \notin Above[Parent[k]]
    BY <1>1, <1>3
  <2>3. k # Parent[k]
    BY <2>2
  <2>4. k \in Above[Parent[k]]
    BY <2>1, <2>3
  <2>5. Above[k] \subseteq Above[Parent[k]]
    BY <2>1, <2>4, AboveTransitive
  <2> QED
    BY <2>1, <2>2, <2>5
<1>4. n \in S
  BY <1>2, <1>3, FromTheRoot
<1> QED
  BY <1>1, <1>4

LEMMA PathStep ==
    ASSUME NEW n \in Node \ {Root}
    PROVE  /\ PathTo(n) = {n} \cup (IF Parent[n] = Root THEN {} ELSE PathTo(Parent[n]))
           /\ PathTo(n) \subseteq Node \ {Root}
           /\ \A m \in PathTo(n) : PathTo(m) \subseteq PathTo(n)
<1>1. /\ Above[n] = {Parent[n]} \cup Above[Parent[n]] /\ Parent[n] \in Node
      /\ Above[Root] = {}
  BY AboveStep, PathAssumption
<1>2. \A m \in Above[n] : m \in Node /\ Above[m] \subseteq Above[n]
  BY AboveTransitive
<1>3. PathTo(n) = {n} \cup (IF Parent[n] = Root THEN {} ELSE PathTo(Parent[n]))
  <2>1. CASE Parent[n] = Root
    BY <1>1, <2>1 DEF PathTo
  <2>2. CASE Parent[n] # Root
    BY <1>1, <1>2, <2>2 DEF PathTo
  <2> QED
    BY <2>1, <2>2
<1> QED
  BY <1>2, <1>3 DEF PathTo

-----------------------------------------------------------------------------
(* What is visible.                                                         *)

\* Nothing is present in a directory that is not.
Rooted == Root \in present /\ \A n \in present \ {Root} : Parent[n] \in present

\* The walk enters the root and the directories it lists.
Entered(d) == d = Root \/ d \in Visible
Plain(c) == c \notin Vendored /\ ~Worktree(c)

LEMMA PathPresent ==
    ASSUME present \subseteq Node, Rooted, NEW n \in present \ {Root}
    PROVE  PathTo(n) \subseteq present
<1>1. PICK S : S = {k \in Node : k = Root \/ (k \in present => PathTo(k) \subseteq present)}
  OBVIOUS
<1>2. Root \in S
  BY <1>1, TreeAssumption
<1>3. ASSUME NEW k \in Node \ {Root}, Parent[k] \in S
      PROVE  k \in S
  <2> SUFFICES ASSUME k \in present PROVE PathTo(k) \subseteq present
    BY <1>1
  <2>1. Parent[k] \in present
    BY DEF Rooted
  <2>2. Parent[k] = Root \/ PathTo(Parent[k]) \subseteq present
    BY <1>1, <1>3, <2>1
  <2> QED
    BY <2>2, PathStep
<1>4. n \in S
  BY <1>2, <1>3, FromTheRoot
<1> QED
  BY <1>1, <1>4

\* A path is visible when it is plain and its directory is entered.
LEMMA VisibleStep ==
    ASSUME present \subseteq Node, Rooted, NEW n \in Node \ {Root}
    PROVE  n \in Visible <=> n \in present /\ Plain(n) /\ Entered(Parent[n])
<1>1. n \in Visible <=> n \in present /\ \A m \in PathTo(n) : Plain(m)
  BY DEF Visible, Plain
<1>2. Parent[n] \in Visible <=>
          Parent[n] \in present \ {Root} /\ \A m \in PathTo(Parent[n]) : Plain(m)
  BY DEF Visible, Plain
<1>3. n \in present => Parent[n] \in present
  BY DEF Rooted
<1>4. PathTo(n) = {n} \cup (IF Parent[n] = Root THEN {} ELSE PathTo(Parent[n]))
  BY PathStep
<1>5. CASE Parent[n] = Root
  BY <1>1, <1>4, <1>5 DEF Entered
<1>6. CASE Parent[n] # Root
  BY <1>1, <1>2, <1>3, <1>4, <1>6 DEF Entered
<1> QED
  BY <1>5, <1>6

\* Only a directory is a worktree.
LEMMA WorktreeIsDir ==
    ASSUME present \subseteq Node, NEW c, Worktree(c)
    PROVE  c \in Dir \ {Root}
BY TreeAssumption DEF Worktree, Children

-----------------------------------------------------------------------------
(* A finished walk nobody interfered with.                                  *)

\* A listing of a directory the walk entered holds its plain entries, and any
\* other is empty.
Entries(d) == {c \in Children(d) : Plain(c)}
Faithful(d, l) ==
    /\ IF Entered(d) THEN l.read /\ l.entries = Entries(d) ELSE l.entries = {}
    /\ l.pruned => d \in present /\ Worktree(d)
Settle == \A p \in Proc : st[p] = "done" /\ ~foreign[p] => \A d \in Dir : Faithful(d, fresh[p][d])

LEMMA SettledIsTrue ==
    ASSUME Typed, Rooted, Settle
    PROVE  WalkIsTrue
<1> SUFFICES ASSUME NEW p \in Proc, st[p] = "done", ~foreign[p]
             PROVE  Listed(p) = Visible
  BY DEF WalkIsTrue
<1> USE DEF Typed
<1>1. \A d \in Dir : Faithful(d, fresh[p][d])
  BY DEF Settle
<1>2. \A n \in Node \ {Root} : n \in fresh[p][Parent[n]].entries <=> n \in Visible
  <2> TAKE n \in Node \ {Root}
  <2>1. Parent[n] \in Dir
    BY TreeAssumption
  <2>2. n \in Children(Parent[n]) <=> n \in present
    BY DEF Children
  <2>3. CASE Entered(Parent[n])
    BY <1>1, <2>1, <2>2, <2>3, VisibleStep DEF Faithful, Entries
  <2>4. CASE ~Entered(Parent[n])
    BY <1>1, <2>1, <2>4, VisibleStep DEF Faithful
  <2> QED
    BY <2>3, <2>4
<1>3. Listed(p) \subseteq Visible
  BY <1>2, PathStep DEF Listed
<1>4. ASSUME NEW n \in Visible
      PROVE  n \in Listed(p)
  <2>1. n \in present \ {Root} /\ n \in Node \ {Root}
    BY DEF Visible
  <2>2. ASSUME NEW m \in PathTo(n)
        PROVE  m \in fresh[p][Parent[m]].entries
    <3>1. m \in Node \ {Root} /\ m \in present /\ PathTo(m) \subseteq PathTo(n)
      BY <2>1, PathStep, PathPresent
    <3>2. m \in Visible
      BY <1>4, <3>1 DEF Visible
    <3> QED
      BY <1>2, <3>1, <3>2
  <2> QED
    BY <2>1, <2>2 DEF Listed
<1> QED
  BY <1>3, <1>4

-----------------------------------------------------------------------------
(* The invariant of a walk nobody interferes with.                          *)

\* What has been read is exact, what it lists is read or will be, and nothing
\* else is.
StandsAt(p) ==
    /\ Pending(p, Root) \/ fresh[p][Root].read
    /\ \A d \in Dir :
        /\ ~fresh[p][d].read => fresh[p][d].entries = {} /\ ~fresh[p][d].pruned
        /\ fresh[p][d].read => d \in present /\ Exact(d, fresh[p][d])
    /\ \A d \in Dir \ {Root} :
        Pending(p, d) \/ fresh[p][d].read <=> d \in fresh[p][Parent[d]].entries
Stands == \A p \in Proc : st[p] = "walking" /\ ~foreign[p] => StandsAt(p)

WInv == IInv /\ foreign \in [Proc -> BOOLEAN] /\ Rooted /\ Stands /\ Settle

\* A change by somebody else ends what is said of a process's listings.
LEMMA InitWInv == Init => WInv
<1> SUFFICES ASSUME Init PROVE WInv
  OBVIOUS
<1>1. IInv
  BY InitIInv
<1>2. Rooted /\ foreign \in [Proc -> BOOLEAN]
  BY DEF Init, Rooted
<1>3. Stands /\ Settle
  BY DEF Init, Stands, Settle
<1> QED
  BY <1>1, <1>2, <1>3 DEF WInv

LEMMA FsRooted ==
    ASSUME Typed, Rooted, NEW n \in Node \ {Root}, FsStep(n)
    PROVE  Rooted'
<1>1. CASE Make(n)
  BY <1>1 DEF Make, Rooted
<1>2. CASE Unmake(n)
  <2>1. Root \notin Subtree(n)
    BY PathAssumption DEF Subtree
  <2>2. ASSUME NEW k \in present' \ {Root}
        PROVE  Parent[k] \in present'
    <3>1. k \in present \ {Root} /\ k \notin Subtree(n) /\ k \in Node \ {Root}
      BY <1>2, <2>2 DEF Unmake, Typed
    <3>2. Parent[k] \notin Subtree(n)
      BY <3>1, AboveStep DEF Subtree
    <3> QED
      BY <1>2, <3>1, <3>2 DEF Unmake, Rooted
  <2> QED
    BY <1>2, <2>1, <2>2 DEF Unmake, Rooted
<1> QED
  BY <1>1, <1>2 DEF FsStep

\* What holds of the tree holds as long as it stays the same.
LEMMA TreeFrame ==
    ASSUME UNCHANGED present, NEW d, NEW l
    PROVE  /\ Rooted' <=> Rooted
           /\ Exact(d, l)' <=> Exact(d, l)
           /\ Faithful(d, l)' <=> Faithful(d, l)
<1>1. \A c : Children(c)' = Children(c)
  BY DEF Children
<1>2. \A c : (Worktree(c)' <=> Worktree(c)) /\ (Plain(c)' <=> Plain(c))
  BY <1>1 DEF Worktree, Plain
<1>3. Exact(d, l)' <=> Exact(d, l)
  BY <1>1, <1>2 DEF Exact, Same
<1>4. Visible' = Visible
  BY <1>2 DEF Visible
<1>5. Entries(d)' = Entries(d) /\ (Entered(d)' <=> Entered(d))
  BY <1>1, <1>2, <1>4 DEF Entries, Entered
<1> QED
  BY <1>2, <1>3, <1>5 DEF Faithful, Rooted

LEMMA StandsFrame ==
    ASSUME UNCHANGED present, NEW p \in Proc, StandsAt(p), fresh'[p] = fresh[p],
           todo'[p] = todo[p], open'[p] = open[p]
    PROVE  StandsAt(p)'
<1>1. \A d \in Dir : Pending(p, d)' <=> Pending(p, d)
  BY DEF Pending, Opened
<1>2. Pending(p, Root)' <=> Pending(p, Root)
  BY <1>1, TreeAssumption
<1>3. \A d \in Dir \ {Root} : Parent[d] \in Dir
  BY TreeAssumption
<1> QED
  BY <1>1, <1>2, <1>3, TreeFrame DEF StandsAt

\* A step of one walk, that leaves the tree alone.
LEMMA WalkWInv ==
    ASSUME WInv, IInv', NEW p \in Proc, UNCHANGED present,
           foreign' \in [Proc -> BOOLEAN],
           \A q \in Proc \ {p} :
               /\ st'[q] = st[q] /\ fresh'[q] = fresh[q] /\ foreign'[q] = foreign[q]
               /\ todo'[q] = todo[q] /\ open'[q] = open[q],
           st'[p] = "walking" /\ ~foreign'[p] => StandsAt(p)',
           st'[p] = "done" /\ ~foreign'[p] => \A d \in Dir : Faithful(d, fresh[p][d])'
    PROVE  WInv'
<1>1. Rooted'
  BY TreeFrame DEF WInv
<1>2. Stands'
  BY StandsFrame DEF WInv, Stands
<1>3. Settle'
  <2> SUFFICES ASSUME NEW q \in Proc, st'[q] = "done", ~foreign'[q], NEW d \in Dir
               PROVE  Faithful(d, fresh[q][d])'
    BY DEF Settle
  <2>1. CASE q = p
    BY <2>1
  <2>2. CASE q # p
    <3>1. Faithful(d, fresh[q][d])
      BY <2>2 DEF WInv, Settle
    <3>2. PICK l : l = fresh[q][d]
      OBVIOUS
    <3>3. Faithful(d, l)'
      BY <3>1, <3>2, TreeFrame
    <3>4. fresh'[q][d] = l
      BY <2>2, <3>2
    <3> QED
      BY <3>3, <3>4
  <2> QED
    BY <2>1, <2>2
<1> QED
  BY <1>1, <1>2, <1>3 DEF WInv

\* What is pending in a walk nobody interferes with is there.
LEMMA PendingPresent ==
    ASSUME Typed, Rooted, NEW p \in Proc, StandsAt(p), NEW d \in Dir, Pending(p, d)
    PROVE  d \in present
<1>1. CASE d = Root
  BY <1>1 DEF Rooted
<1>2. CASE d # Root
  <2>1. Parent[d] \in Dir /\ d \in fresh[p][Parent[d]].entries
    BY <1>2, TreeAssumption DEF StandsAt
  <2>2. Exact(Parent[d], fresh[p][Parent[d]])
    BY <2>1 DEF StandsAt
  <2> QED
    BY <2>1, <2>2 DEF Exact, Same, Children
<1> QED
  BY <1>1, <1>2

\* Recording an exact listing and queueing the directories it lists.
LEMMA RecordStands ==
    ASSUME WInv, NEW p \in Proc, StandsAt(p), NEW d \in Dir, Pending(p, d), d \in present,
           NEW l \in Listing, Exact(d, l), l.read,
           UNCHANGED present,
           fresh' = [fresh EXCEPT ![p][d] = l],
           todo'[p] = (todo[p] \ {d}) \cup (l.entries \cap Dir),
           open'[p] = {e \in open[p] : e[1] # d}
    PROVE  StandsAt(p)'
<1>1. fresh[p] \in [Dir -> Listing] /\ ~fresh[p][d].read
  BY DEF WInv, IInv, Typed, Once
<1>2. fresh'[p][d] = l /\ \A c \in Dir \ {d} : fresh'[p][c] = fresh[p][c]
  BY <1>1 DEF WInv, IInv, Typed
<1>3. l.entries \subseteq Children(d)
  BY DEF Exact, Same
<1>4. \A c \in l.entries : c \in Node \ {Root} /\ Parent[c] = d /\ c # d
  <2> TAKE c \in l.entries
  <2>1. c \in Node \ {Root} /\ Parent[c] = d
    BY <1>3 DEF Children, WInv, IInv, Typed
  <2>2. c # d
    BY <2>1, AboveStep, NoLoop
  <2> QED
    BY <2>1, <2>2
<1>5. \A c \in Dir : Pending(p, c)' <=> (Pending(p, c) /\ c # d) \/ c \in l.entries
  BY <1>4 DEF Pending, Opened
<1>6. Pending(p, Root)' \/ fresh'[p][Root].read
  BY <1>2, <1>5, TreeAssumption DEF StandsAt
<1>7. ASSUME NEW c \in Dir
      PROVE  /\ ~fresh'[p][c].read => fresh'[p][c].entries = {} /\ ~fresh'[p][c].pruned
             /\ fresh'[p][c].read => c \in present' /\ Exact(c, fresh[p][c])'
  <2>1. CASE c = d
    <3>1. Exact(d, l)'
      BY TreeFrame
    <3> QED
      BY <2>1, <1>2, <3>1
  <2>2. CASE c # d
    <3>1. PICK k : k = fresh[p][c]
      OBVIOUS
    <3>2. k.read => Exact(c, k)'
      BY <3>1, TreeFrame DEF StandsAt
    <3>3. fresh'[p][c] = k
      BY <1>2, <2>2, <3>1
    <3>4. fresh'[p][c].read => Exact(c, fresh[p][c])'
      BY <3>2, <3>3
    <3> QED
      BY <3>1, <3>3, <3>4 DEF StandsAt
  <2> QED
    BY <2>1, <2>2
<1>8. ASSUME NEW c \in Dir \ {Root}
      PROVE  Pending(p, c)' \/ fresh'[p][c].read <=> c \in fresh'[p][Parent[c]].entries
  <2>1. c \in Node /\ Parent[c] \in Dir
    BY TreeAssumption
  <2>2. Pending(p, c) \/ fresh[p][c].read <=> c \in fresh[p][Parent[c]].entries
    BY DEF StandsAt
  <2>3. ~fresh[p][d].read => fresh[p][d].entries = {}
    BY DEF StandsAt
  <2>4. CASE Parent[c] = d
    <3>1. c # d
      BY <2>1, <2>4, AboveStep, NoLoop
    <3>2. ~Pending(p, c) /\ ~fresh[p][c].read
      BY <1>1, <2>2, <2>3, <2>4
    <3> QED
      BY <1>2, <1>5, <2>4, <3>1, <3>2
  <2>5. CASE Parent[c] # d
    <3>1. c \notin l.entries
      BY <1>4, <2>5
    <3>2. CASE c = d
      BY <1>2, <2>1, <2>2, <2>5, <3>2
    <3>3. CASE c # d
      BY <1>2, <1>5, <2>1, <2>2, <2>5, <3>1, <3>3
    <3> QED
      BY <3>2, <3>3
  <2> QED
    BY <2>4, <2>5
<1> QED
  BY <1>6, <1>7, <1>8 DEF StandsAt

\* What every step of a walk but its end does to the other walks.
LEMMA OnlyMine ==
    ASSUME WInv, NEW p \in Proc, NEW f, NEW t, NEW o,
           fresh' = [fresh EXCEPT ![p] = f], todo' = [todo EXCEPT ![p] = t],
           open' = [open EXCEPT ![p] = o]
    PROVE  /\ fresh'[p] = f /\ todo'[p] = t /\ open'[p] = o
           /\ \A q \in Proc \ {p} : fresh'[q] = fresh[q] /\ todo'[q] = todo[q] /\ open'[q] = open[q]
BY DEF WInv, IInv, Typed

LEMMA StatGoneWInv ==
    ASSUME WInv, NEW p \in Proc, NEW d \in Dir, StatGone(p, d) PROVE WInv'
<1>1. IInv'
  BY StatGoneIInv DEF WInv
<1>2. Pending(p, d) /\ d \notin present /\ st[p] = "walking"
  BY DEF StatGone, Pending, WInv, IInv, Once
<1>3. foreign[p]
  BY <1>2, PendingPresent DEF WInv, IInv, Stands
<1>4. \A q \in Proc \ {p} : todo'[q] = todo[q]
  BY DEF StatGone, WInv, IInv, Typed
<1>5. UNCHANGED << present, st, fresh, open, foreign >>
  BY DEF StatGone, fs
<1>6. foreign' \in [Proc -> BOOLEAN]
  BY <1>5 DEF WInv
<1> QED
  BY <1>1, <1>2, <1>3, <1>4, <1>5, <1>6, WalkWInv

LEMMA ReadGoneWInv ==
    ASSUME WInv, NEW p \in Proc, NEW d \in Dir, ReadGone(p, d) PROVE WInv'
<1>1. IInv'
  BY ReadGoneIInv DEF WInv
<1>2. Pending(p, d) /\ d \notin present /\ st[p] = "walking"
  BY DEF ReadGone, Pending, Opened, WInv, IInv, Once
<1>3. foreign[p]
  BY <1>2, PendingPresent DEF WInv, IInv, Stands
<1>4. \A q \in Proc \ {p} : open'[q] = open[q]
  BY DEF ReadGone, WInv, IInv, Typed
<1>5. UNCHANGED << present, st, fresh, todo, foreign >>
  BY DEF ReadGone, fs
<1>6. foreign' \in [Proc -> BOOLEAN]
  BY <1>5 DEF WInv
<1> QED
  BY <1>1, <1>2, <1>3, <1>4, <1>5, <1>6, WalkWInv

LEMMA StatWInv ==
    ASSUME WInv, NEW p \in Proc, NEW d \in Dir, Stat(p, d) PROVE WInv'
<1>1. IInv'
  BY StatIInv DEF WInv
<1>2. /\ todo'[p] = todo[p] \ {d} /\ open'[p] = open[p] \cup {<< d, mtime[d] >>}
      /\ \A q \in Proc \ {p} : todo'[q] = todo[q] /\ open'[q] = open[q]
      /\ d \in todo[p]
  BY DEF Stat, WInv, IInv, Typed
<1>3. \A c \in Dir : Pending(p, c)' <=> Pending(p, c)
  <2> TAKE c \in Dir
  <2>1. PICK e : e = << d, mtime[d] >>
    OBVIOUS
  <2>2. e[1] = d /\ open'[p] = open[p] \cup {e}
    BY <1>2, <2>1
  <2> QED
    BY <1>2, <2>2 DEF Pending, Opened
<1>4. UNCHANGED << present, st, fresh, foreign >>
  BY DEF Stat, fs
<1>5. ASSUME StandsAt(p)
      PROVE  StandsAt(p)'
  <2>1. \A c \in Dir \ {Root} : Parent[c] \in Dir
    BY TreeAssumption
  <2>2. Pending(p, Root)' <=> Pending(p, Root)
    BY <1>3, TreeAssumption
  <2> QED
    BY <1>3, <1>4, <1>5, <2>1, <2>2, TreeFrame DEF StandsAt
<1>6. foreign' \in [Proc -> BOOLEAN] /\ st[p] = "walking"
  BY <1>2, <1>4 DEF WInv, IInv, Once, Pending
<1>7. ~foreign[p] => StandsAt(p)
  BY <1>6 DEF WInv, Stands
<1> QED
  BY <1>1, <1>2, <1>4, <1>5, <1>6, <1>7, WalkWInv

LEMMA StatCachedWInv ==
    ASSUME WInv, NEW p \in Proc, NEW d \in Dir, StatCached(p, d) PROVE WInv'
<1>1. IInv'
  BY StatCachedIInv DEF WInv
<1>2. PICK l \in Listing : l = old[p][d]
  BY DEF WInv, IInv, Typed
<1>3. Exact(d, l) /\ l.read /\ d \in present
  BY <1>2 DEF StatCached, Cached, Matches, WInv, IInv, OldGood, Good
<1>4. Pending(p, d) /\ ~Opened(p, d) /\ st[p] = "walking"
  BY DEF StatCached, Pending, WInv, IInv, Once
<1>5. /\ fresh' = [fresh EXCEPT ![p][d] = l]
      /\ UNCHANGED << present, st, open, foreign >>
  BY <1>2 DEF StatCached, fs
<1>6. /\ todo'[p] = (todo[p] \ {d}) \cup (l.entries \cap Dir)
      /\ \A q \in Proc \ {p} : todo'[q] = todo[q] /\ fresh'[q] = fresh[q]
  BY <1>2, <1>5 DEF StatCached, Subdirs, WInv, IInv, Typed
<1>7. open'[p] = {e \in open[p] : e[1] # d}
  BY <1>4, <1>5 DEF Opened
<1>8. StandsAt(p) => StandsAt(p)'
  BY <1>3, <1>4, <1>5, <1>6, <1>7, RecordStands
<1>9. foreign' \in [Proc -> BOOLEAN] /\ (~foreign[p] => StandsAt(p))
  BY <1>4, <1>5 DEF WInv, Stands
<1> QED
  BY <1>1, <1>4, <1>5, <1>6, <1>8, <1>9, WalkWInv

LEMMA ReadWInv ==
    ASSUME WInv, NEW p \in Proc, NEW d \in Dir, Read(p, d) PROVE WInv'
<1>1. IInv'
  BY ReadIInv DEF WInv
<1>2. PICK e \in open[p] : Read(p, d)!(e)
  BY DEF Read
<1>3. PICK m \in Nat : e = << d, m >>
  BY <1>2 DEF WInv, IInv, Typed
<1>4. PICK kept : kept = IF Worktree(d) THEN {} ELSE Children(d) \ Vendored
  OBVIOUS
<1>5. PICK l : l = [mtime |-> Settled(p, m), entries |-> kept, pruned |-> Worktree(d), read |-> TRUE]
  OBVIOUS
<1>6. /\ d \in present /\ open' = [open EXCEPT ![p] = {f \in @ : f[1] # d}]
      /\ fresh' = [fresh EXCEPT ![p][d] = l]
      /\ todo' = [todo EXCEPT ![p] = @ \cup Subdirs(kept)]
      /\ UNCHANGED << present, st, foreign >>
  BY <1>2, <1>3, <1>4, <1>5 DEF fs
<1>7. Worktree(d) \in BOOLEAN /\ kept \subseteq Children(d) \ Vendored /\ kept \subseteq Node
  BY <1>4 DEF Worktree, Children, WInv, IInv, Typed
<1>8. Settled(p, m) \in Int
  BY <1>3, ClockAssumption DEF Settled, WInv, IInv, Typed
<1>9. l \in Listing /\ l.read /\ l.entries = kept /\ (l.pruned <=> Worktree(d))
  BY <1>5, <1>7, <1>8 DEF Listing
<1>10. Exact(d, l)
  BY <1>4, <1>7, <1>9 DEF Exact, Same
<1>11. Pending(p, d) /\ d \notin todo[p] /\ st[p] = "walking"
  BY <1>2, <1>3 DEF Pending, Opened, WInv, IInv, Once
<1>12. /\ todo'[p] = (todo[p] \ {d}) \cup (l.entries \cap Dir)
       /\ open'[p] = {f \in open[p] : f[1] # d}
       /\ \A q \in Proc \ {p} : todo'[q] = todo[q] /\ open'[q] = open[q] /\ fresh'[q] = fresh[q]
  BY <1>6, <1>9, <1>11 DEF Subdirs, WInv, IInv, Typed
<1>13. StandsAt(p) => StandsAt(p)'
  BY <1>6, <1>9, <1>10, <1>11, <1>12, RecordStands
<1>14. foreign' \in [Proc -> BOOLEAN] /\ (~foreign[p] => StandsAt(p))
  BY <1>6, <1>11 DEF WInv, Stands
<1> QED
  BY <1>1, <1>6, <1>11, <1>12, <1>13, <1>14, WalkWInv

LEMMA StartWInv == ASSUME WInv, NEW p \in Proc, Start(p) PROVE WInv'
<1>1. IInv'
  BY StartIInv DEF WInv
<1>2. /\ fresh' = [fresh EXCEPT ![p] = Nothing] /\ st' = [st EXCEPT ![p] = "walking"]
      /\ todo' = [todo EXCEPT ![p] = {Root}] /\ open' = [open EXCEPT ![p] = {}]
      /\ UNCHANGED << present, foreign >>
  BY DEF Start, fs
<1>3. /\ fresh'[p] = Nothing /\ todo'[p] = {Root} /\ open'[p] = {} /\ st'[p] = "walking"
      /\ \A q \in Proc \ {p} : /\ fresh'[q] = fresh[q] /\ st'[q] = st[q]
                               /\ todo'[q] = todo[q] /\ open'[q] = open[q]
  BY <1>2 DEF WInv, IInv, Typed
<1>4. \A d \in Dir : /\ fresh'[p][d].entries = {} /\ ~fresh'[p][d].pruned /\ ~fresh'[p][d].read
                     /\ Pending(p, d)' <=> d = Root
  BY <1>3 DEF Nothing, Unread, Pending, Opened
<1>5. StandsAt(p)'
  <2>1. Pending(p, Root)'
    BY <1>4, TreeAssumption
  <2>2. \A d \in Dir \ {Root} : Parent[d] \in Dir
    BY TreeAssumption
  <2> QED
    BY <1>4, <2>1, <2>2 DEF StandsAt
<1>6. foreign' \in [Proc -> BOOLEAN]
  BY <1>2 DEF WInv
<1> QED
  BY <1>1, <1>2, <1>3, <1>5, <1>6, WalkWInv

LEMMA ExitWInv == ASSUME WInv, NEW p \in Proc, Exit(p) PROVE WInv'
<1>1. IInv'
  BY ExitIInv DEF WInv
<1>2. /\ st'[p] = "idle" /\ UNCHANGED present /\ foreign' \in [Proc -> BOOLEAN]
      /\ \A q \in Proc \ {p} :
             /\ fresh'[q] = fresh[q] /\ st'[q] = st[q] /\ foreign'[q] = foreign[q]
             /\ todo'[q] = todo[q] /\ open'[q] = open[q]
  BY DEF Exit, fs, WInv, IInv, Typed
<1> QED
  BY <1>1, <1>2, WalkWInv

\* When nothing is pending any more the listings, less the worktrees unlist
\* drops, are what they should be.
LEMMA EndSettles ==
    ASSUME IInv, Rooted, NEW p \in Proc, st[p] = "walking", StandsAt(p), todo[p] = {}, open[p] = {}, NEW d \in Dir
    PROVE  Faithful(d, Unlisted(fresh[p])[d])
<1> DEFINE F == fresh[p]
<1>1. F \in [Dir -> Listing] /\ \A c \in Dir : ~Pending(p, c)
  BY DEF IInv, Typed, Pending, Opened
<1>2. F[Root].read
  BY <1>1, TreeAssumption DEF StandsAt
<1>3. /\ \A c \in Dir : F[c].read => c \in present /\ Exact(c, F[c])
      /\ \A c \in Dir : ~F[c].read => F[c].entries = {} /\ ~F[c].pruned
      /\ \A c \in Dir \ {Root} : F[c].read <=> c \in F[Parent[c]].entries
  BY <1>1 DEF StandsAt
<1>4. \A c \in Dir : c \in present => (F[c].read => (F[c].pruned <=> Worktree(c)))
  BY <1>3 DEF Exact, Same
<1>5. \A c \in Dir : F[c].pruned => F[c].read /\ F[c].entries = {}
  BY DEF IInv, FreshGood, Good
<1>6. ASSUME NEW c \in Dir \ {Root}, Entered(Parent[c]) <=> F[Parent[c]].read /\ ~Worktree(Parent[c])
      PROVE  Entered(c) <=> F[c].read /\ ~Worktree(c)
  <2>1. c \in Node \ {Root} /\ Parent[c] \in Dir
    BY TreeAssumption
  <2>2. Entered(c) <=> c \in present /\ Plain(c) /\ Entered(Parent[c])
    BY <2>1, VisibleStep DEF Entered, IInv, Typed
  <2>3. F[c].read <=> c \in F[Parent[c]].entries
    BY <1>3
  <2>4. c \in present => c \in Children(Parent[c])
    BY <2>1 DEF Children
  <2>5. F[Parent[c]].read => Exact(Parent[c], F[Parent[c]])
    BY <1>3, <2>1
  <2>6. ~F[Parent[c]].read => F[Parent[c]].entries = {}
    BY <1>3, <2>1
  <2>7. ASSUME Entered(c)
        PROVE  F[c].read /\ ~Worktree(c)
    BY <1>6, <2>2, <2>3, <2>4, <2>5, <2>7 DEF Plain, Exact, Same
  <2>8. ASSUME F[c].read, ~Worktree(c)
        PROVE  Entered(c)
    <3>1. F[Parent[c]].read /\ Exact(Parent[c], F[Parent[c]]) /\ c \in F[Parent[c]].entries
      BY <2>3, <2>5, <2>6, <2>8
    <3>2. c \in present /\ c \notin Vendored
      BY <3>1 DEF Exact, Same, Children
    <3>3. ~Worktree(Parent[c])
      BY <1>5, <2>1, <3>1 DEF Exact
    <3> QED
      BY <1>6, <2>2, <2>8, <3>1, <3>2, <3>3 DEF Plain
  <2> QED
    BY <2>7, <2>8
<1>7. Entered(d) <=> F[d].read /\ ~Worktree(d)
  <2> DEFINE R(c) == Entered(c) <=> F[c].read /\ ~Worktree(c)
  <2>1. PICK S : S = {c \in Node : c \in Dir => R(c)}
    OBVIOUS
  <2>2. Root \in S
    BY <1>2, <2>1, TreeAssumption DEF Entered, Worktree
  <2>3. ASSUME NEW c \in Node \ {Root}, Parent[c] \in S
        PROVE  c \in S
    <3>1. Parent[c] \in Dir /\ R(Parent[c])
      BY <2>1, <2>3, TreeAssumption
    <3>2. c \in Dir => R(c)
      BY <1>6, <3>1
    <3> HIDE DEF R
    <3> QED
      BY <2>1, <3>2
  <2>4. d \in S
    BY <2>2, <2>3, FromTheRoot, TreeAssumption
  <2> HIDE DEF R
  <2>5. R(d)
    BY <2>1, <2>4
  <2> QED
    BY <2>5 DEF R
<1>8. PICK u : u = Unlisted(F)[d]
  OBVIOUS
<1>9. /\ u.read = F[d].read /\ u.pruned = F[d].pruned
      /\ u.entries = {n \in F[d].entries : ~(n \in Dir /\ F[n].pruned)}
  BY <1>1, <1>8, UnlistedIs
<1>10. u.pruned => d \in present /\ Worktree(d)
  BY <1>3, <1>5, <1>9 DEF Exact, Same
<1>11. ASSUME ~Entered(d)
       PROVE  u.entries = {}
  <2>1. F[d].entries = {}
    BY <1>3, <1>5, <1>7, <1>11 DEF Exact
  <2> QED
    BY <1>9, <2>1
<1>12. ASSUME Entered(d)
       PROVE  u.read /\ u.entries = Entries(d)
  <2>1. F[d].read /\ ~Worktree(d) /\ Exact(d, F[d])
    BY <1>3, <1>7, <1>12
  <2>2. \A n \in Children(d) : n \in Node \ {Root} /\ Parent[n] = d
    BY DEF Children, IInv, Typed
  <2>3. ASSUME NEW n \in F[d].entries
        PROVE  n \in Children(d) \ Vendored /\ (Worktree(n) <=> n \in Dir /\ F[n].pruned)
    <3>1. n \in Children(d) \ Vendored
      BY <2>1, <2>3 DEF Exact, Same
    <3>2. n \in Node \ {Root} /\ Parent[n] = d
      BY <2>2, <3>1
    <3>3. n \in Dir => F[n].read /\ n \in present
      BY <1>3, <2>3, <3>2
    <3>4. n \in Dir => (F[n].pruned <=> Worktree(n))
      BY <1>4, <3>3
    <3>5. Worktree(n) => n \in Dir
      BY WorktreeIsDir DEF IInv, Typed
    <3> QED
      BY <3>1, <3>4, <3>5
  <2>4. \A n \in Children(d) : Plain(n) => n \in F[d].entries
    BY <2>1 DEF Exact, Same, Plain
  <2>5. u.entries = Entries(d)
    BY <1>9, <2>3, <2>4 DEF Entries, Plain
  <2> QED
    BY <1>9, <2>1, <2>5
<1> QED
  BY <1>8, <1>10, <1>11, <1>12 DEF Faithful

LEMMA FinishWInv == ASSUME WInv, NEW p \in Proc, Finish(p) PROVE WInv'
<1>1. IInv'
  BY FinishIInv DEF WInv
<1>2. /\ fresh' = [fresh EXCEPT ![p] = Unlisted(fresh[p])] /\ st' = [st EXCEPT ![p] = "done"]
      /\ st[p] = "walking" /\ todo[p] = {} /\ open[p] = {}
      /\ UNCHANGED << present, todo, open, foreign >>
  BY DEF Finish, fs, WInv, IInv, Typed
<1>3. /\ fresh'[p] = Unlisted(fresh[p]) /\ st'[p] = "done"
      /\ \A q \in Proc \ {p} : fresh'[q] = fresh[q] /\ st'[q] = st[q]
  BY <1>2 DEF WInv, IInv, Typed
<1>4. ASSUME ~foreign[p], NEW d \in Dir
      PROVE  Faithful(d, fresh[p][d])'
  <2>1. StandsAt(p)
    BY <1>2, <1>4 DEF WInv, Stands
  <2>2. PICK l : l = Unlisted(fresh[p])[d]
    OBVIOUS
  <2>3. Faithful(d, l)
    BY <1>2, <2>1, <2>2, EndSettles DEF WInv
  <2>4. Faithful(d, l)'
    BY <1>2, <2>3, TreeFrame
  <2>5. fresh'[p][d] = l
    BY <1>3, <2>2
  <2> QED
    BY <2>4, <2>5
<1>5. foreign' \in [Proc -> BOOLEAN]
  BY <1>2 DEF WInv
<1> QED
  BY <1>1, <1>2, <1>3, <1>4, <1>5, WalkWInv

-----------------------------------------------------------------------------
(* What a process notes of its own changes.                                 *)

LEMMA PathParent ==
    ASSUME NEW n \in Node \ {Root}, NEW m \in PathTo(n)
    PROVE  /\ m \in Node \ {Root} /\ m \in PathTo(m) /\ PathTo(m) \subseteq PathTo(n)
           /\ Parent[m] = Root \/ Parent[m] \in PathTo(n)
           /\ m # n => Parent[n] # Root /\ m \in PathTo(Parent[n])
<1>1. m \in Node \ {Root} /\ PathTo(m) \subseteq PathTo(n)
  BY PathStep
<1>2. PathTo(m) = {m} \cup (IF Parent[m] = Root THEN {} ELSE PathTo(Parent[m]))
  BY <1>1, PathStep
<1>3. Parent[m] = Root \/ Parent[m] \in PathTo(Parent[m])
  BY <1>1, AboveStep DEF PathTo
<1>4. PathTo(n) = {n} \cup (IF Parent[n] = Root THEN {} ELSE PathTo(Parent[n]))
  BY PathStep
<1> QED
  BY <1>1, <1>2, <1>3, <1>4

\* Created: the names on the way to n are noted up to the first one the walk
\* would not list, and they are listed already but for n itself.
LEMMA CreatedIsFaithful ==
    ASSUME Typed, Rooted, NEW n \in Node \ {Root}, Make(n), n \notin Marker, ~Inside(n),
           NEW ls \in [Dir -> Listing], \A d \in Dir : Faithful(d, ls[d]), NEW d \in Dir
    PROVE  Faithful(d, Created(ls, n)[d])'
<1> USE DEF Typed
<1>1. present' = present \cup {n} /\ n \notin present /\ Parent[n] \in present
  BY DEF Make
<1>2. \A c : Children(c)' = Children(c) \cup (IF c = Parent[n] THEN {n} ELSE {})
  BY <1>1 DEF Children
<1>3. \A c : (Worktree(c)' <=> Worktree(c)) /\ (Plain(c)' <=> Plain(c))
  BY <1>2 DEF Worktree, Plain
<1>4. \A m \in PathTo(n) : Plain(m) <=> m \notin Vendored
  BY DEF Inside, Plain
<1>5. \A c \in Dir \ {n} : Entered(c)' <=> Entered(c)
  BY <1>1, <1>3 DEF Entered, Visible
<1>6. Entered(n)' <=> PathTo(n) \cap Vendored = {}
  <2>1. n \in Visible' <=> \A m \in PathTo(n) : Plain(m)
    BY <1>1, <1>3 DEF Visible, Plain
  <2>2. Entered(n)' <=> n \in Visible'
    BY DEF Entered
  <2> QED
    BY <1>4, <2>1, <2>2
<1>7. \A c \in Dir : ls[c].pruned => Worktree(c)
  BY DEF Faithful
<1>8. ls[Root].read
  BY TreeAssumption DEF Faithful, Entered
<1>9. \A m \in PathTo(n) : ~ls[Parent[m]].pruned
  <2> TAKE m \in PathTo(n)
  <2>1. m \in Node \ {Root} /\ Parent[m] \in Dir /\ (Parent[m] = Root \/ Parent[m] \in PathTo(n))
    BY PathParent, TreeAssumption
  <2>2. ~Worktree(Parent[m])
    BY <2>1 DEF Worktree, Inside
  <2> QED
    BY <1>7, <2>1, <2>2
<1>10. Reached(ls, n) = {m \in PathTo(n) : PathTo(m) \cap Vendored = {}}
  <2>1. \A m \in PathTo(n) : \A k \in PathTo(m) : k \in PathTo(n)
    BY PathParent
  <2> QED
    BY <1>8, <1>9, <2>1 DEF Reached
<1>11. \A m \in Reached(ls, n) \ {n} : m \in Visible
  <2> TAKE m \in Reached(ls, n) \ {n}
  <2>1. m \in PathTo(n) /\ m # n /\ PathTo(m) \cap Vendored = {}
    BY <1>10
  <2>2. m \in Node \ {Root} /\ PathTo(m) \subseteq PathTo(n) /\ Parent[n] # Root /\ m \in PathTo(Parent[n])
    BY <2>1, PathParent
  <2>3. m \in present
    BY <1>1, <2>2, PathPresent
  <2> QED
    BY <1>4, <2>1, <2>2, <2>3 DEF Visible, Plain
<1>12. \A m \in Reached(ls, n) \ {n} : m \in ls[Parent[m]].entries
  <2> TAKE m \in Reached(ls, n) \ {n}
  <2>1. m \in Node \ {Root} /\ Parent[m] \in Dir /\ m \in Visible
    BY <1>10, <1>11, PathParent, TreeAssumption
  <2>2. m \in present /\ Plain(m) /\ Entered(Parent[m])
    BY <2>1, VisibleStep
  <2> QED
    BY <2>1, <2>2 DEF Faithful, Entries, Children
<1>13. \A c \in Dir : n \notin ls[c].entries
  BY <1>1 DEF Faithful, Entries, Children
<1>14. n \in Reached(ls, n) <=> PathTo(n) \cap Vendored = {}
  BY <1>10, PathStep
<1> DEFINE new == {m \in Reached(ls, n) : Parent[m] = d /\ m \notin ls[d].entries}
<1>15. new = IF n \in Reached(ls, n) /\ d = Parent[n] THEN {n} ELSE {}
  BY <1>12, <1>13
<1>16. PICK l : l = Created(ls, n)[d]
  OBVIOUS
<1>17. l = IF new # {} THEN Noted(ls[d], ls[d].entries \cup new)
           ELSE IF d \in Reached(ls, n) /\ ~ls[d].read THEN Noted(Unread, {}) ELSE ls[d]
  BY <1>16 DEF Created
<1>18. Faithful(d, ls[d]) /\ ls[d] \in Listing
  OBVIOUS
<1> HIDE DEF new
<1>19. l.pruned => d \in present' /\ Worktree(d)'
  BY <1>1, <1>3, <1>17, <1>18 DEF Faithful, Noted, Unread
<1>20. CASE n \in Reached(ls, n) /\ d = Parent[n]
  <2>1. l.read /\ l.entries = ls[d].entries \cup {n}
    BY <1>15, <1>17, <1>20 DEF Noted
  <2>2. d # n
    BY <1>20, AboveStep, NoLoop
  <2>3. Entered(d)
    <3>1. CASE d = Root
      BY <3>1 DEF Entered
    <3>2. CASE d # Root
      <4>1. d \in PathTo(n) /\ PathTo(d) \subseteq PathTo(n) /\ d \in present
        BY <1>1, <1>20, <3>2, PathParent, PathStep DEF PathTo
      <4> QED
        BY <1>4, <1>14, <1>20, <3>2, <4>1 DEF Entered, Visible, Plain
    <3> QED
      BY <3>1, <3>2
  <2>4. Plain(n)
    BY <1>4, <1>14, <1>20, PathStep
  <2>5. Entries(d)' = Entries(d) \cup {n}
    BY <1>2, <1>3, <1>20, <2>4 DEF Entries
  <2>6. Entered(d)' /\ ls[d].entries = Entries(d)
    BY <1>5, <1>18, <2>2, <2>3 DEF Faithful
  <2>7. Faithful(d, l)'
    BY <1>19, <2>1, <2>5, <2>6 DEF Faithful
  <2> QED
    BY <1>16, <2>7
<1>21. CASE ~(n \in Reached(ls, n) /\ d = Parent[n]) /\ d = n
  <2>1. ~Entered(d) /\ ls[d].entries = {}
    BY <1>1, <1>18, <1>21 DEF Faithful, Entered, Visible
  <2>2. l.entries = {} /\ (d \in Reached(ls, n) => l.read)
    BY <1>15, <1>17, <1>21, <2>1 DEF Noted
  <2>3. Entries(d)' = {}
    <3>1. Parent[n] # n
      BY AboveStep, NoLoop
    <3>2. Children(n) = {}
      BY <1>1 DEF Children, Rooted
    <3> QED
      BY <1>2, <1>21, <3>1, <3>2 DEF Entries
  <2>4. Entered(d)' => d \in Reached(ls, n)
    BY <1>6, <1>14, <1>21
  <2>5. Faithful(d, l)'
    BY <1>19, <2>2, <2>3, <2>4 DEF Faithful
  <2> QED
    BY <1>16, <2>5
<1>22. CASE ~(n \in Reached(ls, n) /\ d = Parent[n]) /\ d # n
  <2>1. d \in Reached(ls, n) => ls[d].read
    BY <1>11, <1>18, <1>22 DEF Faithful, Entered
  <2>2. l = ls[d]
    BY <1>15, <1>17, <1>22, <2>1
  <2>3. Entered(d)' <=> Entered(d)
    BY <1>5, <1>22
  <2>4. Entered(d) => Entries(d)' = Entries(d)
    <3>1. CASE d # Parent[n]
      BY <1>2, <1>3, <3>1 DEF Entries
    <3>2. CASE d = Parent[n]
      <4> SUFFICES ASSUME Entered(d) PROVE Entries(d)' = Entries(d)
        OBVIOUS
      <4>1. PathTo(n) \cap Vendored # {}
        BY <1>14, <1>22, <3>2
      <4>2. PathTo(n) = {n} \cup (IF d = Root THEN {} ELSE PathTo(d))
        BY <3>2, PathStep
      <4>3. d # Root => PathTo(d) \cap Vendored = {}
        BY DEF Entered, Visible
      <4>4. ~Plain(n)
        BY <4>1, <4>2, <4>3 DEF Plain
      <4> QED
        BY <1>2, <1>3, <3>2, <4>4 DEF Entries
    <3> QED
      BY <3>1, <3>2
  <2>5. Faithful(d, l)'
    BY <1>18, <1>19, <2>2, <2>3, <2>4 DEF Faithful
  <2> QED
    BY <1>16, <2>5
<1> QED
  BY <1>20, <1>21, <1>22

\* Removed: what was below n is forgotten, and n leaves its directory.
LEMMA RemovedIsFaithful ==
    ASSUME Typed, Rooted, NEW n \in Node \ {Root}, Unmake(n), n \notin Marker,
           NEW ls \in [Dir -> Listing], \A d \in Dir : Faithful(d, ls[d]), NEW d \in Dir
    PROVE  Faithful(d, Removed(ls, n)[d])'
<1> USE DEF Typed
<1>1. present' = present \ Subtree(n) /\ Root \notin Subtree(n) /\ d \in Node
  BY PathAssumption, TreeAssumption DEF Unmake, Subtree
<1>2. PICK l : l = Removed(ls, n)[d]
  OBVIOUS
<1>3. l = IF d \in Subtree(n) THEN Unread
          ELSE IF d = Parent[n] /\ ls[d].read THEN Noted(ls[d], ls[d].entries \ {n}) ELSE ls[d]
  <2>1. Parent[n] \notin Subtree(n)
    BY AboveStep, NoLoop DEF Subtree
  <2>2. CASE d \in Subtree(n)
    BY <1>2, <2>1, <2>2 DEF Removed
  <2>3. CASE d \notin Subtree(n) /\ d = Parent[n] /\ ls[d].read
    BY <1>2, <2>3 DEF Removed
  <2>4. CASE d \notin Subtree(n) /\ ~(d = Parent[n] /\ ls[d].read)
    BY <1>2, <2>4 DEF Removed
  <2> QED
    BY <2>2, <2>3, <2>4
<1>4. CASE d \in Subtree(n)
  <2>1. ~Entered(d)'
    BY <1>1, <1>4 DEF Entered, Visible
  <2>2. Faithful(d, l)'
    BY <1>3, <1>4, <2>1 DEF Faithful, Unread
  <2> QED
    BY <1>2, <2>2
<1>5. CASE d \notin Subtree(n)
  <2>1. \A c \in Node \ Subtree(n) : \A m \in Children(c) : m \in Subtree(n) => m = n
    <3> TAKE c \in Node \ Subtree(n)
    <3> TAKE m \in Children(c)
    <3>1. m \in Node \ {Root} /\ Parent[m] = c
      BY DEF Children
    <3> QED
      BY <3>1, AboveStep DEF Subtree
  <2>2. \A c \in Node \ Subtree(n) : (Worktree(c)' <=> Worktree(c)) /\ (Plain(c)' <=> Plain(c))
    <3> TAKE c \in Node \ Subtree(n)
    <3>1. /\ Children(c)' \subseteq Children(c)
          /\ \A m \in Children(c) : m \in Marker => m \in Children(c)'
      BY <1>1, <2>1 DEF Children
    <3> QED
      BY <3>1 DEF Worktree, Plain
  <2>3. \A m \in PathTo(d) : m \in Node \ Subtree(n)
    <3> TAKE m \in PathTo(d)
    <3>1. m \in Node /\ (m = d \/ m \in Above[d])
      BY DEF PathTo
    <3>2. Above[m] \subseteq Above[d]
      BY <1>1, <3>1, AboveTransitive
    <3> QED
      BY <1>1, <1>5, <3>1, <3>2 DEF Subtree
  <2>4. Entered(d)' <=> Entered(d)
    BY <1>1, <1>5, <2>2, <2>3 DEF Entered, Visible
  <2>5. Children(d)' = Children(d) \ {n}
    <3>1. n \notin present'
      BY <1>1 DEF Subtree
    <3> QED
      BY <1>1, <1>5, <2>1, <3>1 DEF Children
  <2>6. Entries(d)' = Entries(d) \ {n}
    <3>1. \A c \in Children(d) \ {n} : c \in Node \ Subtree(n)
      BY <1>1, <1>5, <2>1 DEF Children
    <3> QED
      BY <2>2, <2>5, <3>1 DEF Entries
  <2>7. Faithful(d, ls[d]) /\ ls[d] \in Listing
    OBVIOUS
  <2>8. l.pruned => d \in present' /\ Worktree(d)'
    BY <1>1, <1>3, <1>5, <2>2, <2>7 DEF Faithful, Noted
  <2>9. CASE d = Parent[n] /\ ls[d].read
    <3>1. l.read /\ l.entries = ls[d].entries \ {n}
      BY <1>3, <1>5, <2>9 DEF Noted
    <3>2. Faithful(d, l)'
      BY <2>4, <2>6, <2>7, <2>8, <3>1 DEF Faithful
    <3> QED
      BY <1>2, <3>2
  <2>10. CASE ~(d = Parent[n] /\ ls[d].read)
    <3>1. l = ls[d]
      BY <1>3, <1>5, <2>10
    <3>2. Entered(d) => d # Parent[n]
      BY <2>7, <2>10 DEF Faithful
    <3>3. d # Parent[n] => Entries(d)' = Entries(d)
      BY <2>6 DEF Entries, Children
    <3>4. Faithful(d, l)'
      BY <2>4, <2>7, <2>8, <3>1, <3>2, <3>3 DEF Faithful
    <3> QED
      BY <1>2, <3>4
  <2> QED
    BY <2>9, <2>10
<1> QED
  BY <1>4, <1>5

\* What the theorem needs of the processes: none changes what is inside a
\* linked worktree after its own walk.
StaysOutside == "inside" \notin Ops

LEMMA OwnWInv ==
    ASSUME WInv, MarkersStay, StaysOutside, NEW p \in Proc, NEW n \in Node \ {Root}, Own(p, n)
    PROVE  WInv'
<1>1. IInv'
  BY OwnIInv DEF WInv
<1>2. FsStep(n) /\ st[p] = "done" /\ n \notin Marker /\ ~Inside(n)
  BY DEF Own, FsStep, StaysOutside
<1>3. Rooted'
  BY <1>2, FsRooted DEF WInv, IInv
<1>4. /\ st' = st /\ foreign' \in [Proc -> BOOLEAN] /\ (foreign'[p] <=> foreign[p])
      /\ \A q \in Proc \ {p} : foreign'[q] <=> st[q] # "idle"
  BY DEF Own, WInv
<1>5. Stands'
  BY <1>2, <1>4 DEF Stands
<1>6. PICK ls \in [Dir -> Listing] : ls = fresh[p]
  BY DEF WInv, IInv, Typed
<1>7. ASSUME NEW d \in Dir, ~foreign[p]
      PROVE  Faithful(d, fresh[p][d])'
  <2>1. \A c \in Dir : Faithful(c, ls[c])
    BY <1>2, <1>6, <1>7 DEF WInv, Settle
  <2>2. CASE Make(n) /\ fresh' = [fresh EXCEPT ![p] = Created(@, n)]
    <3>1. Faithful(d, Created(ls, n)[d])'
      BY <1>2, <2>1, <2>2, CreatedIsFaithful DEF WInv, IInv
    <3>2. fresh'[p] = Created(ls, n)
      BY <1>6, <2>2 DEF WInv, IInv, Typed
    <3>3. fresh'[p][d] = Created(ls, n)[d]
      BY <3>2
    <3>4. PICK l : l = Created(ls, n)[d]
      OBVIOUS
    <3>5. Faithful(d, l)'
      BY <3>1, <3>4 DEF Created, Reached, Noted
    <3> QED
      BY <3>3, <3>4, <3>5
  <2>3. CASE Unmake(n) /\ fresh' = [fresh EXCEPT ![p] = Removed(@, n)]
    <3>1. Faithful(d, Removed(ls, n)[d])'
      BY <1>2, <2>1, <2>3, RemovedIsFaithful DEF WInv, IInv
    <3>2. fresh'[p] = Removed(ls, n)
      BY <1>6, <2>3 DEF WInv, IInv, Typed
    <3>3. fresh'[p][d] = Removed(ls, n)[d]
      BY <3>2
    <3> QED
      BY <3>1, <3>3
  <2> QED
    BY <2>2, <2>3 DEF Own
<1>8. Settle'
  BY <1>2, <1>4, <1>7 DEF Settle
<1> QED
  BY <1>1, <1>3, <1>4, <1>5, <1>8 DEF WInv

LEMMA ChangeWInv == ASSUME WInv, MarkersStay, Change PROVE WInv'
<1>1. IInv'
  BY ChangeIInv DEF WInv
<1>2. PICK n \in Node \ {Root} : FsStep(n)
  BY DEF Change, FsStep
<1>3. Rooted'
  BY <1>2, FsRooted DEF WInv, IInv
<1>4. st' = st /\ foreign' = [p \in Proc |-> st[p] # "idle"]
  BY DEF Change, walk
<1>5. Stands' /\ Settle' /\ foreign' \in [Proc -> BOOLEAN]
  BY <1>4 DEF Stands, Settle
<1> QED
  BY <1>1, <1>3, <1>5 DEF WInv

LEMMA IdleWInv ==
    ASSUME WInv, IInv', UNCHANGED << present, st, fresh, todo, open, foreign >> PROVE WInv'
<1>1. Rooted' /\ foreign' \in [Proc -> BOOLEAN]
  BY TreeFrame DEF WInv
<1>2. Stands'
  BY StandsFrame DEF WInv, Stands
<1>3. Settle'
  BY TreeFrame DEF WInv, Settle
<1> QED
  BY <1>1, <1>2, <1>3 DEF WInv

LEMMA NextWInv == ASSUME WInv, MarkersStay, StaysOutside, [Next]_vars PROVE WInv'
<1>1. CASE Tick
  BY <1>1, TickIInv, IdleWInv DEF WInv, Tick, fs, walk
<1>2. CASE Change
  BY <1>2, ChangeWInv
<1>3. ASSUME NEW p \in Proc, Walk(p)
      PROVE  WInv'
  BY <1>3, StartWInv, FinishWInv, ExitWInv, StatGoneWInv, StatCachedWInv, StatWInv,
     ReadGoneWInv, ReadWInv, OwnWInv DEF Walk
<1>4. CASE UNCHANGED vars
  BY <1>4, NextIInv, IdleWInv DEF WInv, vars, fs, walk
<1> QED
  BY <1>1, <1>2, <1>3, <1>4 DEF Next

\* A finished walk lists what an uncached walk of the tree would (walk.go), for
\* every tree and granularity, any number of processes that share the cache and
\* every interleaving of their walks with changes, as long as no worktree loses
\* its marker alone and no process works inside a worktree its walk pruned.
THEOREM WalkIsTrueTheorem == ASSUME MarkersStay, StaysOutside PROVE Spec => []WalkIsTrue
<1>1. WInv /\ [Next]_vars => WInv'
  BY NextWInv
<1>2. WInv => WalkIsTrue
  BY SettledIsTrue DEF WInv, IInv
<1> QED
  BY InitWInv, <1>1, <1>2, PTL DEF Spec
=============================================================================
