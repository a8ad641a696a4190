--------------------------- MODULE ForkBase_proofs ---------------------------
(***************************************************************************)
(* Proofs about the base of a fork for every set of worlds, every number   *)
(* of processes, every failure and all that the user and the remotes do.   *)
(*                                                                         *)
(* Reach is a recursive function of a world's commits: ReachUnfolds says   *)
(* that it is what its definition says, ReachBelow and Transitive what     *)
(* follows for numbers in date order.                                      *)
(*                                                                         *)
(* AsksOnce follows the answers.  A process beside which nobody ran leaves *)
(* its record, a clone that is as whole as a fetch makes it and a base to  *)
(* be found in it (Own, Leaves).  The process that follows goes by that    *)
(* record and finds the base in what is there, so that it never comes to   *)
(* a step that fetches, unless it is Excused (Follows).                    *)
(*                                                                         *)
(* BaseIsRight, in whole clones, follows the records.  Whatever fetches or *)
(* prunes, the clone holds whole histories and HEAD's among them (Whole),  *)
(* so that what git answers is the truth.  A record says what the network  *)
(* said when it was made or later, each thing at its own time (Spoken),    *)
(* and a process goes by one that answers for the time it began            *)
(* (Informed).                                                             *)
(***************************************************************************)
EXTENDS ForkBase, WellFoundedInduction, TLAPS

-----------------------------------------------------------------------------
(* Histories.                                                               *)

D == DOMAIN world.parents
Parents(c) == ToSet(world.parents[c])

\* What the assumption on the constants says of a world.
LEMMA WorldType ==
    ASSUME world \in Worlds
    PROVE  /\ D \subseteq Nat /\ world.heads \cup {world.origin} \subseteq D
           /\ \A c \in D : c >= 1 /\ 1..c \subseteq D /\ Parents(c) \subseteq 1..(c-1) /\ Parents(c) \subseteq D
           /\ world.says \in Seq([kind : Kinds, tags : SUBSET Nat, tip : D]) /\ Len(world.says) >= 1
<1>1. Worldly(world)
  BY ConstantsAssumption
<1>2. PICK n \in Nat : D = 1..n
  BY <1>1 DEF Worldly, D
<1>3. \A c \in D : Parents(c) \subseteq 1..(c-1)
  BY <1>1 DEF Worldly, D, Parents
<1>4. D \subseteq Nat /\ \A c \in D : c >= 1 /\ 1..c \subseteq D /\ 1..(c-1) \subseteq D
  BY <1>2
<1>5. world.says \in Seq([kind : Kinds, tags : SUBSET Nat, tip : D]) /\ world.says # << >>
  BY <1>1 DEF Worldly, D
<1>6. Len(world.says) >= 1
  BY <1>5
<1>7. world.heads \cup {world.origin} \subseteq D
  BY <1>1 DEF Worldly, D
<1> QED
  BY <1>3, <1>4, <1>5, <1>6, <1>7

\* Reach is what its definition says: such a function exists, the sets that are
\* least among those closed under parents.
LEMMA ReachUnfolds ==
    ASSUME world \in Worlds, NEW cut, NEW c \in D
    PROVE  Reach(cut)[c] = {c} \cup IF c \in cut THEN {} ELSE UNION {Reach(cut)[p] : p \in Parents(c)}
<1> DEFINE closed(S) == \A e \in S : e \notin cut => Parents(e) \subseteq S
           least(b) == {d \in D : \A S \in SUBSET D : closed(S) /\ b \in S => d \in S}
           body(g, b) == {b} \cup IF b \in cut THEN {} ELSE UNION {g[p] : p \in Parents(b)}
           more(b) == {b} \cup IF b \in cut THEN {} ELSE UNION {least(p) : p \in Parents(b)}
           f == [b \in D |-> least(b)]
<1>0. \A b \in D : Parents(b) \subseteq D
  BY WorldType
<1>1. \A b \in D : b \in least(b) /\ least(b) \subseteq D /\ closed(least(b))
  BY <1>0
<1>2. ASSUME NEW b \in D PROVE least(b) = more(b)
  <2>1. more(b) \subseteq D /\ b \in more(b)
    BY <1>0, <1>1
  <2>2. closed(more(b))
    <3> SUFFICES ASSUME NEW e \in more(b), e \notin cut, NEW x \in Parents(e) PROVE x \in more(b)
      OBVIOUS
    <3>1. CASE e = b
      <4>1. x \in least(x)
        BY <1>0, <1>1, <3>1
      <4> HIDE DEF least
      <4> QED
        BY <3>1, <4>1
    <3>2. CASE e # b
      <4> HIDE DEF least
      <4>1. PICK p \in Parents(b) : e \in least(p) /\ b \notin cut
        BY <3>2
      <4>2. x \in least(p)
        BY <1>0, <1>1, <4>1
      <4> QED
        BY <4>1, <4>2
    <3> QED
      BY <3>1, <3>2
  <2>3. least(b) \subseteq more(b)
    <3> HIDE DEF more, closed
    <3> QED
      BY <2>1, <2>2
  <2>4. ASSUME NEW d \in more(b) PROVE d \in least(b)
    <3>1. CASE d = b
      BY <3>1
    <3>2. CASE d # b
      <4>1. PICK p \in Parents(b) : d \in least(p) /\ b \notin cut
        <5> HIDE DEF least
        <5> QED
          BY <3>2
      <4>2. \A S \in SUBSET D : closed(S) /\ b \in S => p \in S
        BY <4>1
      <4> HIDE DEF closed
      <4> QED
        BY <4>1, <4>2
    <3> QED
      BY <3>1, <3>2
  <2> HIDE DEF more, least
  <2> QED
    BY <2>3, <2>4
<1>3. \A b \in D : f[b] = body(f, b)
  <2> SUFFICES ASSUME NEW b \in D PROVE f[b] = body(f, b)
    OBVIOUS
  <2> HIDE DEF least
  <2>1. body(f, b) = more(b)
    BY <1>0
  <2> QED
    BY <1>2, <2>1
<1>4. f = [b \in D |-> body(f, b)]
  <2> HIDE DEF body, least
  <2> QED
    BY <1>3
<1>5. Reach(cut) = CHOOSE g : g = [b \in D |-> body(g, b)]
  BY Zenon DEF Reach, D, Parents
<1>6. Reach(cut) = [b \in D |-> body(Reach(cut), b)]
  <2> HIDE DEF body, f
  <2> QED
    BY <1>4, <1>5, Zenon
<1>7. Reach(cut)[c] = body(Reach(cut), c)
  <2> HIDE DEF body
  <2> QED
    BY <1>6, Zenon
<1> QED
  BY <1>7

\* A commit reaches itself and none that is newer.
LEMMA ReachBelow ==
    ASSUME world \in Worlds, NEW cut
    PROVE  \A c \in D : c \in Reach(cut)[c] /\ Reach(cut)[c] \subseteq 1..c
<1> DEFINE good(c) == c \in Reach(cut)[c] /\ Reach(cut)[c] \subseteq 1..c
           bad == {c \in D : ~good(c)}
           R == {p \in Nat \X Nat : p[1] < p[2]}
<1> SUFFICES ASSUME bad # {} PROVE FALSE
  OBVIOUS
<1>0. D \subseteq Nat /\ \A c \in D : Parents(c) \subseteq 1..(c-1) /\ 1..c \subseteq D
  BY WorldType
<1>1. IsWellFoundedOn(R, Nat)
  BY NatLessThanWellFounded DEF OpToRel
<1>2. PICK c \in bad : \A b \in bad : << b, c >> \notin R
  <2>1. bad \subseteq Nat
    BY <1>0
  <2> HIDE DEF R, bad
  <2> QED
    BY <1>1, <2>1, WFMin
<1>3. c \in D /\ c \in Nat /\ c >= 1
  BY <1>0, WorldType
<1>4. \A p \in Parents(c) : good(p)
  <2> SUFFICES ASSUME NEW p \in Parents(c) PROVE good(p)
    OBVIOUS
  <2>1. p \in D /\ p \in Nat /\ p < c
    BY <1>0, <1>3
  <2>2. << p, c >> \in R
    BY <1>3, <2>1
  <2> HIDE DEF good, R
  <2> QED
    BY <1>2, <2>1, <2>2
<1>5. Reach(cut)[c] = {c} \cup IF c \in cut THEN {} ELSE UNION {Reach(cut)[p] : p \in Parents(c)}
  BY <1>3, ReachUnfolds
<1>6. \A p \in Parents(c) : Reach(cut)[p] \subseteq 1..c
  BY <1>0, <1>3, <1>4
<1>7. good(c)
  BY <1>3, <1>5, <1>6
<1> QED
  BY <1>7

\* Numbers with a bound have a largest one.
LEMMA LargestMember ==
    ASSUME NEW n \in Nat, NEW S \in SUBSET (1..n), S # {}
    PROVE  \E m \in S : \A e \in S : e <= m
<1> DEFINE T == {n - e : e \in S}
           R == {p \in Nat \X Nat : p[1] < p[2]}
<1>1. IsWellFoundedOn(R, Nat)
  BY NatLessThanWellFounded DEF OpToRel
<1>2. T \subseteq Nat /\ T # {}
  <2>1. \A e \in S : n - e \in Nat
    OBVIOUS
  <2> QED
    BY <2>1
<1>3. PICK t \in T : \A u \in T : << u, t >> \notin R
  <2> HIDE DEF T, R
  <2> QED
    BY <1>1, <1>2, WFMin
<1>4. PICK m \in S : t = n - m
  OBVIOUS
<1>5. ASSUME NEW e \in S PROVE e <= m
  <2>1. n - e \in T /\ ~(n - e < n - m)
    BY <1>2, <1>3, <1>4
  <2> QED
    BY <2>1
<1> QED
  BY <1>5

\* What a commit of a whole history reaches, all of that history reaches.
LEMMA Transitive ==
    ASSUME world \in Worlds
    PROVE  \A c \in D : \A d \in Ancestors(c) : Ancestors(d) \subseteq Ancestors(c)
<1> DEFINE good(c) == \A d \in Ancestors(c) : Ancestors(d) \subseteq Ancestors(c)
           bad == {c \in D : ~good(c)}
           R == {p \in Nat \X Nat : p[1] < p[2]}
<1> SUFFICES ASSUME bad # {} PROVE FALSE
  OBVIOUS
<1>0. D \subseteq Nat /\ \A c \in D : Parents(c) \subseteq 1..(c-1) /\ 1..c \subseteq D /\ Parents(c) \subseteq D
  BY WorldType
<1>1. IsWellFoundedOn(R, Nat)
  BY NatLessThanWellFounded DEF OpToRel
<1>2. PICK c \in bad : \A b \in bad : << b, c >> \notin R
  <2>1. bad \subseteq Nat
    BY <1>0
  <2> HIDE DEF R, bad
  <2> QED
    BY <1>1, <2>1, WFMin
<1>3. c \in D /\ c \in Nat
  BY <1>0
<1>4. \A p \in Parents(c) : good(p)
  <2> SUFFICES ASSUME NEW p \in Parents(c) PROVE good(p)
    OBVIOUS
  <2>1. p \in D /\ p \in Nat /\ p < c
    BY <1>0, <1>3
  <2>2. << p, c >> \in R
    BY <1>3, <2>1
  <2> HIDE DEF good, R
  <2> QED
    BY <1>2, <2>1, <2>2
<1>5. Ancestors(c) = {c} \cup UNION {Ancestors(p) : p \in Parents(c)}
  BY <1>3, ReachUnfolds DEF Ancestors
<1>6. good(c)
  BY <1>4, <1>5
<1> QED
  BY <1>6

-----------------------------------------------------------------------------
(* Types.                                                                   *)

Step == {"cached", "identify", "tags", "fetch", "resolve", "store", "deepen", "unshallow",
         "tagged", "snapshot", "merge", "look", "deepenParent", "deepenOwn", "compare"}
Spot == Step \cup {"idle", "done", "refused"}

Typed ==
    /\ world \in Worlds /\ age \in 1..Len(world.says)
    /\ since \in Seq(Nat) /\ Len(since) = age
    /\ head \in world.heads
    /\ fetchHead \in Nat \cup {NoCommit}
    /\ now \in Nat
    /\ file \in Record \cup {NoRecord}
    /\ pc \in [Proc -> Spot] /\ mine \in [Proc -> Record]
    /\ began \in [Proc -> Nat] /\ heads \in [Proc -> SUBSET D]
    /\ asked \in [Proc -> BOOLEAN] /\ others \in [Proc -> SUBSET Proc]
    /\ answer = [p \in Proc |-> answer[p]]

\* What the network says is well-formed.
LEMMA RemoteType ==
    ASSUME Typed PROVE Remote \in [kind : Kinds, tags : SUBSET Nat, tip : D] /\ D \subseteq Nat
<1>1. world.says \in Seq([kind : Kinds, tags : SUBSET Nat, tip : D]) /\ D \subseteq Nat
  BY WorldType DEF Typed
<1>2. age \in 1..Len(world.says)
  BY DEF Typed
<1> DEFINE S == [kind : Kinds, tags : SUBSET Nat, tip : D]
<1>3. \A q \in Seq(S) : \A i \in 1..Len(q) : q[i] \in S
  <2> HIDE DEF S
  <2> QED
    OBVIOUS
<1> HIDE DEF S
<1>4. Remote \in S
  BY <1>1, <1>2, <1>3 DEF Remote, S
<1> QED
  BY <1>1, <1>4 DEF S

\* A record is one whatever is written into it.
LEMMA RecordFields ==
    ASSUME NEW r \in Record
    PROVE  /\ [r EXCEPT !.pure = FALSE] \in Record
           /\ \A t \in SUBSET Nat : [r EXCEPT !.tags = t] \in Record
           /\ \A c \in Nat \cup {NoCommit} : /\ [r EXCEPT !.parent = c] \in Record
                                          /\ [r EXCEPT !.tip = c] \in Record
BY DEF Record

\* The types hold at first.
LEMMA InitTyped == Init => Typed
<1> SUFFICES ASSUME Init PROVE Typed
  OBVIOUS
<1>1. world \in Worlds
  BY DEF Init
<1>2. Len(world.says) >= 1 /\ Len(world.says) \in Nat
  BY <1>1, WorldType
<1>3. Nobody \in Record
  BY DEF Nobody, Record
<1>4. since \in Seq(Nat) /\ Len(since) = age /\ age = 1
  BY DEF Init
<1> QED
  BY <1>1, <1>2, <1>3, <1>4 DEF Init, Typed, Spot

\* What a process's own steps leave alone, and what they may change.
LEMMA OwnStep ==
    ASSUME Typed, NEW p \in Proc, Works(p)
    PROVE  /\ UNCHANGED << remotes, head, now, began, heads, others >>
           /\ pc[p] \in Step /\ pc'[p] \in Spot \ {"idle"}
           /\ \A q \in Proc \ {p} : pc'[q] = pc[q] /\ asked'[q] = asked[q] /\ answer'[q] = answer[q]
           /\ pc' = [q \in Proc |-> pc'[q]] /\ asked' = [q \in Proc |-> asked'[q]]
           /\ answer' = [q \in Proc |-> answer'[q]] /\ asked'[p] \in BOOLEAN
<1>1. CASE ReadRecord(p)
  BY <1>1 DEF ReadRecord, Onward, Goto, Ends, Typed, Spot, Step, tale, clone, remotes
<1>2. CASE Identify(p)
  BY <1>2, RemoteType DEF Identify, Kinds, Goto, Asks, Typed, Spot, Step, tale, clone, remotes
<1>3. CASE ListTags(p)
  BY <1>3 DEF ListTags, Goto, Asks, Typed, Spot, Step, tale, clone, remotes
<1>4. CASE Fetch(p)
  BY <1>4 DEF Fetch, Goto, Asks, Typed, Spot, Step, tale, clone, remotes
<1>5. CASE Resolve(p)
  BY <1>5 DEF Resolve, Goto, Typed, Spot, Step, tale, clone, remotes
<1>6. CASE Store(p)
  BY <1>6 DEF Store, Onward, Goto, Ends, Typed, Spot, Step, tale, clone, remotes
<1>7. CASE Deepen(p)
  BY <1>7 DEF Deepen, Goto, Typed, Spot, Step, tale, clone, remotes
<1>8. CASE Unshallow(p)
  BY <1>8 DEF Unshallow, Goto, Asks, Typed, Spot, Step, tale, clone, remotes
<1>9. CASE UnshallowTooLate(p)
  BY <1>9 DEF UnshallowTooLate, Refuses, Goto, Typed, Spot, Step, tale, clone, remotes
<1>10. CASE Tagged(p)
  BY <1>10 DEF Tagged, Ends, Goto, Typed, Spot, Step, tale, clone, remotes
<1>11. CASE Snapshot(p)
  BY <1>11 DEF Snapshot, Ends, Refuses, Goto, Typed, Spot, Step, tale, clone, remotes
<1>12. CASE Merge(p)
  BY <1>12 DEF Merge, Ends, Goto, Typed, Spot, Step, tale, clone, remotes
<1>13. CASE Look(p)
  BY <1>13 DEF Look, Refuses, Goto, Typed, Spot, Step, tale, clone, remotes
<1>14. CASE DeepenParent(p)
  BY <1>14 DEF DeepenParent, Goto, Asks, Typed, Spot, Step, tale, clone, remotes
<1>15. CASE DeepenOwn(p)
  BY <1>15 DEF DeepenOwn, Goto, Asks, Typed, Spot, Step, tale, clone, remotes
<1>16. CASE Compare(p)
  BY <1>16 DEF Compare, Ends, Refuses, Goto, Typed, Spot, Step, tale, clone, remotes
<1>17. CASE CallFails(p)
  BY <1>17 DEF CallFails, Fails, Refuses, Goto, Typed, Spot, Step, tale, clone, remotes
<1> QED
  BY <1>1, <1>2, <1>3, <1>4, <1>5, <1>6, <1>7, <1>8, <1>9, <1>10, <1>11, <1>12, <1>13, <1>14,
     <1>15, <1>16, <1>17 DEF Works

\* A fetch of c: whoever reads FETCH_HEAD next reads c.
LEMMA FetchedType ==
    ASSUME Typed, NEW p \in Proc, NEW c \in D, Fetched(p, c)
    PROVE  /\ mine' \in [Proc -> Record] /\ fetchHead' = c /\ fetchHead' \in Nat
           /\ \A q \in Proc : mine'[q] = mine[q] \/ (q # p /\ pc[q] = "resolve" /\ c # fetchHead /\
                                                   mine'[q] = [mine[q] EXCEPT !.pure = FALSE])
<1>1. D \subseteq Nat
  BY RemoteType
<1>2. \A q \in Proc : [mine[q] EXCEPT !.pure = FALSE] \in Record
  BY RecordFields DEF Typed
<1> QED
  BY <1>1, <1>2 DEF Fetched, Typed

\* What each step of a process does to its record, the file and FETCH_HEAD.
LEMMA RecordStep ==
    ASSUME Typed, NEW p \in Proc, Works(p)
    PROVE  /\ mine' \in [Proc -> Record] /\ fetchHead' \in Nat \cup {NoCommit}
           /\ file' = file \/ (pc[p] = "store" /\ file' = mine[p])
<1>0. Remote \in [kind : Kinds, tags : SUBSET Nat, tip : D] /\ D \subseteq Nat /\ world.origin \in D
  BY RemoteType, WorldType DEF Typed
<1>1. CASE ReadRecord(p)
  BY <1>1 DEF ReadRecord, Fresh, Typed, clone
<1>2. CASE Identify(p)
  <2>1. [Nobody EXCEPT !.kind = Remote.kind, !.checked = now] \in Record
    BY <1>0 DEF Nobody, Record, Typed
  <2> QED
    BY <1>2, <2>1 DEF Identify, Typed, clone
<1>3. CASE ListTags(p)
  <2>1. [mine[p] EXCEPT !.tags = Remote.tags] \in Record
    BY <1>0, RecordFields DEF Typed
  <2> QED
    BY <1>3, <2>1 DEF ListTags, Typed, clone
<1>4. CASE Fetch(p)
  <2>1. Fetched(p, Remote.tip) /\ file' = file
    BY <1>4 DEF Fetch
  <2> QED
    BY <1>0, <2>1, FetchedType
<1>5. CASE Resolve(p)
  <2>1. [mine[p] EXCEPT !.parent = fetchHead] \in Record /\ [mine[p] EXCEPT !.tip = fetchHead] \in Record
    BY RecordFields DEF Typed
  <2> QED
    BY <1>5, <2>1 DEF Resolve, Typed, clone
<1>6. CASE Store(p)
  BY <1>6 DEF Store, Typed, clone
<1>7. CASE Deepen(p)
  BY <1>7 DEF Deepen, Typed, clone
<1>8. CASE Unshallow(p)
  <2>1. Fetched(p, world.origin) /\ file' = file
    BY <1>8 DEF Unshallow
  <2> QED
    BY <1>0, <2>1, FetchedType
<1>9. CASE UnshallowTooLate(p)
  BY <1>9 DEF UnshallowTooLate, Typed, clone
<1>10. CASE Tagged(p)
  BY <1>10 DEF Tagged, Typed, clone
<1>11. CASE Snapshot(p)
  BY <1>11 DEF Snapshot, Typed, clone
<1>12. CASE Merge(p)
  BY <1>12 DEF Merge, Typed, clone
<1>13. CASE Look(p)
  BY <1>13 DEF Look, Typed, clone
<1>14. CASE DeepenParent(p)
  <2>1. Fetched(p, Remote.tip) /\ file' = file
    BY <1>14 DEF DeepenParent
  <2> QED
    BY <1>0, <2>1, FetchedType
<1>15. CASE DeepenOwn(p)
  <2>1. Fetched(p, world.origin) /\ file' = file
    BY <1>15 DEF DeepenOwn
  <2> QED
    BY <1>0, <2>1, FetchedType
<1>16. CASE Compare(p)
  BY <1>16 DEF Compare, Typed, clone
<1>17. CASE CallFails(p)
  BY <1>17 DEF CallFails, Fails, Typed, clone
<1> QED
  BY <1>1, <1>2, <1>3, <1>4, <1>5, <1>6, <1>7, <1>8, <1>9, <1>10, <1>11, <1>12, <1>13, <1>14,
     <1>15, <1>16, <1>17 DEF Works

\* Each step keeps the types.
LEMMA NextTyped == Typed /\ [Next]_vars => Typed'
<1> SUFFICES ASSUME Typed, [Next]_vars PROVE Typed'
  OBVIOUS
<1>1. ASSUME NEW p \in Proc, Works(p) PROVE Typed'
  <2>1. /\ UNCHANGED << remotes, head, now, began, heads, others >>
        /\ pc' \in [Proc -> Spot] /\ asked' \in [Proc -> BOOLEAN]
        /\ answer' = [q \in Proc |-> answer'[q]]
    BY <1>1, OwnStep DEF Typed, Spot
  <2>2. mine' \in [Proc -> Record] /\ fetchHead' \in Nat \cup {NoCommit} /\ file' \in Record \cup {NoRecord}
    BY <1>1, RecordStep DEF Typed
  <2> QED
    BY <2>1, <2>2 DEF Typed, remotes, D
<1>2. ASSUME NEW p \in Proc, Begin(p) PROVE Typed'
  <2>1. {head} \subseteq D
    BY WorldType DEF Typed
  <2>2. D' = D /\ Running \subseteq Proc
    BY <1>2 DEF Begin, D, remotes, Running
  <2>3. others' \in [Proc -> SUBSET Proc] /\ heads' \in [Proc -> SUBSET D] /\ began' \in [Proc -> Nat]
    BY <1>2, <2>1, <2>2 DEF Begin, Typed
  <2>4. pc' \in [Proc -> Spot]
    BY <1>2 DEF Begin, Goto, Typed, Spot, Step
  <2> QED
    BY <1>2, <2>2, <2>3, <2>4 DEF Begin, Typed, remotes, clone
<1>3. CASE RemoteMoves
  <2>1. age + 1 \in 1..Len(world.says)
    BY <1>3, WorldType DEF RemoteMoves, Typed
  <2>2. since' \in Seq(Nat) /\ Len(since') = age'
    BY <1>3 DEF RemoteMoves, Typed
  <2> QED
    BY <1>3, <2>1, <2>2 DEF RemoteMoves, Typed, clone, tale, D
<1>4. CASE Checkout
  <2>1. PICK c \in (world.heads \cap have) \ {head} :
          /\ head' = c
          /\ heads' = [p \in Proc |-> IF p \in Running THEN heads[p] \cup {c} ELSE heads[p]]
    BY <1>4 DEF Checkout
  <2>2. c \in D
    BY WorldType DEF Typed
  <2>3. heads' \in [Proc -> SUBSET D] /\ head' \in world.heads
    BY <2>1, <2>2 DEF Typed
  <2> QED
    BY <1>4, <2>3 DEF Checkout, Typed, remotes, D
<1>5. CASE UserFetch
  <2>1. world.origin \in Nat
    BY WorldType DEF Typed
  <2>2. mine' \in [Proc -> Record]
    BY <1>5, RecordFields DEF UserFetch, Typed
  <2> QED
    BY <1>5, <2>1, <2>2 DEF UserFetch, Typed, remotes, tale, D
<1>6. CASE Prune
  BY <1>6 DEF Prune, Typed, remotes, D
<1>7. CASE Tick
  BY <1>7 DEF Tick, Typed, remotes, clone, tale, D
<1>8. CASE UNCHANGED vars
  BY <1>8 DEF vars, Typed, remotes, clone, tale, D
<1> QED
  BY <1>1, <1>2, <1>3, <1>4, <1>5, <1>6, <1>7, <1>8 DEF Next

-----------------------------------------------------------------------------
(* The type invariant.                                                      *)

\* Within, too, is what its definition says: the least growing sequence of sets
\* that takes in parents.
LEMMA WithinType ==
    ASSUME world \in Worlds, NEW set \in SUBSET D, NEW n \in Nat
    PROVE  Within(set)[n] \subseteq D
<1> DEFINE P(S) == S \cup UNION {Parents(c) : c \in S}
           grows(F) == set \subseteq F[1] /\ \A k \in Nat \ {0} : P(F[k]) \subseteq F[k+1]
           least(k) == {d \in D : \A F \in [Nat -> SUBSET D] : grows(F) => d \in F[k]}
           f == [k \in Nat |-> IF k = 0 THEN {} ELSE least(k)]
           body(g, k) == IF k = 0 THEN {} ELSE IF k = 1 THEN set ELSE P(g[k-1])
<1>0. \A b \in D : Parents(b) \subseteq D
  BY WorldType
<1>1. \A S \in SUBSET D : P(S) \in SUBSET D /\ S \subseteq P(S)
  BY <1>0
<1>2. \A S, T \in SUBSET D : S \subseteq T => P(S) \subseteq P(T)
  OBVIOUS
<1>3. \A k \in Nat : least(k) \in SUBSET D
  OBVIOUS
<1>4. set \subseteq least(1)
  OBVIOUS
<1>5. ASSUME NEW k \in Nat \ {0} PROVE P(least(k)) \subseteq least(k+1)
  <2> SUFFICES ASSUME NEW d \in P(least(k)), NEW F \in [Nat -> SUBSET D], grows(F) PROVE d \in F[k+1]
    <3> HIDE DEF P, grows
    <3>1. P(least(k)) \subseteq D
      BY <1>1, <1>3
    <3> QED
      BY <3>1
  <2>1. least(k) \subseteq F[k]
    <3> HIDE DEF P, grows
    <3> QED
      OBVIOUS
  <2>2. P(least(k)) \subseteq P(F[k])
    <3> HIDE DEF P, least
    <3> QED
      BY <1>2, <1>3, <2>1
  <2> HIDE DEF P, least
  <2> QED
    BY <2>2
<1>6. ASSUME NEW k \in Nat, k >= 2 PROVE least(k) \subseteq P(least(k-1))
  <2> DEFINE F == [j \in Nat |-> IF j = 0 THEN {} ELSE IF j < k THEN least(j) ELSE IF j = k THEN P(least(k-1)) ELSE D]
  <2> HIDE DEF P, least
  <2>1. F \in [Nat -> SUBSET D]
    BY <1>1, <1>3, <1>6
  <2>2. set \subseteq F[1]
    BY <1>4, <1>6
  <2>3. ASSUME NEW j \in Nat \ {0} PROVE P(F[j]) \subseteq F[j+1]
    <3>1. CASE j + 1 < k
      <4>1. F[j] = least(j) /\ F[j+1] = least(j+1)
        BY <3>1
      <4> QED
        BY <1>5, <4>1
    <3>2. CASE j + 1 = k
      <4>1. F[j] = least(k-1) /\ F[j+1] = P(least(k-1))
        BY <3>2
      <4> QED
        BY <4>1
    <3>3. CASE j + 1 > k
      <4>1. F[j+1] = D /\ F[j] \in SUBSET D
        BY <2>1, <3>3
      <4> QED
        BY <1>1, <4>1
    <3> QED
      BY <1>6, <3>1, <3>2, <3>3
  <2>4. grows(F)
    BY <2>2, <2>3
  <2>5. F[k] = P(least(k-1))
    BY <1>6
  <2> HIDE DEF grows, F
  <2> QED
    BY <2>1, <2>4, <2>5 DEF least
<1>7. least(1) \subseteq set
  <2> DEFINE F == [j \in Nat |-> IF j = 1 THEN set ELSE D]
  <2>1. F \in [Nat -> SUBSET D] /\ set \subseteq F[1]
    OBVIOUS
  <2>2. ASSUME NEW j \in Nat \ {0} PROVE P(F[j]) \subseteq F[j+1]
    <3>1. F[j+1] = D /\ F[j] \in SUBSET D
      OBVIOUS
    <3> HIDE DEF P, F
    <3> QED
      BY <1>1, <3>1
  <2>3. grows(F)
    <3> HIDE DEF P, F
    <3> QED
      BY <2>1, <2>2
  <2>4. F[1] = set
    OBVIOUS
  <2> HIDE DEF F, grows
  <2> QED
    BY <2>1, <2>3, <2>4
<1>8. \A k \in Nat : f[k] = body(f, k)
  <2> SUFFICES ASSUME NEW k \in Nat PROVE f[k] = body(f, k)
    OBVIOUS
  <2> HIDE DEF P, least
  <2>1. CASE k = 0
    BY <2>1
  <2>2. CASE k = 1
    <3>1. f[k] = least(1)
      BY <2>2
    <3> QED
      BY <1>4, <1>7, <2>2, <3>1
  <2>3. CASE k >= 2
    <3>1. k - 1 \in Nat \ {0} /\ f[k] = least(k) /\ f[k-1] = least(k-1) /\ (k - 1) + 1 = k
      BY <2>3
    <3>2. P(least(k-1)) = least(k)
      BY <1>5, <1>6, <2>3, <3>1
    <3> QED
      BY <2>3, <3>1, <3>2
  <2> QED
    BY <2>1, <2>2, <2>3
<1>9. f = [k \in Nat |-> body(f, k)]
  <2> HIDE DEF body, least
  <2> QED
    BY <1>8
<1>10. Within(set) = CHOOSE g : g = [k \in Nat |-> body(g, k)]
  BY Zenon DEF Within, Parents
<1>11. Within(set) = [k \in Nat |-> body(Within(set), k)]
  <2> HIDE DEF body, f
  <2> QED
    BY <1>9, <1>10, Zenon
<1> DEFINE W == Within(set)
           bad == {k \in Nat : ~(W[k] \subseteq D)}
           R == {p \in Nat \X Nat : p[1] < p[2]}
<1>12. \A k \in Nat : W[k] = body(W, k)
  <2> HIDE DEF body
  <2> QED
    BY <1>11, Zenon
<1>13. bad = {}
  <2> SUFFICES ASSUME bad # {} PROVE FALSE
    OBVIOUS
  <2>1. IsWellFoundedOn(R, Nat)
    BY NatLessThanWellFounded DEF OpToRel
  <2>2. PICK k \in bad : \A j \in bad : << j, k >> \notin R
    <3> HIDE DEF R
    <3> QED
      BY <2>1, WFMin
  <2>3. k >= 2 => W[k-1] \subseteq D
    <3> SUFFICES ASSUME k >= 2 PROVE W[k-1] \subseteq D
      OBVIOUS
    <3>1. k - 1 \in Nat /\ << k - 1, k >> \in R
      OBVIOUS
    <3> HIDE DEF W, R
    <3> QED
      BY <2>2, <3>1
  <2>4. body(W, k) \subseteq D
    <3> HIDE DEF P, W
    <3> QED
      BY <1>1, <2>3
  <2> QED
    <3> HIDE DEF body, W
    <3> QED
      BY <1>12, <2>2, <2>4
<1> SUFFICES W[n] \subseteq D
  OBVIOUS
<1> QED
  <2> HIDE DEF W
  <2> QED
    BY <1>13

\* A fetch that counts steps brings in commits of the world, and cuts histories
\* at commits the clone has.
LEMMA CutType ==
    ASSUME world \in Worlds, have \subseteq D, shallow \subseteq have, NEW tip \in D,
           NEW set \in SUBSET D, NEW n \in Nat \ {0}, Cut(tip, set, n)
    PROVE  have' \subseteq D /\ shallow' \subseteq have' /\ tip \in have'
<1>1. n - 1 \in Nat /\ Within(set)[n] \subseteq D /\ Within(set)[n-1] \subseteq D
  BY WithinType
<1>2. tip \in Reach(shallow')[tip] /\ Reach(shallow')[tip] \subseteq D
  BY ReachBelow, WorldType
<1> QED
  BY <1>1, <1>2 DEF Cut

\* TypeOK, and the step of a search that has begun.
Steady ==
    /\ Typed /\ TypeOK
    /\ depth \in [Proc -> Nat]
    /\ \A p \in Proc : pc[p] \in {"merge", "look", "deepenParent", "deepenOwn", "compare"} => depth[p] >= 2

\* Steady holds at first.
LEMMA InitSteady == Init => Steady
<1> SUFFICES ASSUME Init PROVE Steady
  OBVIOUS
<1>1. Typed /\ world \in Worlds /\ head \in D /\ world.heads \subseteq D
  BY InitTyped, WorldType DEF Typed
<1>2. \A c \in D : Ancestors(c) \subseteq D /\ c \in Ancestors(c)
  BY <1>1, ReachBelow, WorldType DEF Ancestors
<1>3. have \subseteq D /\ shallow \subseteq have
  BY <1>1, <1>2 DEF Init
<1> QED
  BY <1>1, <1>3, ConstantsAssumption DEF Init, Steady, TypeOK, Typed, D

\* The steps of a process keep the clone a clone.
LEMMA CloneStep ==
    ASSUME Steady, NEW p \in Proc, Works(p)
    PROVE  have' \subseteq D /\ shallow' \subseteq have' /\ fetchHead' \in have' \cup {NoCommit}
<1>0. /\ Typed /\ world \in Worlds /\ have \subseteq D /\ shallow \subseteq have
      /\ fetchHead \in have \cup {NoCommit}
      /\ Remote.tip \in D /\ world.origin \in D /\ depth[p] \in Nat
  BY RemoteType, WorldType DEF Steady, TypeOK, Typed, D
<1>1. \A cut : \A c \in D : c \in Reach(cut)[c] /\ Reach(cut)[c] \subseteq D
  BY <1>0, ReachBelow, WorldType
<1>2. ASSUME NEW c \in D, Bring(c) PROVE have' \subseteq D /\ shallow' \subseteq have' /\ c \in have'
  BY <1>0, <1>1, <1>2 DEF Bring
<1>3. CASE Fetch(p)
  <2>1. fetchHead' = Remote.tip
    BY <1>3 DEF Fetch, Fetched
  <2>2. CASE Cut(Remote.tip, {Remote.tip}, 1)
    BY <1>0, <2>1, <2>2, CutType
  <2>3. CASE Bring(Remote.tip)
    BY <1>0, <1>2, <2>1, <2>3
  <2> QED
    BY <1>3, <2>2, <2>3 DEF Fetch
<1>4. CASE Unshallow(p)
  <2>1. /\ have' = have \cup Ancestors(world.origin) /\ shallow' = shallow \ Ancestors(world.origin)
        /\ fetchHead' = world.origin
    BY <1>4 DEF Unshallow, Fetched
  <2>2. world.origin \in Ancestors(world.origin) /\ Ancestors(world.origin) \subseteq D
    BY <1>0, ReachBelow, WorldType DEF Ancestors
  <2> QED
    BY <1>0, <2>1, <2>2
<1>5. CASE DeepenParent(p)
  <2>1. fetchHead' = Remote.tip /\ Cut(Remote.tip, {Remote.tip}, depth[p]) /\ depth[p] # 0
    BY <1>5 DEF DeepenParent, Fetched, Steady
  <2> QED
    BY <1>0, <2>1, CutType
<1>6. CASE DeepenOwn(p)
  <2>1. /\ fetchHead' = world.origin
        /\ Cut(world.origin, shallow \cap Ancestors(world.origin), depth[p] \div 2 + 1)
    BY <1>6 DEF DeepenOwn, Fetched
  <2>2. depth[p] \div 2 + 1 \in Nat \ {0} /\ shallow \cap Ancestors(world.origin) \in SUBSET D
    BY <1>0
  <2> QED
    BY <1>0, <2>1, <2>2, CutType
<1>7. CASE ~(Fetch(p) \/ Unshallow(p) \/ DeepenParent(p) \/ DeepenOwn(p))
  <2>1. UNCHANGED clone
    BY <1>7 DEF Works, ReadRecord, Identify, ListTags, Resolve, Store, Deepen, UnshallowTooLate,
                Tagged, Snapshot, Merge, Look, Compare, CallFails, Fails
  <2> QED
    BY <1>0, <2>1 DEF clone
<1> QED
  BY <1>3, <1>4, <1>5, <1>6, <1>7

\* Each step keeps Steady.
LEMMA NextSteady == Steady /\ [Next]_vars => Steady'
<1> SUFFICES ASSUME Steady, [Next]_vars PROVE Steady'
  OBVIOUS
<1>0. /\ Typed /\ Typed' /\ TypeOK /\ world \in Worlds /\ MaxMoves \in Nat /\ MaxTime \in Nat
      /\ have \subseteq D /\ shallow \subseteq have
  BY NextTyped, ConstantsAssumption DEF Steady, Typed, TypeOK, D
<1>1. ASSUME NEW p \in Proc, Works(p) PROVE Steady'
  <2>1. /\ UNCHANGED << remotes, head, now, began, heads, others >> /\ pc[p] \in Step
        /\ \A q \in Proc \ {p} : pc'[q] = pc[q]
    BY <1>0, <1>1, OwnStep
  <2>2. have' \subseteq D /\ shallow' \subseteq have' /\ fetchHead' \in have' \cup {NoCommit}
    BY <1>1, CloneStep
  <2>3. moves' \in 0..MaxMoves
    <3>1. moves' = moves \/ (moves < MaxMoves /\ moves' = moves + 1)
      BY <1>1 DEF Works, ReadRecord, Identify, ListTags, Fetch, Resolve, Store, Deepen, Unshallow,
           UnshallowTooLate, Tagged, Snapshot, Merge, Look, DeepenParent, DeepenOwn, Compare,
           CallFails, Fails, May
    <3> QED
      BY <1>0, <3>1 DEF TypeOK
  <2>4. /\ depth' \in [Proc -> Nat] /\ \A q \in Proc \ {p} : depth'[q] = depth[q]
        /\ pc'[p] \in {"merge", "look", "deepenParent", "deepenOwn", "compare"} => depth'[p] >= 2
    <3>1. p \in DOMAIN pc /\ depth \in [Proc -> Nat] /\ (pc[p] \in {"merge", "look", "deepenParent", "deepenOwn", "compare"} => depth[p] >= 2)
      BY <1>0 DEF Steady, Typed
    <3>2. CASE ReadRecord(p) \/ Store(p)
      BY <3>1, <3>2 DEF ReadRecord, Store, Onward, Goto, Ends, search
    <3>3. CASE Compare(p)
      BY <3>1, <3>3 DEF Compare, Goto, Ends, Refuses
    <3>4. CASE ~(ReadRecord(p) \/ Store(p) \/ Compare(p))
      <4>1. depth' = depth
        BY <1>1, <3>4 DEF Works, Identify, ListTags, Fetch, Resolve, Deepen, Unshallow,
           UnshallowTooLate, Tagged, Snapshot, Merge, Look, DeepenParent, DeepenOwn, CallFails, Fails, search
      <4>2. pc'[p] \in {"merge", "look", "deepenParent", "deepenOwn", "compare"}
               => pc[p] \in {"merge", "look", "deepenParent", "deepenOwn", "compare"}
        <5>1. CASE Identify(p)
          BY <1>0, <3>1, <5>1, RemoteType DEF Identify, Goto, Kinds
        <5>2. CASE ~Identify(p)
          BY <1>1, <3>1, <3>4, <5>2 DEF Works, ListTags, Fetch, Resolve, Deepen, Unshallow,
             UnshallowTooLate, Tagged, Snapshot, Merge, Look, DeepenParent, DeepenOwn, CallFails, Fails,
             Goto, Ends, Refuses
        <5> QED
          BY <5>1, <5>2
      <4> QED
        BY <3>1, <4>1, <4>2
    <3> QED
      BY <3>2, <3>3, <3>4
  <2> QED
    BY <1>0, <2>1, <2>2, <2>3, <2>4, WorldType DEF Steady, TypeOK, Typed, D, remotes
<1>2. ASSUME UNCHANGED << world, age, since, have, shallow, fetchHead, depth, moves >>, now' \in 0..MaxTime,
             \A q \in Proc : pc'[q] = pc[q] \/ pc'[q] = "cached",
             \A q \in Proc : began'[q] \in 0..now'
      PROVE  Steady'
  <2>1. TypeOK'
    <3>1. world.heads \subseteq D
      BY <1>0, WorldType
    <3>2. /\ world' \in Worlds /\ age' \in 1..Len(world'.says) /\ Len(since') = age'
          /\ head' \in DOMAIN world'.parents
      BY <1>0, <1>2, <3>1 DEF Typed, D
    <3> QED
      BY <1>2, <3>2 DEF Steady, TypeOK
  <2> QED
    BY <1>0, <1>2, <2>1 DEF Steady
<1>3. now \in 0..MaxTime /\ \A q \in Proc : began[q] \in 0..now
  BY <1>0 DEF TypeOK
<1>4. ASSUME NEW p \in Proc, Begin(p) PROVE Steady'
  <2>1. /\ UNCHANGED << world, age, since, have, shallow, fetchHead, depth, moves, now >>
        /\ \A q \in Proc : pc'[q] = pc[q] \/ pc'[q] = "cached"
        /\ \A q \in Proc : began'[q] = began[q] \/ began'[q] = now
    BY <1>0, <1>4 DEF Begin, Goto, Typed, remotes, clone, search
  <2> QED
    BY <1>2, <1>3, <2>1
<1>5. CASE RemoteMoves \/ Checkout
  <2>1. /\ UNCHANGED << world, have, shallow, fetchHead, depth, now, pc, began >>
        /\ moves < MaxMoves /\ moves' = moves + 1
    BY <1>5 DEF RemoteMoves, Checkout, Does, remotes, clone, search, tale
  <2>2. moves' \in 0..MaxMoves /\ D' = D
    BY <1>0, <2>1 DEF TypeOK, D
  <2> QED
    BY <1>0, <1>3, <2>1, <2>2, WorldType DEF Steady, TypeOK, Typed, D
<1>6. CASE UserFetch \/ Prune
  <2>1. /\ UNCHANGED << world, age, since, head, depth, now, pc, began >>
        /\ moves < MaxMoves /\ moves' = moves + 1
    BY <1>6 DEF UserFetch, Prune, Does, remotes, clone, search, tale
  <2>a. moves' \in 0..MaxMoves /\ D' = D
    BY <1>0, <2>1 DEF TypeOK, D
  <2>2. have' \subseteq D /\ shallow' \subseteq have' /\ fetchHead' \in have' \cup {NoCommit}
    <3>1. \A c \in D : c \in Reach(shallow)[c] /\ Reach(shallow)[c] \subseteq D
      BY <1>0, ReachBelow, WorldType
    <3>2. CASE UserFetch
      BY <1>0, <3>1, <3>2, WorldType DEF UserFetch, Bring
    <3>3. CASE Prune
      <4>1. /\ have' = have \cap UNION {Seen(c) : c \in (world.heads \cup {fetchHead}) \cap have}
            /\ shallow' = shallow \cap have' /\ fetchHead' = fetchHead
        BY <3>3 DEF Prune
      <4>2. fetchHead \in have => fetchHead \in Seen(fetchHead)
        BY <1>0, <3>1 DEF Seen
      <4>3. fetchHead \in have => fetchHead \in have'
        BY <4>1, <4>2
      <4>4. fetchHead \in have \cup {NoCommit}
        BY <1>0 DEF TypeOK
      <4> QED
        BY <1>0, <4>1, <4>3, <4>4
    <3> QED
      BY <1>6, <3>2, <3>3
  <2> QED
    BY <1>0, <1>3, <2>1, <2>a, <2>2, WorldType DEF Steady, TypeOK, Typed, D
<1>7. CASE Tick \/ UNCHANGED vars
  <2>1. /\ UNCHANGED << world, age, since, have, shallow, fetchHead, depth, moves, pc, began >>
        /\ now' = now \/ (now < MaxTime /\ now' = now + 1)
    BY <1>7 DEF Tick, vars, remotes, clone, search, tale
  <2> QED
    BY <1>0, <1>2, <1>3, <2>1
<1> QED
  BY <1>1, <1>4, <1>5, <1>6, <1>7 DEF Next

\* TypeOK: what git holds are commits of the world, the shallow file and FETCH_HEAD
\* name some it has, and a process began in the past.
THEOREM TypeCorrect == Spec => []TypeOK
BY InitSteady, NextSteady, PTL DEF Spec, Steady

-----------------------------------------------------------------------------
(* Where a process stands and what record it goes by.                       *)

Slim(rec) == rec.kind # "listed" => rec.tip = NoCommit

Kinded(p) ==
    /\ Slim(mine[p])
    /\ pc[p] \in {"tags", "deepen", "unshallow", "tagged", "snapshot"} => mine[p].kind = "listed"
    /\ pc[p] \in {"merge", "look", "deepenParent", "deepenOwn", "compare"} => mine[p].kind = "parent"
    /\ pc[p] \in {"fetch", "resolve"} => mine[p].kind \in {"listed", "parent"}
    /\ pc[p] = "tags" => mine[p].tip = NoCommit

Ordered ==
    /\ Typed
    /\ file # NoRecord => Slim(file)
    /\ \A p \in Proc : Kinded(p)
    /\ \A p \in Running : head \in heads[p]

\* A fetch of another leaves the kind and the commits of a record alone.
LEMMA FetchedKeeps ==
    ASSUME Typed, NEW p \in Proc, NEW c, Fetched(p, c)
    PROVE  /\ mine'[p] = mine[p]
           /\ \A q \in Proc :
                 /\ mine'[q].kind = mine[q].kind /\ mine'[q].tip = mine[q].tip
                 /\ mine'[q].tags = mine[q].tags /\ mine'[q].parent = mine[q].parent
                 /\ mine'[q].checked = mine[q].checked
                 /\ (pc[q] # "resolve" => mine'[q] = mine[q])
<1>1. \A r \in Record : LET s == [r EXCEPT !.pure = FALSE]
                        IN  s.kind = r.kind /\ s.tip = r.tip /\ s.tags = r.tags /\ s.parent = r.parent
                            /\ s.checked = r.checked
  BY DEF Record
<1> QED
  BY <1>1 DEF Fetched, Typed

\* The same of each step of another.
LEMMA OthersRecord ==
    ASSUME Typed, NEW p \in Proc, Works(p), NEW q \in Proc, q # p
    PROVE  /\ mine'[q].kind = mine[q].kind /\ mine'[q].tip = mine[q].tip
           /\ mine'[q].tags = mine[q].tags /\ mine'[q].parent = mine[q].parent
           /\ mine'[q].checked = mine[q].checked
           /\ (pc[q] # "resolve" => mine'[q] = mine[q])
<1>1. CASE Fetch(p) \/ Unshallow(p) \/ DeepenParent(p) \/ DeepenOwn(p)
  <2>1. PICK c : Fetched(p, c)
    BY <1>1 DEF Fetch, Unshallow, DeepenParent, DeepenOwn
  <2> QED
    BY <2>1, FetchedKeeps
<1>2. CASE ~(Fetch(p) \/ Unshallow(p) \/ DeepenParent(p) \/ DeepenOwn(p))
  <2>1. mine'[q] = mine[q]
    BY <1>2 DEF Works, ReadRecord, Identify, ListTags, Resolve, Store, Deepen, UnshallowTooLate,
                Tagged, Snapshot, Merge, Look, Compare, CallFails, Fails, Typed
  <2> QED
    BY <2>1
<1> QED
  BY <1>1, <1>2

\* The steps of a process keep its place and its record in tune.
LEMMA KindedStep ==
    ASSUME Ordered, NEW p \in Proc, Works(p)
    PROVE  Kinded(p)' /\ (file' # NoRecord => Slim(file)')
<1>0. Kinded(p) /\ Typed /\ (file # NoRecord => Slim(file)) /\ p \in DOMAIN pc /\ p \in DOMAIN mine
  BY DEF Ordered, Typed
<1>a. Remote \in [kind : Kinds, tags : SUBSET Nat, tip : D]
  BY <1>0, RemoteType
<1>b. mine[p] \in Record
  BY <1>0 DEF Typed
<1>1. CASE ReadRecord(p)
  BY <1>0, <1>1 DEF ReadRecord, Fresh, Onward, Goto, Ends, Kinded, Slim, clone
<1>2. CASE Identify(p)
  BY <1>0, <1>2, <1>a DEF Identify, Nobody, Goto, Kinded, Slim, clone, Kinds
<1>3. CASE ListTags(p)
  <2>1. mine'[p].kind = mine[p].kind /\ mine'[p].tip = mine[p].tip
    BY <1>0, <1>b, <1>3 DEF ListTags, Record
  <2> QED
    BY <1>0, <1>3, <2>1 DEF ListTags, Goto, Kinded, Slim, clone
<1>4. CASE Fetch(p)
  <2>1. mine'[p] = mine[p]
    BY <1>0, <1>4, FetchedKeeps DEF Fetch
  <2> QED
    BY <1>0, <1>4, <2>1 DEF Fetch, Goto, Kinded, Slim
<1>5. CASE Resolve(p)
  <2>1. /\ mine'[p].kind = mine[p].kind
        /\ mine[p].kind = "parent" => mine'[p].tip = mine[p].tip
    BY <1>0, <1>b, <1>5 DEF Resolve, Record
  <2> QED
    BY <1>0, <1>5, <2>1 DEF Resolve, Goto, Kinded, Slim, clone
<1>6. CASE Store(p)
  BY <1>0, <1>6 DEF Store, Onward, Goto, Ends, Kinded, Slim, clone
<1>7. CASE Deepen(p)
  BY <1>0, <1>7 DEF Deepen, Goto, Kinded, Slim, clone
<1>8. CASE Unshallow(p)
  <2>1. mine'[p] = mine[p]
    BY <1>0, <1>8, FetchedKeeps DEF Unshallow
  <2> QED
    BY <1>0, <1>8, <2>1 DEF Unshallow, Goto, Kinded, Slim
<1>9. CASE UnshallowTooLate(p)
  BY <1>0, <1>9 DEF UnshallowTooLate, Refuses, Goto, Kinded, Slim, clone
<1>10. CASE Tagged(p)
  BY <1>0, <1>10 DEF Tagged, Ends, Goto, Kinded, Slim, clone
<1>11. CASE Snapshot(p)
  BY <1>0, <1>11 DEF Snapshot, Ends, Refuses, Goto, Kinded, Slim, clone
<1>12. CASE Merge(p)
  BY <1>0, <1>12 DEF Merge, Ends, Goto, Kinded, Slim, clone
<1>13. CASE Look(p)
  BY <1>0, <1>13 DEF Look, Refuses, Goto, Kinded, Slim, clone
<1>14. CASE DeepenParent(p)
  <2>1. mine'[p] = mine[p]
    BY <1>0, <1>14, FetchedKeeps DEF DeepenParent
  <2> QED
    BY <1>0, <1>14, <2>1 DEF DeepenParent, Goto, Kinded, Slim
<1>15. CASE DeepenOwn(p)
  <2>1. mine'[p] = mine[p]
    BY <1>0, <1>15, FetchedKeeps DEF DeepenOwn
  <2> QED
    BY <1>0, <1>15, <2>1 DEF DeepenOwn, Goto, Kinded, Slim
<1>16. CASE Compare(p)
  BY <1>0, <1>16 DEF Compare, Ends, Refuses, Goto, Kinded, Slim, clone
<1>17. CASE CallFails(p)
  BY <1>0, <1>17 DEF CallFails, Fails, Refuses, Goto, Kinded, Slim, clone
<1> QED
  BY <1>1, <1>2, <1>3, <1>4, <1>5, <1>6, <1>7, <1>8, <1>9, <1>10, <1>11, <1>12, <1>13, <1>14,
     <1>15, <1>16, <1>17 DEF Works

\* Ordered holds at first.
LEMMA InitOrdered == Init => Ordered
BY InitTyped DEF Init, Ordered, Kinded, Slim, Nobody, Running

\* Each step keeps Ordered.
LEMMA NextOrdered == Ordered /\ [Next]_vars => Ordered'
<1> SUFFICES ASSUME Ordered, [Next]_vars PROVE Ordered'
  OBVIOUS
<1>0. Typed /\ Typed'
  BY NextTyped DEF Ordered
<1>1. ASSUME NEW p \in Proc, Works(p) PROVE Ordered'
  <2>1. Kinded(p)' /\ (file' # NoRecord => Slim(file)')
    BY <1>1, KindedStep
  <2>2. ASSUME NEW q \in Proc, q # p PROVE Kinded(q)'
    <3>1. pc'[q] = pc[q] /\ mine'[q].kind = mine[q].kind /\ mine'[q].tip = mine[q].tip
      BY <1>0, <1>1, <2>2, OwnStep, OthersRecord
    <3> QED
      BY <3>1 DEF Ordered, Kinded, Slim
  <2>3. ASSUME NEW q \in Running' PROVE head' \in heads'[q]
    <3>1. q \in Running
      BY <1>0, <1>1, OwnStep DEF Running, Step, Spot, Typed
    <3> QED
      BY <1>0, <1>1, <3>1, OwnStep DEF Ordered
  <2> QED
    BY <1>0, <2>1, <2>2, <2>3 DEF Ordered
<1>2. ASSUME NEW p \in Proc, Begin(p) PROVE Ordered'
  <2>1. \A q \in Proc : Kinded(q)'
    BY <1>0, <1>2 DEF Begin, Goto, Typed, Ordered, Kinded, Slim, clone
  <2>2. \A q \in Running' : head' \in heads'[q]
    BY <1>0, <1>2 DEF Begin, Goto, Typed, Ordered, Running, clone
  <2> QED
    BY <1>0, <1>2, <2>1, <2>2 DEF Begin, Ordered, Slim
<1>3. CASE RemoteMoves \/ Prune \/ Tick \/ UNCHANGED vars
  <2>1. UNCHANGED << head, heads, file, pc, mine >>
    BY <1>3 DEF RemoteMoves, Prune, Tick, vars, clone, tale
  <2> QED
    BY <1>0, <2>1 DEF Ordered, Kinded, Slim, Running
<1>4. CASE Checkout
  <2>1. UNCHANGED << file, pc, mine >> /\ \A q \in Running : head' \in heads'[q]
    BY <1>4 DEF Checkout, Running
  <2> QED
    BY <1>0, <2>1 DEF Ordered, Kinded, Slim, Running
<1>5. CASE UserFetch
  <2>1. /\ UNCHANGED << file, pc, head, heads >>
        /\ \A q \in Proc : mine'[q].kind = mine[q].kind /\ mine'[q].tip = mine[q].tip
    <3>1. \A r \in Record : LET s == [r EXCEPT !.pure = FALSE] IN s.kind = r.kind /\ s.tip = r.tip
      BY DEF Record
    <3> QED
      BY <1>0, <1>5, <3>1 DEF UserFetch, Typed, tale
  <2> QED
    BY <1>0, <2>1 DEF Ordered, Kinded, Slim, Running
<1> QED
  BY <1>1, <1>2, <1>3, <1>4, <1>5 DEF Next

-----------------------------------------------------------------------------
(* The network is asked once.                                               *)

Alone(p) == pc[p] # "idle" /\ others[p] = {}

Origins == Ancestors(world.origin)
Found(h, c) == {h, c} \subseteq have /\ Common(h, c) # {}

\* Where two commits have a common ancestor git finds a merge base, one of them.
LEMMA BaseFound ==
    ASSUME Typed, NEW h \in D, NEW c
    PROVE  /\ Found(h, c) <=> MergeBase(h, c) # NoCommit
           /\ Found(h, c) => MergeBase(h, c) \in Common(h, c)
<1>1. CASE Found(h, c)
  <2> DEFINE S == Common(h, c)
             R == Reach(shallow)
  <2>1. \A d \in D : R[d] \subseteq 1..d /\ 1..d \subseteq D
    BY ReachBelow, WorldType DEF Typed
  <2>2. S \subseteq 1..h /\ S # {} /\ h \in Nat
    BY <1>1, <2>1, WorldType DEF Found, Common, Seen, Typed
  <2>3. PICK m \in S : \A e \in S : e <= m
    BY <2>2, LargestMember
  <2>4. \A d \in S \ {m} : m \notin R[d]
    <3> SUFFICES ASSUME NEW d \in S, d # m, m \in R[d] PROVE FALSE
      OBVIOUS
    <3>1. d \in D /\ d \in Nat /\ m \in Nat
      BY <2>1, <2>2
    <3>2. m \in 1..d
      BY <2>1, <3>1
    <3> QED
      BY <2>3, <3>1, <3>2
  <2>5. m \in Best(S, R)
    BY <2>3, <2>4 DEF Best
  <2>6. \A e \in Best(S, R) : m >= e
    BY <2>2, <2>3 DEF Best
  <2>7. Max(Best(S, R)) \in Best(S, R)
    BY <2>5, <2>6 DEF Max
  <2>8. Max(Best(S, R)) \in Nat /\ Max(Best(S, R)) \in S
    BY <2>2, <2>7 DEF Best
  <2> QED
    BY <1>1, <2>8, ConstantsAssumption DEF MergeBase, Found
<1>2. CASE ~Found(h, c)
  BY <1>2 DEF MergeBase, Found
<1> QED
  BY <1>1, <1>2

\* What a process that has answered leaves to the next one.
Leaves(p) ==
    /\ file = mine[p]
    /\ mine[p].kind = "listed" => shallow \cap Origins = {}
    /\ \A h : heads[p] = {h} =>
          /\ mine[p].kind = "parent" => Found(h, mine[p].parent)
          /\ mine[p].kind = "listed" => Seen(h) \cap mine[p].tags # {} \/ mine[p].tip \in have

\* What a process left is there as long as the file, the shallow file and the
\* commits are.
LEMMA LeavesStays ==
    ASSUME NEW p, Leaves(p), file' = file, mine'[p] = mine[p], heads'[p] = heads[p],
           world' = world, shallow' = shallow, have \subseteq have'
    PROVE  Leaves(p)'
<1>1. Reach(shallow)' = Reach(shallow) /\ Origins' = Origins
  BY DEF Reach, Origins, Ancestors
<1>2. \A c : Seen(c) \subseteq Seen(c)'
  BY <1>1 DEF Seen
<1>3. \A a, b : Found(a, b) => Found(a, b)'
  BY <1>2 DEF Found, Common
<1> QED
  BY <1>1, <1>2, <1>3 DEF Leaves

Past == {"deepen", "unshallow", "tagged", "snapshot", "merge", "look", "deepenParent", "deepenOwn",
         "compare", "done"}

\* A process beside which nobody ran.
Own(p) ==
    Alone(p) =>
        /\ Running \subseteq {p}
        /\ pc[p] \in Past => file = mine[p]
        /\ mine[p].kind = "listed" /\ (pc[p] \in {"tagged", "fetch", "resolve", "snapshot"}
                                       \/ (pc[p] = "store" /\ mine[p].tip # NoCommit))
              => shallow \cap Origins = {}
        /\ pc[p] = "done" => Leaves(p)

\* Why the process after p may go to the network all the same.
Excused(p, q) ==
    \/ now > mine[p].checked + CacheTTL
    \/ /\ mine[q].kind = "listed" /\ shallow # {} /\ shallow \cap Origins = {}
       /\ pc[q] \notin {"cached", "identify", "tags"}
    \/ ~\E h : heads[p] = {h} /\ heads[q] = {h}

\* A process that began when p had answered, and nobody else since.
Follows(p, q) ==
    p # q /\ pc[p] = "done" /\ pc[q] # "idle" /\ others[p] = {q} /\ others[q] = {} =>
        \/ Excused(p, q)
        \/ /\ ~asked[q] /\ Leaves(p)
           /\ pc[q] # "cached" => mine[q] = mine[p]
           /\ pc[q] \in {"cached", "deepen", "tagged", "snapshot", "merge", "done", "refused"}

Succession ==
    /\ Ordered
    /\ \A p \in Proc : pc[p] = "idle" => ~asked[p]
    /\ \A p \in Proc : \A r \in others[p] : pc[r] # "idle" \/ p \in others[p]
    /\ \A p \in Proc : Own(p)
    /\ \A p, q \in Proc : Follows(p, q)

\* The steps of a process that runs alone.
LEMMA OwnKept ==
    ASSUME Succession, NEW p \in Proc, Works(p), Alone(p)
    PROVE  Own(p)'
<1>0. /\ Typed /\ Kinded(p) /\ Own(p) /\ p \in DOMAIN pc /\ p \in DOMAIN mine
      /\ Running \subseteq {p} /\ p \in Running
  <2>1. Typed /\ Kinded(p) /\ Own(p)
    BY DEF Succession, Ordered
  <2>2. pc[p] \in Step
    BY <2>1, OwnStep
  <2> QED
    BY <2>1, <2>2 DEF Typed, Own, Running, Step
<1>1. Running' \subseteq {p}
  <2>1. \A q \in Proc \ {p} : pc'[q] = pc[q]
    BY <1>0, OwnStep
  <2> QED
    BY <1>0, <2>1 DEF Running
<1>2. head \in heads[p] /\ head \in D /\ heads'[p] = heads[p] /\ world' = world /\ head' = head
  BY <1>0, OwnStep, WorldType DEF Succession, Ordered, Typed, remotes
<1>3. Origins' = Origins
  BY <1>2 DEF Origins, Ancestors, Reach
<1>4. mine[p] \in Record
  BY <1>0 DEF Typed
<1>5. ASSUME pc'[p] \notin {"done", "tagged", "fetch", "resolve", "snapshot", "store"},
             pc'[p] \in Past => file' = mine'[p]
      PROVE  Own(p)'
  BY <1>1, <1>5 DEF Own
<1>6. ASSUME pc'[p] \in {"tagged", "fetch", "resolve", "snapshot", "store"},
             pc'[p] \in Past => file' = mine'[p],
             mine'[p].kind = "listed" /\ (pc'[p] = "store" => mine'[p].tip # NoCommit)
                => (shallow \cap Origins = {})'
      PROVE  Own(p)'
  BY <1>1, <1>6 DEF Own
<1>7. ASSUME pc'[p] = "done", Leaves(p)' PROVE Own(p)'
  BY <1>1, <1>7 DEF Own, Leaves
<1>8. CASE ReadRecord(p)
  <2>1. CASE Fresh(file) /\ file.kind = "plain"
    <3>1. pc'[p] = "done" /\ mine'[p] = file /\ file' = file
      BY <1>0, <1>8, <2>1 DEF ReadRecord, Onward, Goto, Ends
    <3> QED
      BY <1>7, <2>1, <3>1 DEF Leaves
  <2>2. CASE ~(Fresh(file) /\ file.kind = "plain")
    <3>1. pc'[p] \in {"deepen", "merge", "identify"} /\ (pc'[p] # "identify" => mine'[p] = file) /\ file' = file
      BY <1>0, <1>8, <2>2 DEF ReadRecord, Onward, Goto, Ends
    <3> QED
      BY <1>5, <3>1 DEF Past
  <2> QED
    BY <2>1, <2>2
<1>9. CASE Identify(p)
  <2>1. Remote \in [kind : Kinds, tags : SUBSET Nat, tip : D]
    BY <1>0, RemoteType
  <2>2. mine'[p].kind = Remote.kind /\ mine'[p].tip = NoCommit /\ Remote.kind \in Kinds
    BY <1>0, <1>9, <2>1 DEF Identify, Nobody
  <2>3. pc'[p] \in {"store", "tags", "fetch"} /\ (pc'[p] = "fetch" => Remote.kind = "parent")
    BY <1>0, <1>9, <2>2 DEF Identify, Goto, Kinds
  <2> QED
    BY <1>5, <1>6, <2>2, <2>3 DEF Past
<1>10. CASE ListTags(p)
  <2>1. mine'[p].tip = NoCommit /\ pc'[p] = "store"
    BY <1>0, <1>4, <1>10 DEF ListTags, Kinded, Goto, Record
  <2> QED
    BY <1>6, <2>1 DEF Past
<1>11. CASE Fetch(p)
  <2>1. pc'[p] = "resolve" /\ mine'[p] = mine[p] /\ pc[p] = "fetch"
    BY <1>0, <1>11, FetchedKeeps DEF Fetch, Goto
  <2>2. mine[p].kind = "listed" => shallow' = shallow
    BY <1>11 DEF Fetch, Bring
  <2> QED
    BY <1>0, <1>3, <1>6, <2>1, <2>2 DEF Own, Past
<1>12. CASE Resolve(p)
  <2>1. pc'[p] = "store" /\ mine'[p].kind = mine[p].kind /\ pc[p] = "resolve" /\ shallow' = shallow
    BY <1>0, <1>4, <1>12 DEF Resolve, Goto, Record, clone
  <2> QED
    BY <1>0, <1>3, <1>6, <2>1 DEF Own, Past
<1>13. CASE Store(p)
  <2>1. /\ file' = mine[p] /\ mine'[p] = mine[p] /\ pc[p] = "store" /\ UNCHANGED << have, shallow >>
        /\ \/ mine[p].tip # NoCommit /\ pc'[p] = "snapshot"
           \/ pc'[p] = "done" /\ mine[p].kind = "plain"
           \/ pc'[p] \in {"deepen", "merge"}
    BY <1>0, <1>13 DEF Store, Onward, Goto, Ends, clone
  <2>2. CASE pc'[p] = "done" /\ mine[p].kind = "plain"
    BY <1>7, <2>1, <2>2 DEF Leaves
  <2>3. CASE mine[p].tip # NoCommit /\ pc'[p] = "snapshot"
    BY <1>0, <1>3, <1>6, <2>1, <2>3 DEF Own
  <2>4. CASE pc'[p] \in {"deepen", "merge"}
    BY <1>5, <2>1, <2>4
  <2> QED
    BY <2>1, <2>2, <2>3, <2>4
<1>14. CASE Deepen(p)
  <2>1. /\ UNCHANGED << file, mine, shallow >> /\ pc[p] = "deepen"
        /\ pc'[p] = IF shallow = {} THEN "tagged" ELSE "unshallow"
    BY <1>0, <1>14 DEF Deepen, Goto, clone
  <2> QED
    BY <1>0, <1>5, <1>6, <2>1 DEF Own, Past
<1>15. CASE Unshallow(p)
  <2>1. /\ file' = file /\ mine'[p] = mine[p] /\ pc[p] = "unshallow" /\ pc'[p] = "tagged"
        /\ shallow' = shallow \ Origins
    BY <1>0, <1>15, FetchedKeeps DEF Unshallow, Goto, Origins
  <2>2. (shallow \cap Origins = {})'
    BY <1>3, <2>1
  <2> QED
    BY <1>0, <1>6, <2>1, <2>2 DEF Own, Past
<1>16. CASE UnshallowTooLate(p)
  <2>1. pc'[p] = "refused"
    BY <1>0, <1>16 DEF UnshallowTooLate, Refuses, Goto
  <2> QED
    BY <1>5, <2>1 DEF Past
<1>17. CASE Tagged(p)
  <2>1. /\ UNCHANGED << file, mine, have, shallow >> /\ pc[p] = "tagged" /\ file = mine[p]
        /\ mine[p].kind = "listed" /\ shallow \cap Origins = {}
    BY <1>0, <1>17 DEF Tagged, clone, Own, Past, Kinded
  <2>2. CASE Seen(head) \cap mine[p].tags # {}
    <3>1. pc'[p] = "done"
      BY <1>0, <1>17, <2>2 DEF Tagged, Ends, Goto
    <3>2. \A h : heads[p] = {h} => h = head
      BY <1>2
    <3>3. Leaves(p)
      BY <2>1, <2>2, <3>2 DEF Leaves
    <3>4. Leaves(p)'
      BY <1>2, <2>1, <3>3, LeavesStays
    <3> QED
      BY <1>7, <3>1, <3>4
  <2>3. CASE Seen(head) \cap mine[p].tags = {}
    <3>1. pc'[p] \in {"snapshot", "fetch"}
      BY <1>0, <1>17, <2>3 DEF Tagged, Goto
    <3> QED
      BY <1>3, <1>6, <2>1, <3>1
  <2> QED
    BY <2>2, <2>3
<1>18. CASE Snapshot(p)
  <2>1. /\ UNCHANGED << file, mine, have, shallow >> /\ pc[p] = "snapshot" /\ file = mine[p]
        /\ mine[p].kind = "listed" /\ shallow \cap Origins = {}
    BY <1>0, <1>18 DEF Snapshot, clone, Own, Past, Kinded
  <2>2. CASE mine[p].tip \in have
    <3>1. pc'[p] = "done"
      BY <1>0, <1>18, <2>2 DEF Snapshot, Ends, Goto
    <3>2. Leaves(p)
      BY <2>1, <2>2 DEF Leaves
    <3>3. Leaves(p)'
      BY <1>2, <2>1, <3>2, LeavesStays
    <3> QED
      BY <1>7, <3>1, <3>3
  <2>3. CASE mine[p].tip \notin have
    <3>1. pc'[p] = "refused"
      BY <1>0, <1>18, <2>3 DEF Snapshot, Refuses, Goto
    <3> QED
      BY <1>5, <3>1 DEF Past
  <2> QED
    BY <2>2, <2>3
<1>19. ASSUME Merge(p) \/ Compare(p) PROVE Own(p)'
  <2>1. /\ UNCHANGED << file, mine, have, shallow >> /\ file = mine[p] /\ mine[p].kind = "parent"
        /\ pc'[p] \in {"done", "look", "refused", "merge"}
        /\ pc'[p] = "done" => MergeBase(head, mine[p].parent) # NoCommit
    BY <1>0, <1>19 DEF Merge, Compare, clone, Own, Past, Kinded, Goto, Ends, Refuses
  <2>2. CASE pc'[p] = "done"
    <3>1. Found(head, mine[p].parent)
      BY <1>0, <1>2, <2>1, <2>2, BaseFound
    <3>2. \A h : heads[p] = {h} => h = head
      BY <1>2
    <3>3. Leaves(p)
      BY <2>1, <3>1, <3>2 DEF Leaves
    <3>4. Leaves(p)'
      BY <1>2, <2>1, <3>3, LeavesStays
    <3> QED
      BY <1>7, <2>2, <3>4
  <2>3. CASE pc'[p] # "done"
    BY <1>5, <2>1, <2>3 DEF Past
  <2> QED
    BY <2>2, <2>3
<1>20. ASSUME Look(p) \/ DeepenParent(p) \/ DeepenOwn(p) PROVE Own(p)'
  <2>1. mine'[p] = mine[p]
    <3>1. CASE Look(p)
      BY <3>1 DEF Look
    <3>2. CASE DeepenParent(p) \/ DeepenOwn(p)
      <4>1. PICK c : Fetched(p, c)
        BY <3>2 DEF DeepenParent, DeepenOwn
      <4> QED
        BY <1>0, <4>1, FetchedKeeps
    <3> QED
      BY <1>20, <3>1, <3>2
  <2>2. file' = file /\ pc[p] \in Past /\ pc'[p] \in {"deepenParent", "refused", "deepenOwn", "compare"}
    BY <1>0, <1>20 DEF Look, DeepenParent, DeepenOwn, Past, Goto, Refuses
  <2> QED
    BY <1>0, <1>5, <2>1, <2>2 DEF Own
<1>21. CASE CallFails(p)
  <2>1. pc'[p] = "refused"
    BY <1>0, <1>21 DEF CallFails, Fails, Refuses, Goto
  <2> QED
    BY <1>5, <2>1 DEF Past
<1> QED
  BY <1>8, <1>9, <1>10, <1>11, <1>12, <1>13, <1>14, <1>15, <1>16, <1>17, <1>18, <1>19, <1>20,
     <1>21 DEF Works

\* Beside a process that takes a step nobody is alone.
LEMMA OwnEverywhere ==
    ASSUME Succession, NEW p \in Proc, Works(p), NEW q \in Proc
    PROVE  Own(q)'
<1>1. Typed /\ UNCHANGED others /\ pc[p] \in Step
  BY OwnStep DEF Succession, Ordered
<1>2. CASE q = p
  <2>1. Alone(p)' => Alone(p)
    BY <1>1 DEF Alone, Step
  <2> QED
    BY <1>2, <2>1, OwnKept DEF Own
<1>3. CASE q # p
  <2>1. Alone(q)' => Alone(q) /\ p \in Running
    BY <1>1, <1>3, OwnStep DEF Alone, Running, Step
  <2> QED
    BY <1>3, <2>1 DEF Succession, Own
<1> QED
  BY <1>2, <1>3

\* The steps of the process that follows.
LEMMA FollowerKept ==
    ASSUME Succession, NEW a \in Proc, NEW b \in Proc, Works(b), a # b, pc[a] = "done",
           others[a] = {b}, others[b] = {}
    PROVE  Follows(a, b)'
<1>0. /\ Typed /\ Kinded(b) /\ b \in DOMAIN pc /\ b \in DOMAIN mine /\ b \in DOMAIN asked
      /\ pc[b] \in Step /\ mine[a] \in Record /\ mine[b] \in Record /\ Follows(a, b) /\ b \in Running
  <2>1. Typed /\ Kinded(b) /\ Follows(a, b)
    BY DEF Succession, Ordered
  <2>2. pc[b] \in Step
    BY <2>1, OwnStep
  <2> QED
    BY <2>1, <2>2 DEF Typed, Running, Step
<1>1. /\ UNCHANGED << world, head, now >> /\ heads'[a] = heads[a] /\ heads'[b] = heads[b]
      /\ mine'[a] = mine[a] /\ head \in heads[b] /\ head \in D
      /\ Origins' = Origins
  <2>1. UNCHANGED << world, head, now, heads >>
    BY <1>0, OwnStep DEF remotes
  <2>2. mine'[a] = mine[a]
    BY <1>0, OthersRecord
  <2>3. head \in heads[b] /\ head \in D
    BY <1>0, WorldType DEF Succession, Ordered, Typed
  <2> QED
    BY <2>1, <2>2, <2>3 DEF Origins, Ancestors, Reach
<1>2. CASE Excused(a, b)
  <2>1. CASE now > mine[a].checked + CacheTTL \/ ~\E h : heads[a] = {h} /\ heads[b] = {h}
    BY <1>1, <2>1 DEF Follows, Excused
  <2>2. CASE /\ mine[b].kind = "listed" /\ shallow # {} /\ shallow \cap Origins = {}
             /\ pc[b] \notin {"cached", "identify", "tags"}
    <3>1. mine'[b].kind = mine[b].kind
      <4>1. CASE Fetch(b) \/ Unshallow(b) \/ DeepenParent(b) \/ DeepenOwn(b)
        <5>1. PICK c : Fetched(b, c)
          BY <4>1 DEF Fetch, Unshallow, DeepenParent, DeepenOwn
        <5> QED
          BY <1>0, <5>1, FetchedKeeps
      <4>2. CASE Resolve(b)
        BY <1>0, <4>2 DEF Resolve, Record
      <4>3. CASE ~(Fetch(b) \/ Unshallow(b) \/ DeepenParent(b) \/ DeepenOwn(b) \/ Resolve(b))
        BY <2>2, <4>3 DEF Works, ReadRecord, Identify, ListTags, Store, Deepen, UnshallowTooLate,
                          Tagged, Snapshot, Merge, Look, Compare, CallFails, Fails
      <4> QED
        BY <4>1, <4>2, <4>3
    <3>2. shallow' = shallow
      <4>1. CASE Fetch(b)
        BY <2>2, <4>1 DEF Fetch, Bring
      <4>2. CASE Unshallow(b)
        BY <2>2, <4>2 DEF Unshallow, Origins
      <4>3. CASE DeepenParent(b) \/ DeepenOwn(b)
        BY <1>0, <2>2, <4>3 DEF DeepenParent, DeepenOwn, Kinded
      <4>4. CASE ~(Fetch(b) \/ Unshallow(b) \/ DeepenParent(b) \/ DeepenOwn(b))
        BY <4>4 DEF Works, ReadRecord, Identify, ListTags, Resolve, Store, Deepen, UnshallowTooLate,
                    Tagged, Snapshot, Merge, Look, Compare, CallFails, Fails, clone
      <4> QED
        BY <4>1, <4>2, <4>3, <4>4
    <3>3. pc'[b] \notin {"cached", "identify", "tags"}
      BY <1>0, <2>2 DEF Works, ReadRecord, Identify, ListTags, Fetch, Resolve, Store, Deepen,
           Unshallow, UnshallowTooLate, Tagged, Snapshot, Merge, Look, DeepenParent, DeepenOwn,
           Compare, CallFails, Fails, Refuses, Ends, Goto, Onward
    <3> QED
      BY <1>1, <2>2, <3>1, <3>2, <3>3 DEF Follows, Excused
  <2> QED
    BY <1>2, <2>1, <2>2 DEF Excused
<1>3. CASE ~Excused(a, b)
  <2>0. /\ ~asked[b] /\ Leaves(a)
        /\ pc[b] # "cached" => mine[b] = mine[a]
        /\ pc[b] \in {"cached", "deepen", "tagged", "snapshot", "merge", "done", "refused"}
    BY <1>0, <1>3 DEF Follows, Step
  <2>1. PICK h : heads[a] = {h} /\ heads[b] = {h}
    BY <1>3 DEF Excused
  <2>2. h = head
    BY <1>1, <2>1
  <2>3. ASSUME UNCHANGED << file, have, shallow, asked >>, mine'[b] = mine[a],
               pc'[b] \in {"deepen", "tagged", "snapshot", "merge", "done", "refused"}
        PROVE  Follows(a, b)'
    <3>1. Leaves(a)'
      BY <1>1, <2>0, <2>3, LeavesStays
    <3>2. (\/ Excused(a, b)
           \/ /\ ~asked[b] /\ Leaves(a)
              /\ pc[b] # "cached" => mine[b] = mine[a]
              /\ pc[b] \in {"cached", "deepen", "tagged", "snapshot", "merge", "done", "refused"})'
      BY <1>1, <2>0, <2>3, <3>1
    <3> QED
      BY <3>2 DEF Follows
  <2>4. CASE pc[b] = "cached"
    <3>1. ReadRecord(b)
      BY <2>4 DEF Works, ReadRecord, Identify, ListTags, Fetch, Resolve, Store, Deepen, Unshallow,
           UnshallowTooLate, Tagged, Snapshot, Merge, Look, DeepenParent, DeepenOwn, Compare,
           CallFails
    <3>2. file = mine[a] /\ file # NoRecord
      BY <1>0, <2>0, ConstantsAssumption DEF Leaves
    <3>3. now - file.checked <= CacheTTL
      BY <1>0, <1>3, <3>2, ConstantsAssumption DEF Excused, Typed, Record
    <3>4. file.kind = "parent" => file.parent \in have
      BY <2>0, <2>1, <3>2 DEF Leaves, Found
    <3>5. Fresh(file)
      BY <3>2, <3>3, <3>4 DEF Fresh
    <3>6. /\ UNCHANGED << file, have, shallow, asked >> /\ mine'[b] = mine[a]
          /\ pc'[b] \in {"deepen", "merge", "done"}
      BY <1>0, <3>1, <3>2, <3>5 DEF ReadRecord, Onward, Goto, Ends, clone, tale
    <3> QED
      BY <2>3, <3>6
  <2>5. CASE pc[b] = "deepen"
    <3>1. Deepen(b)
      BY <2>5 DEF Works, ReadRecord, Identify, ListTags, Fetch, Resolve, Store, Deepen, Unshallow,
           UnshallowTooLate, Tagged, Snapshot, Merge, Look, DeepenParent, DeepenOwn, Compare,
           CallFails
    <3>2. /\ UNCHANGED << file, have, shallow, asked, mine >>
          /\ pc'[b] = IF shallow = {} THEN "tagged" ELSE "unshallow"
      BY <1>0, <3>1 DEF Deepen, Goto, clone, tale
    <3>3. CASE shallow = {}
      BY <2>0, <2>3, <2>5, <3>2, <3>3
    <3>4. CASE shallow # {}
      <4>1. mine[b].kind = "listed" /\ shallow \cap Origins = {}
        BY <1>0, <2>0, <2>5 DEF Kinded, Leaves
      <4>2. Excused(a, b)'
        BY <1>1, <3>2, <3>4, <4>1 DEF Excused
      <4> QED
        BY <4>2 DEF Follows
    <3> QED
      BY <3>3, <3>4
  <2>6. CASE pc[b] = "tagged"
    <3>1. Tagged(b)
      BY <2>6 DEF Works, ReadRecord, Identify, ListTags, Fetch, Resolve, Store, Deepen, Unshallow,
           UnshallowTooLate, Tagged, Snapshot, Merge, Look, DeepenParent, DeepenOwn, Compare,
           CallFails
    <3>2. mine[a].kind = "listed" /\ mine[b] = mine[a]
      BY <1>0, <2>0, <2>6 DEF Kinded
    <3>3. Seen(head) \cap mine[b].tags # {} \/ mine[b].tip \in have
      BY <2>0, <2>1, <2>2, <3>2 DEF Leaves
    <3>4. UNCHANGED << file, have, shallow, asked, mine >> /\ pc'[b] \in {"done", "snapshot"}
      BY <1>0, <3>1, <3>3 DEF Tagged, Goto, Ends, clone, tale
    <3> QED
      BY <2>3, <3>2, <3>4
  <2>7. CASE pc[b] = "snapshot"
    <3>1. Snapshot(b)
      BY <2>7 DEF Works, ReadRecord, Identify, ListTags, Fetch, Resolve, Store, Deepen, Unshallow,
           UnshallowTooLate, Tagged, Snapshot, Merge, Look, DeepenParent, DeepenOwn, Compare,
           CallFails
    <3>2. UNCHANGED << file, have, shallow, asked, mine >> /\ pc'[b] \in {"done", "refused"}
      BY <1>0, <3>1 DEF Snapshot, Goto, Ends, Refuses, clone, tale
    <3> QED
      BY <2>0, <2>3, <2>7, <3>2
  <2>8. CASE pc[b] = "merge"
    <3>1. Merge(b)
      BY <2>8 DEF Works, ReadRecord, Identify, ListTags, Fetch, Resolve, Store, Deepen, Unshallow,
           UnshallowTooLate, Tagged, Snapshot, Merge, Look, DeepenParent, DeepenOwn, Compare,
           CallFails
    <3>2. mine[a].kind = "parent" /\ mine[b] = mine[a]
      BY <1>0, <2>0, <2>8 DEF Kinded
    <3>3. Found(head, mine[b].parent)
      BY <2>0, <2>1, <2>2, <3>2 DEF Leaves
    <3>4. MergeBase(head, mine[b].parent) # NoCommit
      BY <1>0, <1>1, <3>3, BaseFound
    <3>5. UNCHANGED << file, have, shallow, asked, mine >> /\ pc'[b] = "done"
      BY <1>0, <3>1, <3>4 DEF Merge, Goto, Ends, clone, tale
    <3> QED
      BY <2>3, <3>2, <3>5
  <2> QED
    BY <1>0, <2>0, <2>4, <2>5, <2>6, <2>7, <2>8 DEF Step
<1> QED
  BY <1>2, <1>3

\* Succession holds at first.
LEMMA InitSuccession == Init => Succession
BY InitOrdered DEF Init, Succession, Alone, Own, Follows

\* Each step keeps Succession.
LEMMA NextSuccession == Succession /\ [Next]_vars => Succession'
<1> SUFFICES ASSUME Succession, [Next]_vars PROVE Succession'
  OBVIOUS
<1>0. Typed /\ Ordered /\ Ordered'
  BY NextOrdered DEF Succession, Ordered
<1> DEFINE Quiet == \A p \in Proc : pc[p] = "idle" => ~asked[p]
           Rest  == \A p \in Proc : \A r \in others[p] : pc[r] # "idle" \/ p \in others[p]
<1>a. Quiet /\ Rest /\ (\A p \in Proc : Own(p)) /\ \A p, q \in Proc : Follows(p, q)
  BY DEF Succession
<1>1. ASSUME NEW p \in Proc, Works(p) PROVE Succession'
  <2>1. /\ UNCHANGED << now, heads, others >> /\ pc[p] \in Step /\ pc'[p] # "idle"
        /\ \A q \in Proc \ {p} : pc'[q] = pc[q] /\ asked'[q] = asked[q]
    BY <1>0, <1>1, OwnStep
  <2>2. Quiet' /\ Rest'
    <3>1. Quiet'
      BY <1>a, <2>1
    <3>2. ASSUME NEW q \in Proc, NEW r \in others'[q] PROVE pc'[r] # "idle" \/ q \in others'[q]
      <4>1. r \in Proc
        BY <1>0, <2>1 DEF Typed
      <4> QED
        BY <1>a, <2>1, <4>1
    <3> QED
      BY <3>1, <3>2
  <2>3. \A q \in Proc : Own(q)'
    BY <1>1, OwnEverywhere
  <2>4. ASSUME NEW a \in Proc, NEW b \in Proc PROVE Follows(a, b)'
    <3> SUFFICES ASSUME a # b, pc'[a] = "done", pc'[b] # "idle", others[a] = {b}, others[b] = {}
                 PROVE  Follows(a, b)'
      BY <2>1 DEF Follows
    <3>1. Alone(b) /\ p \in Running
      BY <2>1 DEF Alone, Running, Step
    <3>2. p = b
      BY <1>a, <3>1 DEF Own
    <3> QED
      BY <1>1, <2>1, <3>2, FollowerKept
  <2> QED
    BY <1>0, <2>2, <2>3, <2>4 DEF Succession
<1>2. ASSUME NEW p \in Proc, Begin(p) PROVE Succession'
  <2>1. /\ UNCHANGED << world, have, shallow, file, now, mine, asked >> /\ pc[p] = "idle" /\ pc'[p] = "cached"
        /\ \A q \in Proc \ {p} : pc'[q] = pc[q] /\ heads'[q] = heads[q]
        /\ others'[p] = Running
        /\ \A q \in Proc \ {p} : others'[q] = IF pc[q] = "idle" THEN others[q] ELSE others[q] \cup {p}
        /\ \A q \in Proc : pc[q] = "idle" => q \notin Running
    BY <1>0, <1>2 DEF Begin, Goto, Typed, remotes, clone, Running
  <2>2. Quiet'
    BY <1>a, <2>1
  <2>3. ASSUME NEW q \in Proc, NEW r \in others'[q] PROVE pc'[r] # "idle" \/ q \in others'[q]
    <3>1. CASE q = p
      <4>1. r \in Proc /\ pc[r] # "idle"
        BY <2>1, <3>1 DEF Running
      <4> QED
        BY <2>1, <4>1
    <3>2. CASE q # p /\ r = p
      BY <2>1, <3>2
    <3>3. CASE q # p /\ r # p
      <4>0. r \in others[q]
        <5>1. others'[q] = IF pc[q] = "idle" THEN others[q] ELSE others[q] \cup {p}
          BY <2>1, <3>3
        <5>2. r \in others'[q] /\ r # p
          BY <3>3
        <5> QED
          BY <5>1, <5>2
      <4>1. r \in others[q] /\ r \in Proc
        <5>1. others[q] \subseteq Proc
          BY <1>0 DEF Typed
        <5> QED
          BY <4>0, <5>1
      <4>2. pc[r] # "idle" \/ q \in others[q]
        BY <1>a, <4>1
      <4>3. others[q] \subseteq others'[q] /\ pc'[r] = pc[r]
        BY <2>1, <3>3, <4>1
      <4> QED
        BY <4>2, <4>3
    <3> QED
      BY <3>1, <3>2, <3>3
  <2>4. ASSUME NEW q \in Proc PROVE Own(q)'
    <3>1. CASE q = p
      <4>1. Alone(p)' => Running' \subseteq {p}
        BY <2>1 DEF Alone, Running
      <4> QED
        BY <2>1, <3>1, <4>1 DEF Own, Past
    <3>2. CASE q # p
      BY <2>1, <3>2 DEF Own, Alone
    <3> QED
      BY <3>1, <3>2
  <2>5. ASSUME NEW a \in Proc, NEW b \in Proc PROVE Follows(a, b)'
    <3> SUFFICES ASSUME a # b, pc'[a] = "done", pc'[b] # "idle", others'[a] = {b}, others'[b] = {}
                 PROVE  Follows(a, b)'
      BY DEF Follows
    <3>1. a # p /\ pc[a] = "done" /\ others'[a] = others[a] \cup {p}
      BY <2>1
    <3>2. b = p
      BY <3>1
    <3>3. p \notin others[a]
      BY <1>a, <2>1, <3>1, <3>2
    <3>4. Leaves(a)
      BY <1>a, <3>1, <3>2, <3>3 DEF Own, Alone
    <3>5. Leaves(a)'
      BY <2>1, <3>1, <3>4, LeavesStays
    <3>6. ~asked'[b] /\ pc'[b] = "cached"
      BY <1>a, <2>1, <3>2
    <3> QED
      BY <3>5, <3>6 DEF Follows
  <2> QED
    BY <1>0, <2>2, <2>3, <2>4, <2>5 DEF Succession
<1>3. ASSUME UNCHANGED << world, shallow, file, pc, asked, others >>, have \subseteq have',
             \A q \in Proc : mine'[q] = mine[q] \/
                (mine'[q].kind = mine[q].kind /\ mine'[q].tip = mine[q].tip /\ pc[q] = "resolve"),
             \A q \in Proc \ Running : heads'[q] = heads[q],
             \A q \in Running : heads'[q] = heads[q] \/ \A h : heads'[q] # {h},
             now <= now', now' \in Nat
      PROVE  Succession'
  <2>1. Quiet' /\ Rest'
    <3> HIDE DEF Quiet, Rest
    <3> QED
      BY <1>a, <1>3 DEF Quiet, Rest
  <2>2. Origins' = Origins /\ \A q \in Proc : Alone(q)' = Alone(q) /\ Running' = Running
    BY <1>3 DEF Origins, Ancestors, Reach, Alone, Running
  <2>3. ASSUME NEW q \in Proc, pc[q] = "done", Leaves(q) PROVE Leaves(q)'
    <3>1. mine'[q] = mine[q] /\ heads'[q] = heads[q]
      BY <1>3, <2>3 DEF Running
    <3> QED
      BY <1>3, <2>3, <3>1, LeavesStays
  <2>4. ASSUME NEW q \in Proc PROVE Own(q)'
    <3>1. mine'[q].kind = mine[q].kind /\ mine'[q].tip = mine[q].tip /\ (pc[q] \in Past => mine'[q] = mine[q])
      BY <1>3 DEF Past
    <3> QED
      BY <1>3, <1>a, <2>2, <2>3, <3>1 DEF Own
  <2>5. ASSUME NEW a \in Proc, NEW b \in Proc PROVE Follows(a, b)'
    <3> SUFFICES ASSUME a # b, pc[a] = "done", pc[b] # "idle", others[a] = {b}, others[b] = {}
                 PROVE  Follows(a, b)'
      BY <1>3 DEF Follows
    <3>1. Follows(a, b) /\ mine'[a] = mine[a] /\ heads'[a] = heads[a]
      BY <1>a, <1>3 DEF Running
    <3>2. Excused(a, b) => Excused(a, b)'
      <4>1. mine'[b].kind = mine[b].kind /\ (heads'[b] = heads[b] \/ \A h : heads'[b] # {h})
        BY <1>3
      <4>2. now > mine[a].checked + CacheTTL => now' > mine[a].checked + CacheTTL
        BY <1>0, <1>3, ConstantsAssumption DEF Typed, Record
      <4> QED
        BY <1>3, <2>2, <3>1, <4>1, <4>2 DEF Excused
    <3>3. ASSUME ~Excused(a, b) PROVE Follows(a, b)'
      <4>1. /\ ~asked[b] /\ Leaves(a)
            /\ pc[b] # "cached" => mine[b] = mine[a]
            /\ pc[b] \in {"cached", "deepen", "tagged", "snapshot", "merge", "done", "refused"}
        BY <3>1, <3>3 DEF Follows
      <4>2. mine'[b] = mine[b] /\ Leaves(a)'
        BY <1>3, <2>3, <4>1
      <4> QED
        BY <1>3, <3>1, <4>1, <4>2 DEF Follows
    <3> QED
      BY <3>2, <3>3 DEF Follows
  <2> QED
    BY <1>0, <2>1, <2>4, <2>5 DEF Succession
<1>4. CASE RemoteMoves \/ Tick \/ UNCHANGED vars
  <2>1. /\ UNCHANGED << world, shallow, file, pc, asked, others, have, mine, heads >>
        /\ now <= now' /\ now' \in Nat
    BY <1>0, <1>4 DEF RemoteMoves, Tick, vars, remotes, clone, tale, Typed
  <2> QED
    BY <1>3, <2>1
<1>5. CASE Checkout
  <2>1. PICK c \in (world.heads \cap have) \ {head} :
          heads' = [p \in Proc |-> IF p \in Running THEN heads[p] \cup {c} ELSE heads[p]]
    BY <1>5 DEF Checkout
  <2>2. \A q \in Running : q \in Proc /\ head \in heads[q]
    BY <1>0 DEF Ordered, Running
  <2>3. /\ UNCHANGED << world, shallow, file, pc, asked, others, have, mine, now >> /\ now \in Nat
        /\ \A q \in Proc \ Running : heads'[q] = heads[q]
        /\ \A q \in Running : \A h : heads'[q] # {h}
    BY <1>0, <1>5, <2>1, <2>2 DEF Checkout, remotes, Typed
  <2> QED
    BY <1>3, <2>3
<1>6. CASE UserFetch
  <2>1. \A r \in Record : LET s == [r EXCEPT !.pure = FALSE] IN s.kind = r.kind /\ s.tip = r.tip
    BY DEF Record
  <2>2. /\ UNCHANGED << world, shallow, file, pc, asked, others, heads, now >> /\ now \in Nat
        /\ have \subseteq have'
        /\ \A q \in Proc : mine'[q] = mine[q] \/
                (mine'[q].kind = mine[q].kind /\ mine'[q].tip = mine[q].tip /\ pc[q] = "resolve")
    BY <1>0, <1>6, <2>1 DEF UserFetch, Bring, remotes, tale, Typed
  <2> QED
    BY <1>3, <2>2
<1>7. CASE Prune
  <2>1. UNCHANGED << pc, asked >> /\ \A q \in Proc : others'[q] = Proc
    BY <1>7 DEF Prune
  <2>2. \A q \in Proc : Own(q)'
    BY <2>1 DEF Own, Alone
  <2>3. \A a, b \in Proc : Follows(a, b)'
    BY <2>1 DEF Follows
  <2> QED
    BY <1>0, <1>a, <2>1, <2>2, <2>3 DEF Succession
<1> QED
  BY <1>1, <1>2, <1>4, <1>5, <1>6, <1>7 DEF Next

\* AsksOnce: the second of two processes that answered one after the other does
\* not go to the network while the record of the first holds.
THEOREM AskedOnce == Spec => []AsksOnce
<1>1. Succession => AsksOnce
  <2> SUFFICES ASSUME Succession, NEW p \in Proc, NEW q \in Proc,
                      p # q, {pc[p], pc[q]} = {"done"}, others[p] = {q}, others[q] = {},
                      heads[p] = {head}, heads[q] = {head}, now <= mine[p].checked + CacheTTL,
                      mine[q].kind = "listed" => shallow = {}
               PROVE  ~asked[q]
    BY DEF AsksOnce
  <2>1. pc[p] = "done" /\ pc[q] = "done" /\ Follows(p, q)
    BY DEF Succession
  <2>2. mine[p].checked \in Nat /\ now \in Nat
    BY DEF Succession, Ordered, Typed, Record
  <2>3. ~(now > mine[p].checked + CacheTTL)
    BY <2>2, ConstantsAssumption
  <2>4. ~Excused(p, q)
    BY <2>3 DEF Excused
  <2> QED
    BY <2>1, <2>4 DEF Follows
<1> QED
  BY <1>1, InitSuccession, NextSuccession, PTL DEF Spec

-----------------------------------------------------------------------------
(* The base is right in a whole clone.                                      *)

\* The clone holds whole histories, and HEAD's among them.
Whole ==
    /\ shallow = {}
    /\ have \subseteq D /\ world.heads \subseteq have
    /\ \A c \in have : Ancestors(c) \subseteq have

\* What the network said at the time t or later.
Heard(t) == {world.says[k] : k \in {n \in 1..age : n = age \/ since[n+1] >= t}}

\* A record says what the network said when it was made or later, each thing at
\* its own time.
Spoken(rec) ==
    /\ rec.checked <= now
    /\ \E a \in Heard(rec.checked) : a.kind = rec.kind
    /\ rec.kind = "listed" => \E a \in Heard(rec.checked) : a.tags = rec.tags
    /\ rec.pure /\ rec.kind = "parent" => \E a \in Heard(rec.checked) : a.tip = rec.parent
    /\ rec.pure /\ rec.tip # NoCommit => \E a \in Heard(rec.checked) : a.tip = rec.tip

\* What BaseIsRight says of an answer.
Fits(x, h, i, a, b, c) ==
    \/ a.kind = "plain" /\ x = NoCommit
    \/ a.kind = "parent" /\ x = TrueBase(h, b.tip)
    \/ /\ a.kind = "listed"
       /\ LET named == Ancestors(h) \cap b.tags
          IN  x = IF named # {} THEN Max(named) ELSE TrueSnapshot(i, c.tip)
Answers(p, x) == \E h, i \in heads[p], a, b, c \in Said(p) : Fits(x, h, i, a, b, c)

Settled == {"store", "deepen", "tagged", "snapshot", "merge", "look"}
Unnamed(p, rec) == \E h \in heads[p] : Ancestors(h) \cap rec.tags = {}

\* What holds of a process that stands at the step at with the record rec, when
\* FETCH_HEAD is fetched and its answer x.
InformedBy(p, at, rec, fetched, x) ==
    /\ rec.checked <= now /\ began[p] <= now
    /\ at \notin {"unshallow", "deepenParent", "deepenOwn", "compare"}
    /\ at \in {"tags", "fetch", "resolve"} \cup Settled =>
          /\ began[p] <= rec.checked + CacheTTL
          /\ \E a \in Heard(rec.checked) : a.kind = rec.kind
    /\ at \in {"fetch", "resolve"} /\ rec.kind = "listed" => \E a \in Heard(rec.checked) : a.tags = rec.tags
    /\ at = "resolve" /\ rec.pure => \E a \in Heard(rec.checked) : a.tip = fetched
    /\ at \in Settled => Spoken(rec)
    /\ rec.kind = "listed" /\ (at \in {"fetch", "resolve", "snapshot"} \/ (at = "store" /\ rec.tip # NoCommit))
          => Unnamed(p, rec)
    /\ at = "done" /\ rec.pure => Answers(p, x)

Informed(p) == InformedBy(p, pc[p], mine[p], fetchHead, answer[p])

Faithful ==
    /\ Ordered /\ Whole
    /\ file # NoRecord => Spoken(file)
    /\ \A p \in Proc : Informed(p)

\* In a whole clone git sees what there is.
LEMMA WholeSees ==
    ASSUME Typed, Whole, NEW h \in have, NEW t \in have
    PROVE  Seen(h) = Ancestors(h) /\ MergeBase(h, t) = TrueBase(h, t)
<1>1. \A c \in have : Seen(c) = Ancestors(c)
  BY DEF Whole, Seen, Ancestors
<1>2. Common(h, t) = Ancestors(h) \cap Ancestors(t) /\ Reach(shallow) = Reach({})
  BY <1>1 DEF Common, Whole
<1> QED
  BY <1>1, <1>2 DEF MergeBase, TrueBase

\* A fetch leaves a whole clone whole.
LEMMA WholeGrows ==
    ASSUME Typed, Whole, NEW c \in D, have' = have \cup Ancestors(c), shallow' = {}, world' = world
    PROVE  Whole'
<1>1. D' = D /\ \A d : Ancestors(d)' = Ancestors(d)
  BY DEF D, Ancestors, Reach
<1>2. Ancestors(c) \subseteq D /\ \A d \in Ancestors(c) : Ancestors(d) \subseteq Ancestors(c)
  BY ReachBelow, Transitive, WorldType DEF Typed, Ancestors
<1> QED
  BY <1>1, <1>2 DEF Whole

\* The truth about two commits is the world's alone.
LEMMA TruthStays ==
    ASSUME world' = world
    PROVE  \A h, t : Ancestors(h)' = Ancestors(h) /\ TrueBase(h, t)' = TrueBase(h, t)
                     /\ TrueSnapshot(h, t)' = TrueSnapshot(h, t)
<1>1. \A h : Ancestors(h)' = Ancestors(h) /\ Reach({})' = Reach({})
  BY DEF Ancestors, Reach
<1>2. \A h, t : TrueBase(h, t)' = TrueBase(h, t)
  BY <1>1 DEF TrueBase
<1>3. \A c, reached : FirstParents(c, reached, {})' = FirstParents(c, reached, {})
  BY DEF FirstParents
<1>4. \A set, c : Closest(set, c)' = Closest(set, c)
  BY DEF Closest, Far
<1>5. \A h, t : TrueSnapshot(h, t)' = TrueSnapshot(h, t)
  BY <1>1, <1>2, <1>3, <1>4 DEF TrueSnapshot
<1> QED
  BY <1>1, <1>2, <1>5

\* A record that still answers holds nothing the network did not say in time.
LEMMA HeardIsSaid ==
    ASSUME Typed, NEW p \in Proc, NEW t \in Nat, began[p] <= t + CacheTTL
    PROVE  Heard(t) \subseteq Said(p)
<1>1. \A n \in 1..age : n = age \/ since[n+1] \in Nat
  BY DEF Typed
<1>2. began[p] \in Nat /\ CacheTTL \in Nat
  BY ConstantsAssumption DEF Typed
<1>3. \A n \in 1..age : n = age \/ since[n+1] >= t => n = age \/ since[n+1] + CacheTTL >= began[p]
  BY <1>1, <1>2
<1> QED
  BY <1>3 DEF Heard, Said

\* What is heard stays heard.
LEMMA HeardGrows ==
    ASSUME Typed, RemoteMoves \/ UNCHANGED remotes
    PROVE  /\ \A t \in Nat : t <= now => Heard(t) \subseteq Heard(t)'
           /\ \A p \in Proc : began[p] <= now /\ began'[p] = began[p] => Said(p) \subseteq Said(p)'
<1>1. CASE UNCHANGED remotes
  BY <1>1 DEF remotes, Heard, Said
<1>2. CASE RemoteMoves
  <2>1. /\ since \in Seq(Nat) /\ Len(since) = age /\ age \in Nat /\ now \in Nat
        /\ age' = age + 1 /\ since' = Append(since, now) /\ world' = world
    BY <1>2 DEF RemoteMoves, Typed
  <2>2. \A n \in 1..age : IF n = age THEN since'[n+1] = now ELSE since'[n+1] = since[n+1]
    BY <2>1
  <2>3. 1..age \subseteq 1..age'
    BY <2>1
  <2>4. ASSUME NEW t \in Nat, t <= now PROVE Heard(t) \subseteq Heard(t)'
    <3>1. ASSUME NEW n \in 1..age, n = age \/ since[n+1] >= t PROVE since'[n+1] >= t
      BY <2>1, <2>2, <2>4, <3>1
    <3> QED
      BY <2>1, <2>3, <3>1 DEF Heard
  <2>5. ASSUME NEW p \in Proc, began[p] <= now, began'[p] = began[p] PROVE Said(p) \subseteq Said(p)'
    <3>1. began[p] \in Nat /\ CacheTTL \in Nat
      BY ConstantsAssumption DEF Typed
    <3>2. ASSUME NEW n \in 1..age, n = age \/ since[n+1] + CacheTTL >= began[p]
          PROVE  since'[n+1] + CacheTTL >= began[p]
      BY <2>1, <2>2, <2>5, <3>1, <3>2
    <3> QED
      BY <2>1, <2>3, <2>5, <3>2 DEF Said
  <2> QED
    BY <2>4, <2>5
<1> QED
  BY <1>1, <1>2

\* What a record says stays true.
LEMMA SpokenStays ==
    ASSUME Typed, RemoteMoves \/ UNCHANGED remotes, now <= now', now' \in Nat, NEW rec \in Record, Spoken(rec)
    PROVE  Spoken(rec)'
<1>1. rec.checked \in Nat /\ rec.checked <= now /\ now \in Nat
  BY DEF Record, Spoken, Typed
<1>2. Heard(rec.checked) \subseteq Heard(rec.checked)' /\ rec.checked <= now'
  BY <1>1, HeardGrows
<1> QED
  BY <1>2 DEF Spoken

\* Of a process, what others do only impairs a record that has yet to read
\* FETCH_HEAD.
LEMMA InformedStays ==
    ASSUME Typed, NEW q \in Proc, Informed(q), RemoteMoves \/ UNCHANGED remotes,
           world' = world, now <= now', now' \in Nat,
           pc'[q] = pc[q], began'[q] = began[q], answer'[q] = answer[q], heads[q] \subseteq heads'[q],
           \/ mine'[q] = mine[q] /\ (pc[q] = "resolve" => fetchHead' = fetchHead)
           \/ mine'[q] = [mine[q] EXCEPT !.pure = FALSE] /\ pc[q] = "resolve"
    PROVE  Informed(q)'
<1>0. mine[q] \in Record /\ mine[q].checked \in Nat /\ began[q] \in Nat /\ now \in Nat
  BY DEF Typed, Record
<1>1. /\ mine'[q].kind = mine[q].kind /\ mine'[q].tags = mine[q].tags /\ mine'[q].checked = mine[q].checked
      /\ mine'[q].tip = mine[q].tip
      /\ mine'[q] # mine[q] => pc[q] = "resolve" /\ mine'[q].pure = FALSE
      /\ pc[q] = "resolve" /\ mine'[q].pure => mine'[q] = mine[q] /\ fetchHead' = fetchHead
  BY <1>0 DEF Record
<1>a. PICK t \in Nat : t = mine[q].checked /\ t = mine'[q].checked
  BY <1>0, <1>1
<1>b. PICK r \in Record : r = mine[q]
  BY <1>0
<1>2. Heard(t) \subseteq Heard(t)' /\ Said(q) \subseteq Said(q)'
  BY <1>0, <1>a, HeardGrows DEF Informed, InformedBy
<1>3. mine[q].checked <= now' /\ began[q] <= now'
  BY <1>0 DEF Informed, InformedBy
<1>5. pc[q] \in Settled => mine'[q] = r /\ Spoken(r)'
  <2> SUFFICES ASSUME pc[q] \in Settled PROVE mine'[q] = r /\ Spoken(r)'
    OBVIOUS
  <2>1. mine'[q] = r /\ Spoken(r)
    BY <1>1, <1>b DEF Settled, Informed, InformedBy
  <2> QED
    BY <2>1, SpokenStays
<1>6. Unnamed(q, mine[q]) => Unnamed(q, mine[q])'
  BY <1>1, TruthStays DEF Unnamed
<1>7. Answers(q, answer[q]) => Answers(q, answer[q])'
  <2> SUFFICES ASSUME Answers(q, answer[q]) PROVE Answers(q, answer[q])'
    OBVIOUS
  <2>1. PICK x : x = answer[q] /\ x = answer'[q]
    OBVIOUS
  <2>2. PICK h, i \in heads[q], a, b, c \in Said(q) : Fits(x, h, i, a, b, c)
    BY <2>1 DEF Answers
  <2>3. h \in heads'[q] /\ i \in heads'[q] /\ a \in Said(q)' /\ b \in Said(q)' /\ c \in Said(q)'
    BY <1>2
  <2>4. Fits(x, h, i, a, b, c)'
    <3>1. /\ Ancestors(h)' = Ancestors(h) /\ TrueBase(h, b.tip)' = TrueBase(h, b.tip)
          /\ TrueSnapshot(i, c.tip)' = TrueSnapshot(i, c.tip)
      BY TruthStays
    <3> QED
      BY <2>2, <3>1 DEF Fits
  <2> QED
    BY <2>1, <2>3, <2>4 DEF Answers
<1>8. mine'[q].checked <= now' /\ began'[q] <= now' /\ pc'[q] \notin {"unshallow", "deepenParent", "deepenOwn", "compare"}
  BY <1>1, <1>3 DEF Informed, InformedBy
<1>9. pc'[q] \in {"tags", "fetch", "resolve"} \cup Settled =>
          /\ began'[q] <= mine'[q].checked + CacheTTL
          /\ \E a \in Heard(t)' : a.kind = mine'[q].kind
  BY <1>1, <1>2, <1>a DEF Informed, InformedBy
<1>10. pc'[q] \in {"fetch", "resolve"} /\ mine'[q].kind = "listed" =>
          \E a \in Heard(t)' : a.tags = mine'[q].tags
  BY <1>1, <1>2, <1>a DEF Informed, InformedBy
<1>11. pc'[q] = "resolve" /\ mine'[q].pure => \E a \in Heard(t)' : a.tip = fetchHead'
  BY <1>1, <1>2, <1>a DEF Informed, InformedBy
<1>12. mine'[q].kind = "listed" /\ (pc'[q] \in {"fetch", "resolve", "snapshot"}
                                   \/ (pc'[q] = "store" /\ mine'[q].tip # NoCommit)) => Unnamed(q, mine[q])'
  BY <1>1, <1>6 DEF Informed, InformedBy
<1>13. pc'[q] = "done" /\ mine'[q].pure => Answers(q, answer[q])'
  BY <1>1, <1>7 DEF Informed, InformedBy
<1>14. pc'[q] \in Settled => Spoken(mine[q])'
  <2> SUFFICES ASSUME pc'[q] \in Settled PROVE Spoken(mine[q])'
    OBVIOUS
  <2>1. mine'[q] = r /\ Spoken(r)'
    BY <1>5
  <2> QED
    BY <2>1 DEF Spoken, Heard
<1>15. (Heard(mine[q].checked))' = Heard(t)'
  BY <1>a DEF Heard
<1> QED
  BY <1>8, <1>9, <1>10, <1>11, <1>12, <1>13, <1>14, <1>15 DEF Informed, InformedBy, Settled

\* What a process knows is told in terms that its own step leaves alone.
LEMMA InformedSame ==
    ASSUME Typed, NEW p \in Proc, UNCHANGED << remotes, now, began, heads >>,
           InformedBy(p, pc'[p], mine'[p], fetchHead', answer'[p])
    PROVE  Informed(p)'
<1>1. PICK at, r, f, x : at = pc'[p] /\ r = mine'[p] /\ f = fetchHead' /\ x = answer'[p]
  OBVIOUS
<1>2. Said(p)' = Said(p) /\ \A t : Heard(t)' = Heard(t)
  BY DEF Said, Heard, remotes
<1>3. Answers(p, x) => Answers(p, x)'
  <2> SUFFICES ASSUME Answers(p, x) PROVE Answers(p, x)'
    OBVIOUS
  <2>1. PICK h, i \in heads[p], a, b, c \in Said(p) : Fits(x, h, i, a, b, c)
    BY DEF Answers
  <2>2. Fits(x, h, i, a, b, c)'
    <3>1. /\ Ancestors(h)' = Ancestors(h) /\ TrueBase(h, b.tip)' = TrueBase(h, b.tip)
          /\ TrueSnapshot(i, c.tip)' = TrueSnapshot(i, c.tip)
      BY TruthStays DEF remotes
    <3> QED
      BY <2>1, <3>1 DEF Fits
  <2> QED
    BY <1>2, <2>2 DEF Answers
<1>4. Spoken(r) => Spoken(r)'
  BY <1>2 DEF Spoken
<1>5. Unnamed(p, r) => Unnamed(p, r)'
  BY TruthStays DEF Unnamed, remotes
<1>6. InformedBy(p, at, r, f, x)'
  <2>1. InformedBy(p, at, r, f, x)
    BY <1>1
  <2> QED
    BY <1>2, <1>3, <1>4, <1>5, <2>1 DEF InformedBy
<1> QED
  BY <1>1, <1>6 DEF Informed

\* The answer of a process, given what its record says.
LEMMA AnswersRight ==
    ASSUME Ordered, Whole, NEW p \in Proc, p \in Running, NEW rec \in Record, Spoken(rec), rec.pure,
           began[p] <= rec.checked + CacheTTL
    PROVE  /\ rec.kind = "plain" => Answers(p, NoCommit)
           /\ rec.kind = "parent" /\ Found(head, rec.parent) => Answers(p, MergeBase(head, rec.parent))
           /\ rec.kind = "listed" /\ Seen(head) \cap rec.tags # {} => Answers(p, Max(Seen(head) \cap rec.tags))
           /\ rec.kind = "listed" /\ Unnamed(p, rec) /\ rec.tip # NoCommit
                 => Answers(p, TrueSnapshot(head, rec.tip))
<1>1. /\ Typed /\ head \in heads[p] /\ head \in have
      /\ Heard(rec.checked) \subseteq Said(p)
  <2>1. Typed /\ head \in heads[p] /\ head \in have
    BY DEF Ordered, Typed, Whole
  <2>2. rec.checked \in Nat
    BY DEF Record
  <2> QED
    BY <2>1, <2>2, HeardIsSaid
<1>2. PICK a \in Said(p) : a.kind = rec.kind
  BY <1>1 DEF Spoken
<1>3. CASE rec.kind = "plain"
  <2>1. Fits(NoCommit, head, head, a, a, a)
    BY <1>2, <1>3 DEF Fits
  <2> QED
    BY <1>1, <1>3, <2>1 DEF Answers
<1>4. CASE rec.kind = "parent"
  <2> SUFFICES ASSUME Found(head, rec.parent) PROVE Answers(p, MergeBase(head, rec.parent))
    BY <1>4
  <2>1. PICK b \in Said(p) : b.tip = rec.parent
    BY <1>1, <1>4 DEF Spoken
  <2>2. MergeBase(head, rec.parent) = TrueBase(head, b.tip)
    BY <1>1, <2>1, WholeSees DEF Found
  <2>3. Fits(MergeBase(head, rec.parent), head, head, a, b, b)
    BY <1>2, <1>4, <2>2 DEF Fits
  <2> QED
    BY <1>1, <2>3 DEF Answers
<1>5. CASE rec.kind = "listed"
  <2>1. PICK b \in Said(p) : b.tags = rec.tags
    BY <1>1, <1>5 DEF Spoken
  <2>2. ASSUME Seen(head) \cap rec.tags # {} PROVE Answers(p, Max(Seen(head) \cap rec.tags))
    <3>1. Seen(head) = Ancestors(head)
      BY <1>1, WholeSees
    <3>2. Fits(Max(Seen(head) \cap rec.tags), head, head, a, b, b)
      BY <1>2, <1>5, <2>1, <2>2, <3>1 DEF Fits
    <3> QED
      BY <1>1, <3>2 DEF Answers
  <2>3. ASSUME Unnamed(p, rec), rec.tip # NoCommit PROVE Answers(p, TrueSnapshot(head, rec.tip))
    <3>1. PICK h \in heads[p] : Ancestors(h) \cap rec.tags = {}
      BY <2>3 DEF Unnamed
    <3>2. PICK c \in Said(p) : c.tip = rec.tip
      BY <1>1, <2>3 DEF Spoken
    <3>3. Fits(TrueSnapshot(head, rec.tip), h, head, a, b, c)
      BY <1>2, <1>5, <2>1, <3>1, <3>2 DEF Fits
    <3> QED
      BY <1>1, <3>3 DEF Answers
  <2> QED
    BY <1>5, <2>2, <2>3
<1> QED
  BY <1>3, <1>4, <1>5

\* In a whole clone the snapshot is what the whole histories say.
LEMMA SnapshotRight ==
    ASSUME Ordered, Whole, NEW p \in Proc, p \in DOMAIN pc, Snapshot(p), mine[p].tip \in have
    PROVE  pc'[p] = "done" /\ answer'[p] = TrueSnapshot(head, mine[p].tip)
<1>1. Typed /\ head \in have /\ head \in D
  BY DEF Ordered, Typed, Whole
<1> DEFINE tip == mine[p].tip
           base == MergeBase(head, tip)
           reached == IF base = NoCommit THEN {} ELSE Seen(base)
           after == FirstParents(tip, reached, shallow)
<1>2. base = TrueBase(head, tip)
  BY <1>1, WholeSees
<1>3. base # NoCommit => Seen(base) = Ancestors(base)
  <2>1. base # NoCommit => base \in have
    BY <1>1, BaseFound DEF Common, Seen
  <2> HIDE DEF base
  <2> QED
    BY <1>1, <2>1, WholeSees
<1>4. pc'[p] = "done" /\ answer'[p] = Newer(Closest(after \cup ({base} \ {NoCommit}), head), base)
  BY <1>1 DEF Snapshot, Ends, Goto, Typed
<1>5. TrueSnapshot(head, tip) = Newer(Closest(after \cup ({base} \ {NoCommit}), head), base)
  BY <1>2, <1>3 DEF TrueSnapshot, Whole
<1> QED
  BY <1>4, <1>5

\* The steps of a process in a whole clone.
LEMMA InformedStep ==
    ASSUME Faithful, NEW p \in Proc, Works(p)
    PROVE  Informed(p)' /\ Whole' /\ (file' # NoRecord => Spoken(file)')
<1>0. /\ Ordered /\ Typed /\ Kinded(p) /\ Whole /\ shallow = {} /\ p \in DOMAIN pc /\ p \in DOMAIN mine
      /\ p \in DOMAIN answer /\ mine[p] \in Record
      /\ InformedBy(p, pc[p], mine[p], fetchHead, answer[p])
      /\ now \in Nat /\ began[p] \in Nat /\ CacheTTL \in Nat /\ mine[p].checked \in Nat
  <2>1. Ordered /\ Typed /\ Kinded(p) /\ Whole /\ InformedBy(p, pc[p], mine[p], fetchHead, answer[p])
    BY DEF Faithful, Ordered, Informed
  <2>2. p \in DOMAIN answer
    BY <2>1 DEF Typed
  <2> QED
    BY <2>1, <2>2, ConstantsAssumption DEF Typed, Record, Whole
<1>1. UNCHANGED << remotes, head, now, began, heads >> /\ world' = world /\ p \in Running
  BY <1>0, OwnStep DEF Running, Step, remotes
<1>2. \A t : Heard(t)' = Heard(t)
  BY <1>1 DEF Heard, remotes
<1>3. \A r : Spoken(r) => Spoken(r)'
  BY <1>1, <1>2 DEF Spoken
<1>4. file' # NoRecord => Spoken(file)'
  <2>1. PICK r : r = file'
    OBVIOUS
  <2>2. r # NoRecord => Spoken(r)
    <3>1. CASE file' = file
      BY <2>1, <3>1 DEF Faithful
    <3>2. CASE pc[p] = "store" /\ file' = mine[p]
      BY <1>0, <2>1, <3>2 DEF InformedBy, Settled
    <3> QED
      BY <1>0, <3>1, <3>2, RecordStep
  <2>3. r # NoRecord => Spoken(r)'
    BY <1>3, <2>2
  <2> QED
    BY <2>1, <2>3 DEF Spoken, Heard
<1>5. Remote \in Heard(now) /\ Remote \in Heard(mine[p].checked)
      /\ Remote \in [kind : Kinds, tags : SUBSET Nat, tip : D]
  <2>1. age \in 1..age
    BY <1>0, WorldType DEF Typed
  <2> QED
    BY <1>0, <2>1, RemoteType DEF Heard, Remote
<1>6. UNCHANGED << have, shallow >> => Whole'
  <2>1. \A d : Ancestors(d)' = Ancestors(d)
    BY <1>1, TruthStays
  <2> QED
    BY <1>0, <1>1, <2>1 DEF Whole, D
<1> SUFFICES Whole' /\ InformedBy(p, pc'[p], mine'[p], fetchHead', answer'[p])
  BY <1>0, <1>1, <1>4, InformedSame
<1>a. mine[p].checked <= now /\ began[p] <= now
  BY <1>0 DEF InformedBy
<1>7. CASE ReadRecord(p)
  <2>0. Whole' /\ answer'[p] \in {answer[p], NoCommit}
    BY <1>0, <1>6, <1>7 DEF ReadRecord, clone, Onward, Ends
  <2>1. CASE Fresh(file)
    <3>1. /\ mine'[p] = file /\ file \in Record /\ Spoken(file)
          /\ file.checked \in Nat /\ file.checked <= now /\ began[p] <= file.checked + CacheTTL
      <4>1. file \in Record /\ Spoken(file) /\ now - file.checked <= CacheTTL /\ file.checked \in Nat
        BY <1>0, <2>1 DEF Fresh, Faithful, Typed, Record
      <4>2. file.checked <= now
        BY <4>1 DEF Spoken
      <4>3. began[p] <= file.checked + CacheTTL
        BY <1>0, <1>a, <4>1, <4>2
      <4> QED
        BY <1>0, <1>7, <2>1, <4>1, <4>2, <4>3 DEF ReadRecord
    <3>2. \/ pc'[p] = "done" /\ file.kind = "plain" /\ answer'[p] = NoCommit
          \/ pc'[p] \in {"deepen", "merge"}
      BY <1>0, <1>7, <2>1 DEF ReadRecord, Onward, Goto, Ends
    <3>3. file.pure /\ file.kind = "plain" => Answers(p, NoCommit)
      BY <1>0, <1>1, <3>1, AnswersRight
    <3>4. \E a \in Heard(file.checked) : a.kind = file.kind
      BY <3>1 DEF Spoken
    <3> QED
      BY <1>a, <2>0, <3>1, <3>2, <3>3, <3>4 DEF InformedBy, Settled
  <2>2. CASE ~Fresh(file)
    <3>1. pc'[p] = "identify" /\ mine'[p] = mine[p]
      BY <1>0, <1>7, <2>2 DEF ReadRecord, Goto
    <3> QED
      BY <1>a, <2>0, <3>1 DEF InformedBy, Settled
  <2> QED
    BY <2>1, <2>2
<1>8. CASE Identify(p)
  <2>1. /\ Whole' /\ mine'[p] = [Nobody EXCEPT !.kind = Remote.kind, !.checked = now]
        /\ Remote.kind \in Kinds
    BY <1>0, <1>5, <1>6, <1>8 DEF Identify, clone
  <2>2. /\ mine'[p].kind = Remote.kind /\ mine'[p].checked = now /\ mine'[p].tip = NoCommit
        /\ pc'[p] \in {"store", "tags", "fetch"} /\ (pc'[p] = "fetch" => Remote.kind = "parent")
        /\ (pc'[p] = "store" => Remote.kind = "plain")
    BY <1>0, <1>8, <2>1 DEF Identify, Goto, Nobody, Kinds
  <2>3. began[p] <= now + CacheTTL /\ now <= now
    BY <1>0, <1>a
  <2>4. pc'[p] = "store" => Spoken(mine'[p])
    BY <1>5, <2>2, <2>3 DEF Spoken
  <2> QED
    BY <1>5, <1>a, <2>1, <2>2, <2>3, <2>4 DEF InformedBy, Settled
<1>9. CASE ListTags(p)
  <2>1. /\ Whole' /\ pc[p] = "tags" /\ pc'[p] = "store"
        /\ mine'[p].kind = mine[p].kind /\ mine'[p].checked = mine[p].checked /\ mine'[p].tip = NoCommit
        /\ mine'[p].kind = "listed" /\ mine'[p].tags = Remote.tags
    BY <1>0, <1>6, <1>9 DEF ListTags, clone, Goto, Record, Kinded
  <2>2. /\ began[p] <= mine[p].checked + CacheTTL
        /\ \E a \in Heard(mine[p].checked) : a.kind = mine[p].kind
    BY <1>0, <2>1 DEF InformedBy
  <2>3. Spoken(mine'[p])
    BY <1>5, <1>a, <2>1, <2>2 DEF Spoken
  <2> QED
    BY <1>a, <2>1, <2>2, <2>3 DEF InformedBy, Settled
<1>10. CASE Fetch(p)
  <2>1. /\ pc[p] = "fetch" /\ pc'[p] = "resolve" /\ mine'[p] = mine[p] /\ fetchHead' = Remote.tip
        /\ have' = have \cup Ancestors(Remote.tip) /\ shallow' = {}
    BY <1>0, <1>10, FetchedKeeps DEF Fetch, Goto, Fetched, Bring, Ancestors
  <2>2. Whole'
    BY <1>0, <1>1, <1>5, <2>1, WholeGrows
  <2> QED
    BY <1>0, <1>5, <1>a, <2>1, <2>2 DEF InformedBy, Settled
<1>11. CASE Resolve(p)
  <2>1. /\ Whole' /\ pc[p] = "resolve" /\ pc'[p] = "store" /\ mine[p].kind \in {"listed", "parent"}
        /\ mine'[p] = IF mine[p].kind = "parent" THEN [mine[p] EXCEPT !.parent = fetchHead]
                      ELSE [mine[p] EXCEPT !.tip = fetchHead]
    BY <1>0, <1>6, <1>11 DEF Resolve, clone, Goto, Kinded
  <2>2. /\ mine'[p].kind = mine[p].kind /\ mine'[p].checked = mine[p].checked
        /\ mine'[p].tags = mine[p].tags /\ mine'[p].pure = mine[p].pure
        /\ mine[p].kind = "parent" => mine'[p].parent = fetchHead /\ mine'[p].tip = NoCommit
        /\ mine[p].kind = "listed" => mine'[p].tip = fetchHead
    BY <1>0, <2>1 DEF Record, Kinded, Slim
  <2>3. /\ began[p] <= mine[p].checked + CacheTTL
        /\ \E a \in Heard(mine[p].checked) : a.kind = mine[p].kind
        /\ mine[p].kind = "listed" => \E a \in Heard(mine[p].checked) : a.tags = mine[p].tags
        /\ mine[p].pure => \E a \in Heard(mine[p].checked) : a.tip = fetchHead
        /\ mine[p].kind = "listed" => Unnamed(p, mine[p])
    BY <1>0, <2>1 DEF InformedBy
  <2>4. Spoken(mine'[p])
    BY <1>a, <2>1, <2>2, <2>3 DEF Spoken
  <2>5. mine'[p].kind = "listed" => Unnamed(p, mine'[p])
    BY <2>2, <2>3 DEF Unnamed
  <2> QED
    BY <1>a, <2>1, <2>2, <2>3, <2>4, <2>5 DEF InformedBy, Settled
<1>12. ASSUME pc[p] \in Settled, mine'[p] = mine[p], UNCHANGED << have, shallow >>,
              pc'[p] \in {"deepen", "tagged", "merge", "look", "done", "refused", "snapshot", "fetch"},
              pc'[p] \in {"snapshot", "fetch"} => mine[p].kind = "listed" /\ Unnamed(p, mine[p]),
              pc'[p] = "done" /\ mine[p].pure => Answers(p, answer'[p])
       PROVE  Whole' /\ InformedBy(p, pc'[p], mine'[p], fetchHead', answer'[p])
  <2>1. /\ Whole' /\ Spoken(mine[p]) /\ began[p] <= mine[p].checked + CacheTTL
        /\ \E a \in Heard(mine[p].checked) : a.kind = mine[p].kind
        /\ mine[p].kind = "listed" => \E a \in Heard(mine[p].checked) : a.tags = mine[p].tags
    BY <1>0, <1>6, <1>12 DEF InformedBy, Spoken
  <2> QED
    BY <1>a, <1>12, <2>1 DEF InformedBy, Settled
<1>13. pc[p] \in Settled /\ mine[p].pure =>
         /\ mine[p].kind = "plain" => Answers(p, NoCommit)
         /\ mine[p].kind = "parent" /\ Found(head, mine[p].parent) => Answers(p, MergeBase(head, mine[p].parent))
         /\ mine[p].kind = "listed" /\ Seen(head) \cap mine[p].tags # {}
               => Answers(p, Max(Seen(head) \cap mine[p].tags))
         /\ mine[p].kind = "listed" /\ Unnamed(p, mine[p]) /\ mine[p].tip # NoCommit
               => Answers(p, TrueSnapshot(head, mine[p].tip))
  <2> SUFFICES ASSUME pc[p] \in Settled, mine[p].pure
               PROVE  /\ Spoken(mine[p]) /\ began[p] <= mine[p].checked + CacheTTL
    BY <1>0, <1>1, AnswersRight
  <2> QED
    BY <1>0 DEF InformedBy
<1>14. CASE Store(p)
  <2>1. /\ pc[p] \in Settled /\ mine'[p] = mine[p] /\ UNCHANGED << have, shallow >>
        /\ \/ pc'[p] = "done" /\ mine[p].kind = "plain" /\ answer'[p] = NoCommit
           \/ pc'[p] \in {"deepen", "merge"}
           \/ pc'[p] = "snapshot" /\ mine[p].kind = "listed" /\ Unnamed(p, mine[p])
    <3>1. mine[p].tip # NoCommit => mine[p].kind = "listed" /\ (pc[p] = "store" => Unnamed(p, mine[p]))
      BY <1>0 DEF Kinded, Slim, InformedBy
    <3> QED
      BY <1>0, <1>14, <3>1 DEF Store, Onward, Goto, Ends, clone, Settled
  <2> QED
    BY <1>12, <1>13, <2>1
<1>15. CASE Deepen(p)
  <2>1. /\ pc[p] \in Settled /\ mine'[p] = mine[p] /\ UNCHANGED << have, shallow >> /\ pc'[p] = "tagged"
    BY <1>0, <1>15 DEF Deepen, Goto, clone, Settled
  <2> QED
    BY <1>12, <2>1
<1>16. CASE Tagged(p)
  <2>1. pc[p] \in Settled /\ mine'[p] = mine[p] /\ UNCHANGED << have, shallow >> /\ mine[p].kind = "listed"
    BY <1>0, <1>16 DEF Tagged, clone, Settled, Kinded
  <2>2. CASE Seen(head) \cap mine[p].tags # {}
    <3>1. pc'[p] = "done" /\ answer'[p] = Max(Seen(head) \cap mine[p].tags)
      BY <1>0, <1>16, <2>2 DEF Tagged, Goto, Ends
    <3> QED
      BY <1>12, <1>13, <2>1, <2>2, <3>1
  <2>3. CASE Seen(head) \cap mine[p].tags = {}
    <3>1. pc'[p] \in {"snapshot", "fetch"}
      BY <1>0, <1>16, <2>3 DEF Tagged, Goto
    <3>2. head \in heads[p] /\ head \in have
      BY <1>0, <1>1 DEF Ordered, Typed, Whole
    <3>3. Unnamed(p, mine[p])
      BY <1>0, <2>3, <3>2, WholeSees DEF Unnamed
    <3> QED
      BY <1>12, <2>1, <3>1, <3>3
  <2> QED
    BY <2>2, <2>3
<1>17. CASE Snapshot(p)
  <2>1. /\ pc[p] = "snapshot" /\ pc[p] \in Settled /\ mine'[p] = mine[p] /\ UNCHANGED << have, shallow >>
        /\ mine[p].kind = "listed" /\ Unnamed(p, mine[p])
    BY <1>0, <1>17 DEF Snapshot, clone, Settled, Kinded, InformedBy
  <2>2. CASE mine[p].tip \in have
    <3>1. mine[p].tip # NoCommit
      BY <1>0, <2>2, WorldType, ConstantsAssumption DEF Whole, Typed
    <3>2. pc'[p] = "done" /\ answer'[p] = TrueSnapshot(head, mine[p].tip)
      BY <1>0, <1>17, <2>2, SnapshotRight
    <3> QED
      BY <1>12, <1>13, <2>1, <3>1, <3>2
  <2>3. CASE mine[p].tip \notin have
    <3>1. pc'[p] = "refused"
      BY <1>0, <1>17, <2>3 DEF Snapshot, Refuses, Goto
    <3> QED
      BY <1>12, <2>1, <3>1
  <2> QED
    BY <2>2, <2>3
<1>18. CASE Merge(p)
  <2>1. /\ pc[p] \in Settled /\ mine'[p] = mine[p] /\ UNCHANGED << have, shallow >> /\ mine[p].kind = "parent"
        /\ \/ /\ pc'[p] = "done" /\ answer'[p] = MergeBase(head, mine[p].parent)
              /\ MergeBase(head, mine[p].parent) # NoCommit
           \/ pc'[p] = "look"
    BY <1>0, <1>18 DEF Merge, clone, Settled, Kinded, Goto, Ends
  <2>2. pc'[p] = "done" => Found(head, mine[p].parent)
    BY <1>0, <2>1, BaseFound, WorldType DEF Typed
  <2> QED
    BY <1>12, <1>13, <2>1, <2>2
<1>19. CASE Look(p)
  <2>1. pc[p] \in Settled /\ mine'[p] = mine[p] /\ UNCHANGED << have, shallow >> /\ pc'[p] = "refused"
    BY <1>0, <1>19 DEF Look, clone, Settled, Goto, Refuses
  <2> QED
    BY <1>12, <2>1
<1>20. CASE CallFails(p)
  <2>1. pc'[p] = "refused" /\ mine'[p] = mine[p] /\ UNCHANGED << have, shallow >>
    BY <1>0, <1>20 DEF CallFails, Fails, Refuses, Goto, clone
  <2> QED
    BY <1>6, <1>a, <2>1 DEF InformedBy, Settled
<1>21. ~(Unshallow(p) \/ UnshallowTooLate(p) \/ DeepenParent(p) \/ DeepenOwn(p) \/ Compare(p))
  BY <1>0 DEF Unshallow, UnshallowTooLate, DeepenParent, DeepenOwn, Compare, InformedBy
<1> QED
  BY <1>7, <1>8, <1>9, <1>10, <1>11, <1>14, <1>15, <1>16, <1>17, <1>18, <1>19, <1>20, <1>21 DEF Works

\* Faithful holds at first, where clones are whole.
LEMMA InitFaithful ==
    ASSUME \A w \in Worlds : w.clone = 0 PROVE Init => Faithful
<1> SUFFICES ASSUME Init PROVE Faithful
  OBVIOUS
<1>1. Ordered /\ Typed /\ world \in Worlds /\ world.clone = 0
  BY InitOrdered DEF Init, Ordered
<1>2. shallow = {} /\ have = UNION {Ancestors(c) : c \in world.heads}
  BY <1>1 DEF Init
<1>3. /\ world.heads \subseteq D
      /\ \A c \in D : /\ c \in Ancestors(c) /\ Ancestors(c) \subseteq D
                     /\ \A d \in Ancestors(c) : Ancestors(d) \subseteq Ancestors(c)
  BY <1>1, WorldType, ReachBelow, Transitive DEF Ancestors
<1>4. Whole
  <2>1. ASSUME NEW c \in have PROVE c \in D /\ Ancestors(c) \subseteq have
    <3>1. PICK h \in world.heads : c \in Ancestors(h)
      BY <1>2
    <3> QED
      BY <1>2, <1>3, <3>1
  <2>2. world.heads \subseteq have
    BY <1>2, <1>3
  <2> QED
    BY <1>2, <2>1, <2>2 DEF Whole
<1>5. \A p \in Proc : Informed(p)
  BY <1>1 DEF Init, Informed, InformedBy, Settled, Nobody
<1>6. file = NoRecord
  BY DEF Init
<1> QED
  BY <1>1, <1>4, <1>5, <1>6 DEF Faithful

\* The steps of others, and of the user's git, leave the clone whole.
LEMMA PruneKeepsWhole == ASSUME Typed, Whole, Prune PROVE Whole'
<1>1. /\ UNCHANGED world /\ shallow' = shallow \cap have'
      /\ have' = have \cap UNION {Seen(c) : c \in (world.heads \cup {fetchHead}) \cap have}
  BY DEF Prune, remotes
<1>2. \A c \in have : /\ Seen(c) = Ancestors(c) /\ c \in D
                     /\ \A d \in Ancestors(c) : Ancestors(d) \subseteq Ancestors(c)
  <2>1. \A c \in have : Seen(c) = Ancestors(c)
    BY WholeSees
  <2>2. have \subseteq D /\ world \in Worlds
    BY DEF Whole, Typed
  <2> QED
    BY <2>1, <2>2, Transitive
<1>3. \A c : Ancestors(c)' = Ancestors(c)
  BY <1>1, TruthStays
<1>4. world.heads \subseteq have'
  <2> SUFFICES ASSUME NEW h \in world.heads PROVE h \in have'
    OBVIOUS
  <2>1. h \in have /\ h \in Ancestors(h)
    BY <1>2, ReachBelow DEF Typed, Whole, Ancestors
  <2> QED
    BY <1>1, <1>2, <2>1
<1>5. ASSUME NEW d \in have' PROVE Ancestors(d) \subseteq have'
  <2>1. PICK c \in (world.heads \cup {fetchHead}) \cap have : d \in Ancestors(c)
    BY <1>1, <1>2
  <2>2. Ancestors(d) \subseteq Ancestors(c) /\ Ancestors(d) \subseteq have
    BY <1>1, <1>2, <2>1 DEF Whole
  <2> QED
    BY <1>1, <1>2, <2>1, <2>2
<1> QED
  BY <1>1, <1>3, <1>4, <1>5 DEF Whole, D

\* Each step keeps Faithful.
LEMMA NextFaithful == Faithful /\ [Next]_vars => Faithful'
<1> SUFFICES ASSUME Faithful, [Next]_vars PROVE Faithful'
  OBVIOUS
<1>0. Ordered /\ Typed /\ Whole /\ Ordered' /\ Typed' /\ \A q \in Proc : Informed(q)
  BY NextOrdered DEF Faithful, Ordered
<1>1. ASSUME RemoteMoves \/ UNCHANGED remotes, world' = world, now <= now', now' \in Nat, file' = file
      PROVE  file' # NoRecord => Spoken(file)'
  <2> SUFFICES ASSUME file' # NoRecord PROVE Spoken(file)'
    OBVIOUS
  <2>1. PICK r \in Record : r = file
    BY <1>0, <1>1 DEF Typed
  <2>2. Spoken(r)'
    BY <1>0, <1>1, <2>1, SpokenStays DEF Faithful
  <2> QED
    BY <1>1, <2>1, <2>2 DEF Spoken, Heard
<1>2. UNCHANGED << world, have, shallow >> => Whole'
  <2> SUFFICES ASSUME UNCHANGED << world, have, shallow >> PROVE Whole'
    OBVIOUS
  <2>1. \A d : Ancestors(d)' = Ancestors(d)
    BY TruthStays
  <2> QED
    BY <1>0, <2>1 DEF Whole, D
<1>3. now \in Nat /\ now <= now
  BY <1>0 DEF Typed
<1>4. ASSUME NEW p \in Proc, Works(p) PROVE Faithful'
  <2>1. Informed(p)' /\ Whole' /\ (file' # NoRecord => Spoken(file)')
    BY <1>4, InformedStep
  <2>2. ASSUME NEW q \in Proc, q # p PROVE Informed(q)'
    <3>1. /\ UNCHANGED << remotes, now, began, heads >> /\ world' = world
          /\ pc'[q] = pc[q] /\ answer'[q] = answer[q] /\ heads[q] \subseteq heads'[q]
      BY <1>0, <1>4, <2>2, OwnStep DEF remotes
    <3>2. \/ mine'[q] = mine[q] /\ (pc[q] = "resolve" => fetchHead' = fetchHead)
          \/ mine'[q] = [mine[q] EXCEPT !.pure = FALSE] /\ pc[q] = "resolve"
      <4>1. CASE Fetch(p) \/ Unshallow(p) \/ DeepenParent(p) \/ DeepenOwn(p)
        <5>1. PICK c : Fetched(p, c)
          BY <4>1 DEF Fetch, Unshallow, DeepenParent, DeepenOwn
        <5> QED
          BY <1>0, <2>2, <5>1 DEF Fetched, Typed
      <4>2. CASE ~(Fetch(p) \/ Unshallow(p) \/ DeepenParent(p) \/ DeepenOwn(p))
        BY <1>0, <1>4, <2>2, <4>2
           DEF Works, ReadRecord, Identify, ListTags, Resolve, Store, Deepen, UnshallowTooLate,
               Tagged, Snapshot, Merge, Look, Compare, CallFails, Fails, Typed, clone
      <4> QED
        BY <4>1, <4>2
    <3> QED
      BY <1>0, <1>3, <3>1, <3>2, InformedStays
  <2> QED
    BY <1>0, <2>1, <2>2 DEF Faithful
<1>5. ASSUME NEW p \in Proc, Begin(p) PROVE Faithful'
  <2>1. /\ UNCHANGED << remotes, clone, file, now, mine, answer >> /\ pc'[p] = "cached" /\ began'[p] = now
        /\ \A q \in Proc \ {p} : pc'[q] = pc[q] /\ began'[q] = began[q] /\ heads'[q] = heads[q]
    BY <1>0, <1>5 DEF Begin, Goto, Typed
  <2>2. ASSUME NEW q \in Proc PROVE Informed(q)'
    <3>1. CASE q = p
      <4>1. mine'[p].checked <= now' /\ began'[p] <= now'
        BY <1>0, <1>3, <2>1 DEF Informed, InformedBy
      <4> QED
        BY <2>1, <3>1, <4>1 DEF Informed, InformedBy, Settled
    <3>2. CASE q # p
      BY <1>0, <1>3, <2>1, <3>2, InformedStays DEF remotes, clone
    <3> QED
      BY <3>1, <3>2
  <2> QED
    BY <1>0, <1>1, <1>2, <1>3, <2>1, <2>2 DEF Faithful, remotes, clone
<1>6. CASE RemoteMoves \/ Tick \/ UNCHANGED vars
  <2>1. /\ UNCHANGED << clone, file, pc, mine, answer, began, heads >> /\ world' = world
        /\ RemoteMoves \/ UNCHANGED remotes
        /\ now <= now' /\ now' \in Nat
    BY <1>0, <1>3, <1>6 DEF RemoteMoves, Tick, vars, remotes, tale
  <2>2. \A q \in Proc : Informed(q)'
    BY <1>0, <2>1, InformedStays DEF clone
  <2> QED
    BY <1>0, <1>1, <1>2, <2>1, <2>2 DEF Faithful, clone
<1>7. CASE Checkout
  <2>1. /\ UNCHANGED << remotes, have, shallow, fetchHead, file, now, pc, mine, answer, began >>
        /\ \A q \in Proc : heads[q] \subseteq heads'[q]
    BY <1>0, <1>7 DEF Checkout, search, Typed
  <2>2. \A q \in Proc : Informed(q)'
    BY <1>0, <1>3, <2>1, InformedStays DEF remotes
  <2> QED
    BY <1>0, <1>1, <1>2, <1>3, <2>1, <2>2 DEF Faithful, remotes
<1>8. CASE UserFetch
  <2>1. /\ UNCHANGED << remotes, file, now, pc, answer, began, heads >> /\ world.origin \in D
        /\ have' = have \cup Ancestors(world.origin) /\ shallow' = {}
        /\ \A q \in Proc :
              \/ mine'[q] = mine[q] /\ (pc[q] = "resolve" => fetchHead' = fetchHead)
              \/ mine'[q] = [mine[q] EXCEPT !.pure = FALSE] /\ pc[q] = "resolve"
    BY <1>0, <1>8, WorldType DEF UserFetch, Bring, tale, Typed, Whole, Ancestors
  <2>2. \A q \in Proc : Informed(q)'
    BY <1>0, <1>3, <2>1, InformedStays DEF remotes
  <2>3. Whole'
    BY <1>0, <2>1, WholeGrows DEF remotes
  <2> QED
    BY <1>0, <1>1, <1>3, <2>1, <2>2, <2>3 DEF Faithful, remotes
<1>9. CASE Prune
  <2>1. UNCHANGED << remotes, fetchHead, file, now, pc, mine, answer, began, heads >>
    BY <1>9 DEF Prune
  <2>2. \A q \in Proc : Informed(q)'
    BY <1>0, <1>3, <2>1, InformedStays DEF remotes
  <2> QED
    BY <1>0, <1>1, <1>3, <1>9, <2>1, <2>2, PruneKeepsWhole DEF Faithful, remotes
<1> QED
  BY <1>4, <1>5, <1>6, <1>7, <1>8, <1>9 DEF Next

\* BaseIsRight in a whole clone: the base is the commit that the whole histories
\* and what the network said within the hour make it.
THEOREM BaseIsRightInWholeClones ==
    ASSUME \A w \in Worlds : w.clone = 0
    PROVE  Spec => []BaseIsRight
<1>1. Init => Faithful
  BY InitFaithful
<1>2. Faithful => BaseIsRight
  <2> SUFFICES ASSUME Faithful, NEW p \in Proc, pc[p] = "done", mine[p].pure PROVE Answers(p, answer[p])
    BY DEF BaseIsRight, Answers, Fits
  <2> QED
    BY DEF Faithful, Informed, InformedBy
<1> QED
  BY <1>1, <1>2, NextFaithful, PTL DEF Spec

==============================================================================
