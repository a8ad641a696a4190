--------------------------- MODULE EditGate_proofs ---------------------------
(***************************************************************************)
(* Proofs about edit.Gate for every source, edit list, scope and parser.   *)
(*                                                                         *)
(* The inductive invariant IInv says what the triage guarantees of the     *)
(* candidates (Triaged), how the stack partitions the part of the batch    *)
(* still to visit (Partition), that what has landed is an increasing run   *)
(* of visited indexes (Ascending) whose text holds (LandedHolds), and what *)
(* the answer is made of (Answer).  Two more invariants build on it:       *)
(* Metered counts the questions put to the parser, TakesTheRest says which *)
(* edits land when the parser minds only some of them.                     *)
(*                                                                         *)
(* Splice, Shift and Chosen are recursive functions: NatInduct and         *)
(* Recursion give what their proofs need.                                  *)
(***************************************************************************)
EXTENDS EditGate, SequenceTheorems, WellFoundedInduction, TLAPS

-----------------------------------------------------------------------------
(* Induction for a set, and what a recursive function computes.              *)

\* A set of naturals that holds 0 and each successor of a member holds all:
\* induction, for a set and not for a formula.
LEMMA NatInduct ==
    ASSUME NEW S, 0 \in S, \A n \in S \cap Nat : n + 1 \in S
    PROVE  Nat \subseteq S
<1> SUFFICES ASSUME Nat \ S # {} PROVE FALSE
  OBVIOUS
<1> DEFINE R == {p \in Nat \X Nat : p[1] < p[2]}
<1>1. IsWellFoundedOn(R, Nat)
  BY NatLessThanWellFounded DEF OpToRel
<1>2. PICK n \in Nat \ S : \A k \in Nat \ S : << k, n >> \notin R
  <2> HIDE DEF R
  <2> QED
    BY <1>1, WFMin
<1>3. n # 0 /\ n - 1 \in Nat /\ << n - 1, n >> \in R
  OBVIOUS
<1>4. n - 1 \in S
  BY <1>2, <1>3
<1> QED
  BY <1>3, <1>4

\* f repeats step n times from a: what a recursive function computes.
Repeats(f, n, S, a, step) ==
    f \in [0..n -> S] /\ f[0] = a /\ \A i \in 1..n : f[i] = step[<< i, f[i-1] >>]

\* A step on the values of S can be repeated any number of times.
LEMMA Recursion ==
    ASSUME NEW n \in Nat, NEW S, NEW a \in S, NEW step \in [(1..n) \X S -> S]
    PROVE  \E f : Repeats(f, n, S, a, step)
<1> DEFINE Runs(f, m) == f \in [0..m -> S] /\ f[0] = a /\ \A i \in 1..m : f[i] = step[<< i, f[i-1] >>]
           T == {m \in Nat : m <= n => \E f : Runs(f, m)}
<1>1. 0 \in T
  <2>1. Runs([i \in 0..0 |-> a], 0)
    OBVIOUS
  <2> QED
    BY <2>1
<1>2. ASSUME NEW m \in T \cap Nat PROVE m + 1 \in T
  <2> SUFFICES ASSUME m + 1 <= n PROVE \E f : Runs(f, m + 1)
    OBVIOUS
  <2>1. PICK f : Runs(f, m)
    OBVIOUS
  <2> DEFINE g == [i \in 0..(m+1) |-> IF i = m + 1 THEN step[<< m + 1, f[m] >>] ELSE f[i]]
  <2>2. f[m] \in S /\ step[<< m + 1, f[m] >>] \in S
    BY <2>1
  <2>3. g \in [0..(m+1) -> S] /\ g[0] = a
    BY <2>1, <2>2
  <2>4. ASSUME NEW i \in 1..(m+1) PROVE g[i] = step[<< i, g[i-1] >>]
    <3>1. i - 1 \in 0..m /\ i - 1 # m + 1 /\ i - 1 \in 0..(m+1)
      OBVIOUS
    <3>4. g[i-1] = f[i-1]
      BY <3>1
    <3>2. CASE i = m + 1
      <4>1. g[i] = step[<< m + 1, f[m] >>]
        BY <3>2
      <4>2. i - 1 = m /\ g[i-1] = f[m]
        BY <3>2, <3>4
      <4> QED
        BY <3>2, <4>1, <4>2, Zenon
    <3>3. CASE i # m + 1
      <4>1. i \in 1..m /\ g[i] = f[i]
        BY <3>3
      <4>2. f[i] = step[<< i, f[i-1] >>]
        BY <2>1, <4>1
      <4> QED
        BY <3>4, <4>1, <4>2
    <3> QED
      BY <3>2, <3>3
  <2> QED
    BY <2>3, <2>4
<1>3. n \in T
  <2> HIDE DEF T
  <2> QED
    BY <1>1, <1>2, NatInduct
<1> QED
  BY <1>3 DEF Repeats

-----------------------------------------------------------------------------

Triaged ==
    /\ \A i \in DOMAIN candidates :
          /\ Admits(in.scope, candidates[i])
          /\ ~OutOfBounds(in.src, candidates[i])
          /\ candidates[i] \notin in.barred
    /\ \A i, j \in DOMAIN candidates :
          i < j => candidates[i].end <= candidates[j].start

Ascending ==
    /\ \A i \in DOMAIN landed : landed[i] \in 1..Len(candidates)
    /\ \A i, j \in DOMAIN landed : i < j => landed[i] < landed[j]

Partition ==
    /\ \A i \in 1..Len(stack) :
          /\ 1 <= stack[i].lo /\ stack[i].lo <= stack[i].hi + 1
          /\ stack[i].hi <= Len(candidates)
    /\ \A i, j \in 1..Len(stack) : j = i + 1 => stack[j].lo = stack[i].hi + 1
    /\ stack # << >> => stack[Len(stack)].hi = Len(candidates)

LandedHolds == landed = << >> \/ Splice(in.src, Pick(landed)) \in in.good

Answer ==
    /\ pc # "done" => out = Unchanged(in.src, in.scope)
    /\ pc = "done" => \/ out = Unchanged(in.src, in.scope)
                      \/ out = Written(Pick(landed)) /\ LandedHolds

IInv ==
    /\ TypeOK
    /\ Triaged
    /\ Ascending
    /\ pc = "triage" => landed = << >> /\ stack = << >>
    /\ pc = "settle" => Partition /\ LandedHolds /\ NothingSkipped
    /\ Answer

-----------------------------------------------------------------------------
(* Lemmas about the operators. *)

\* Sorting a list of edits yields lists of edits.
LEMMA SortedType ==
    ASSUME NEW es \in Seq(Edit), NEW q \in Sorted(es)
    PROVE  q \in Seq(Edit)
<1>1. PICK p \in StableOrders(es) : q = [r \in DOMAIN es |-> es[p[r]]]
  BY DEF Sorted
<1>2. p \in [DOMAIN es -> DOMAIN es]
  BY <1>1, Zenon DEF StableOrders
<1>3. q \in [1..Len(es) -> Edit]
  BY <1>1, <1>2
<1> QED
  BY <1>3

\* Writing no edit leaves the source as it was.
LEMMA SpliceNothing ==
    ASSUME NEW src \in Seq(Byte)
    PROVE  Splice(src, << >>) = src
<1> DEFINE step(f, i) == IF i = 0 THEN << >>
                         ELSE f[i-1] \o SubSeq(src, Resume(<< >>, i-1) + 1, << >>[i].start)
                                     \o << >>[i].text
           g == CHOOSE f : f = [i \in 0..Len(<< >>) |-> step(f, i)]
           w == [i \in {0} |-> << >>]
<1>1. 0..Len(<< >>) = {0}
  OBVIOUS
<1>2. w = [i \in 0..Len(<< >>) |-> step(w, i)]
  BY <1>1
<1>3. g = [i \in 0..Len(<< >>) |-> step(g, i)]
  BY <1>2
<1>4. g[0] = << >>
  BY <1>1, <1>3
<1>5. SubSeq(src, 1, Len(src)) = src
  OBVIOUS
<1>6. Splice(src, << >>) =
         g[Len(<< >>)] \o SubSeq(src, Resume(<< >>, Len(<< >>)) + 1, Len(src))
  BY Zenon DEF Splice
<1>7. Len(<< >>) = 0 /\ Resume(<< >>, 0) = 0
  BY DEF Resume
<1>8. << >> \o src = src
  BY ConcatEmptySeq
<1> HIDE DEF g
<1>9. Splice(src, << >>) = << >> \o SubSeq(src, 0 + 1, Len(src))
  BY <1>4, <1>6, <1>7, Zenon
<1> QED
  BY <1>5, <1>8, <1>9

\* A range of indexes is an increasing run of them.
LEMMA IntervalFacts ==
    ASSUME NEW lo \in Nat, NEW hi \in Nat, lo <= hi + 1
    PROVE  /\ Interval(Span(lo, hi)) \in Seq(Nat)
           /\ Len(Interval(Span(lo, hi))) = hi - lo + 1
           /\ \A k \in 1..(hi - lo + 1) : Interval(Span(lo, hi))[k] = lo + k - 1
<1>1. hi - lo + 1 \in Nat
  OBVIOUS
<1> QED
  BY <1>1 DEF Interval, Span

-----------------------------------------------------------------------------
(* The invariant is inductive. *)

\* The head and tail of a sequence, by index.
LEMMA HeadTail ==
    ASSUME NEW S, NEW s \in Seq(S), s # << >>
    PROVE  /\ Len(s) \in Nat /\ Len(s) >= 1
           /\ Head(s) = s[1] /\ Head(s) \in S
           /\ Tail(s) \in Seq(S)
           /\ Len(Tail(s)) = Len(s) - 1
           /\ \A i \in 1..(Len(s) - 1) : Tail(s)[i] = s[i+1] /\ s[i+1] \in S
OBVIOUS

\* What a settle step finds on top of the stack, and leaves below it.
LEMMA TopOfStack ==
    ASSUME TypeOK, Partition, stack # << >>
    PROVE  /\ Group \in Spans
           /\ 1 <= Group.lo /\ Group.lo <= Group.hi + 1
           /\ Group.hi <= Len(candidates)
           /\ Tail(stack) \in Seq(Spans)
           /\ Tail(stack) # << >> => Head(Tail(stack)).lo = Group.hi + 1
           /\ Tail(stack) = << >> => Group.hi = Len(candidates)
<1>1. stack \in Seq(Spans)
  BY DEF TypeOK
<1>2. /\ Len(stack) \in Nat /\ Len(stack) >= 1
      /\ Group = stack[1] /\ Group \in Spans
      /\ Tail(stack) \in Seq(Spans)
      /\ Len(Tail(stack)) = Len(stack) - 1
      /\ \A i \in 1..(Len(stack) - 1) : Tail(stack)[i] = stack[i+1]
  BY <1>1, HeadTail DEF Group
<1>3. /\ 1 <= Group.lo /\ Group.lo <= Group.hi + 1
      /\ Group.hi <= Len(candidates)
  BY <1>2 DEF Partition
<1>4. CASE Tail(stack) # << >>
  <2>1. Head(Tail(stack)) = Tail(stack)[1] /\ Len(Tail(stack)) >= 1
    BY <1>2, <1>4, HeadTail
  <2>2. Tail(stack)[1] = stack[2] /\ 1 \in 1..Len(stack) /\ 2 \in 1..Len(stack)
    BY <1>2, <2>1
  <2>3. stack[2].lo = stack[1].hi + 1
    BY <2>2 DEF Partition
  <2> QED
    BY <1>2, <1>3, <1>4, <2>1, <2>2, <2>3
<1>5. CASE Tail(stack) = << >>
  <2>1. Len(stack) = 1
    BY <1>2, <1>5
  <2> QED
    BY <1>2, <1>3, <1>5, <2>1 DEF Partition
<1> QED
  BY <1>4, <1>5

\* Popping the top leaves a partition of the rest.
LEMMA PopPartition ==
    ASSUME TypeOK, Partition, stack # << >>, stack' = Tail(stack),
           candidates' = candidates
    PROVE  Partition'
<1>1. stack \in Seq(Spans)
  BY DEF TypeOK
<1>2. /\ Len(stack) \in Nat /\ Len(stack) >= 1
      /\ Len(stack') = Len(stack) - 1
      /\ \A i \in 1..(Len(stack) - 1) : stack'[i] = stack[i+1]
      /\ stack' \in Seq(Spans)
  BY <1>1, HeadTail
<1>3. ASSUME NEW i \in 1..Len(stack')
      PROVE  /\ 1 <= stack'[i].lo /\ stack'[i].lo <= stack'[i].hi + 1
             /\ stack'[i].hi <= Len(candidates)
  <2>1. i + 1 \in 1..Len(stack) /\ stack'[i] = stack[i+1]
    BY <1>2
  <2> QED
    BY <2>1 DEF Partition
<1>4. ASSUME NEW i \in 1..Len(stack'), NEW j \in 1..Len(stack'), j = i + 1
      PROVE  stack'[j].lo = stack'[i].hi + 1
  <2>1. /\ i + 1 \in 1..Len(stack) /\ stack'[i] = stack[i+1]
        /\ j + 1 \in 1..Len(stack) /\ stack'[j] = stack[j+1]
        /\ j + 1 = (i + 1) + 1
    BY <1>2, <1>4
  <2> QED
    BY <2>1 DEF Partition
<1>5. stack' # << >> => stack'[Len(stack')].hi = Len(candidates)
  <2> SUFFICES ASSUME stack' # << >> PROVE stack'[Len(stack')].hi = Len(candidates)
    OBVIOUS
  <2>1. Len(stack') \in 1..(Len(stack) - 1)
    BY <1>2
  <2>2. stack'[Len(stack')] = stack[Len(stack)]
    BY <1>2, <2>1
  <2> QED
    BY <2>2 DEF Partition
<1> QED
  BY <1>3, <1>4, <1>5 DEF Partition

\* A concatenation, by index.
LEMMA ConcatByIndex ==
    ASSUME NEW S, NEW a \in Seq(S), NEW b \in Seq(S)
    PROVE  /\ a \o b \in Seq(S)
           /\ Len(a \o b) = Len(a) + Len(b)
           /\ \A i \in 1..Len(a) : (a \o b)[i] = a[i]
           /\ \A i \in 1..Len(b) : (a \o b)[Len(a) + i] = b[i]
OBVIOUS

\* Landing the group keeps the landed indexes increasing and reaches all of it.
LEMMA TrialAscends ==
    ASSUME TypeOK, Ascending, NothingSkipped, pc = "settle", Partition,
           stack # << >>, Group.lo <= Group.hi
    PROVE  /\ Trial \in Seq(Nat) /\ Trial # << >>
           /\ \A i \in 1..Len(Trial) : Trial[i] \in 1..Group.hi
           /\ \A i, j \in 1..Len(Trial) : i < j => Trial[i] < Trial[j]
           /\ \A i \in 1..Len(landed) : i \in 1..Len(Trial) /\ Trial[i] = landed[i]
           /\ \A k \in Group.lo..Group.hi : \E i \in 1..Len(Trial) : Trial[i] = k
<1>1. /\ Group \in Spans /\ 1 <= Group.lo /\ Group.hi <= Len(candidates)
  BY TopOfStack
<1>2. /\ Group = Span(Group.lo, Group.hi)
      /\ Group.lo \in Nat /\ Group.hi \in Nat
  BY <1>1 DEF Span, Spans
<1>3. landed \in Seq(Nat) /\ Len(landed) \in Nat
  BY DEF TypeOK
<1>4. \A i \in 1..Len(landed) : landed[i] \in 1..(Group.lo - 1)
  <2>1. \A i \in DOMAIN landed : landed[i] < Group.lo
    BY DEF NothingSkipped, Visited, Group
  <2>2. \A i \in DOMAIN landed : landed[i] \in 1..Len(candidates)
    BY DEF Ascending
  <2>3. Len(candidates) \in Nat
    BY DEF TypeOK
  <2> QED
    BY <1>2, <1>3, <2>1, <2>2, <2>3
<1>5. \A i, j \in 1..Len(landed) : i < j => landed[i] < landed[j]
  BY <1>3 DEF Ascending
<1>6. PICK lo \in Nat, hi \in Nat : lo = Group.lo /\ hi = Group.hi
  BY <1>2
<1> DEFINE g == Interval(Span(lo, hi))
           n == Len(landed)
<1>7. PICK m \in Nat : m = hi - lo + 1
  BY <1>6
<1>9. 1 <= m /\ lo + m - 1 = hi /\ 1 <= lo /\ lo <= hi + 1
  BY <1>1, <1>6, <1>7
<1>8. /\ g \in Seq(Nat) /\ Len(g) = m
      /\ \A k \in 1..m : g[k] = lo + k - 1
  BY <1>7, <1>9, IntervalFacts
<1>10. Trial = landed \o g
  BY <1>2, <1>6, Zenon DEF Trial
<1> HIDE DEF g
<1>11. /\ Trial \in Seq(Nat) /\ Len(Trial) = n + m
       /\ \A i \in 1..n : Trial[i] = landed[i]
       /\ \A i \in 1..m : Trial[n + i] = lo + i - 1
  <2>1. /\ landed \o g \in Seq(Nat) /\ Len(landed \o g) = Len(landed) + Len(g)
        /\ \A i \in 1..Len(landed) : (landed \o g)[i] = landed[i]
        /\ \A i \in 1..Len(g) : (landed \o g)[Len(landed) + i] = g[i]
    BY <1>3, <1>8
  <2> QED
    BY <1>8, <1>10, <2>1
<1>12. \A i \in 1..n : landed[i] \in 1..(lo - 1)
  BY <1>4, <1>6
<1>13. n \in Nat
  BY <1>3
<1> HIDE DEF n
<1>14. ASSUME NEW i \in 1..(n + m), i > n
       PROVE  Trial[i] = lo + (i - n) - 1
  <2>1. i - n \in 1..m /\ n + (i - n) = i
    BY <1>13, <1>14
  <2>2. Trial[n + (i - n)] = lo + (i - n) - 1
    BY <1>11, <2>1
  <2> QED
    BY <2>1, <2>2
<1>15. ASSUME NEW i \in 1..(n + m)
       PROVE  Trial[i] \in 1..hi
  <2>1. CASE i \in 1..n
    <3>1. Trial[i] \in 1..(lo - 1)
      BY <1>11, <1>12, <2>1
    <3> QED
      BY <1>9, <3>1
  <2>2. CASE i > n
    BY <1>9, <1>13, <1>14, <2>2
  <2> QED
    BY <1>13, <2>1, <2>2
<1>16. ASSUME NEW i \in 1..(n + m), NEW j \in 1..(n + m), i < j
       PROVE  Trial[i] < Trial[j]
  <2>1. CASE j \in 1..n
    <3>1. i \in 1..n
      BY <1>13, <1>16, <2>1
    <3> QED
      BY <1>5, <1>11, <1>16, <2>1, <3>1 DEF n
  <2>2. CASE i \in 1..n /\ j > n
    <3>1. Trial[i] \in 1..(lo - 1)
      BY <1>11, <1>12, <2>2
    <3>2. Trial[j] = lo + (j - n) - 1
      BY <1>14, <2>2
    <3> QED
      BY <1>13, <2>2, <3>1, <3>2
  <2>3. CASE i > n
    BY <1>13, <1>14, <1>16, <2>3
  <2> QED
    BY <1>13, <1>16, <2>1, <2>2, <2>3
<1>17. ASSUME NEW k \in lo..hi
       PROVE  \E i \in 1..(n + m) : Trial[i] = k
  <2>1. n + (k - lo + 1) \in 1..(n + m) /\ n + (k - lo + 1) > n
    BY <1>9, <1>13
  <2>2. Trial[n + (k - lo + 1)] = k
    BY <1>13, <1>14, <2>1
  <2> QED
    BY <2>1, <2>2
<1> QED
  BY <1>3, <1>6, <1>9, <1>11, <1>13, <1>15, <1>16, <1>17 DEF n

-----------------------------------------------------------------------------
(* Every step keeps the invariant. *)

LEMMA InitIInv == Init => IInv
<1> SUFFICES ASSUME Init PROVE IInv
  OBVIOUS
<1>1. in \in Input
  BY InputsAssumption DEF Init
<1>2. /\ in.src \in Seq(Byte) /\ in.edits \in Seq(Edit)
  BY <1>1 DEF Input
<1>3. queue \in Seq(Edit)
  BY <1>2, SortedType DEF Init
<1>4. TypeOK
  BY <1>1, <1>2, <1>3 DEF Init, TypeOK, Unchanged
<1> QED
  BY <1>4 DEF Init, IInv, Triaged, Ascending, Answer

\* Removing the head of the queue keeps it a list of edits.
LEMMA TailQueue ==
    ASSUME TypeOK, queue # << >>
    PROVE  Head(queue) \in Edit /\ Tail(queue) \in Seq(Edit)
BY HeadTail DEF TypeOK

LEMMA DropStep == IInv /\ Drop => IInv'
<1> SUFFICES ASSUME IInv, Drop PROVE IInv'
  OBVIOUS
<1>1. TypeOK'
  BY TailQueue DEF IInv, TypeOK, Drop
<1>2. Triaged' /\ Ascending' /\ Answer'
  BY DEF IInv, Triaged, Ascending, Answer, Drop, Pick, Written, Unchanged, LandedHolds
<1> QED
  BY <1>1, <1>2 DEF IInv, Drop

LEMMA RefuseStep == IInv /\ Refuse => IInv'
<1> SUFFICES ASSUME IInv, Refuse PROVE IInv'
  OBVIOUS
<1>1. Objection(Head(queue)) \in Reasons
  BY DEF Refuse, Objection, Reasons
<1>2. Refusal(Head(queue), Objection(Head(queue))) \in [edit : Edit, reason : Reasons]
  BY <1>1, TailQueue DEF IInv, Refuse, Refusal
<1>3. TypeOK'
  BY <1>2, TailQueue DEF IInv, TypeOK, Refuse
<1>4. Triaged' /\ Ascending' /\ Answer'
  BY DEF IInv, Triaged, Ascending, Answer, Refuse, Pick, Written, Unchanged, LandedHolds
<1> QED
  BY <1>3, <1>4 DEF IInv, Refuse

\* Appending, by index.
LEMMA AppendByIndex ==
    ASSUME NEW S, NEW s \in Seq(S), NEW e \in S
    PROVE  /\ Append(s, e) \in Seq(S)
           /\ Len(Append(s, e)) = Len(s) + 1
           /\ \A i \in 1..Len(s) : Append(s, e)[i] = s[i]
           /\ Append(s, e)[Len(s) + 1] = e
OBVIOUS

\* The offsets of an edit are integers, in order when its bytes are in bounds.
LEMMA EditOffsets ==
    ASSUME NEW e \in Edit, NEW src
    PROVE  /\ e.start \in Int /\ e.end \in Int
           /\ ~OutOfBounds(src, e) => e.start <= e.end
BY DEF Edit, OutOfBounds

LEMMA KeepStep == IInv /\ Keep => IInv'
<1> SUFFICES ASSUME IInv, Keep PROVE IInv'
  OBVIOUS
<1> DEFINE e == Head(queue)  n == Len(candidates)
<1>1. /\ candidates \in Seq(Edit) /\ e \in Edit /\ Tail(queue) \in Seq(Edit)
      /\ n \in Nat
  BY TailQueue DEF IInv, TypeOK, Keep
<1>2. /\ Admits(in.scope, e) /\ ~OutOfBounds(in.src, e)
      /\ e \notin in.barred /\ ~Overlaps(e)
  <2>1. Admits(in.scope, e) /\ Objection(e) = "none"
    BY DEF Keep
  <2> QED
    BY <2>1 DEF Objection
<1>3. TypeOK'
  BY <1>1 DEF IInv, TypeOK, Keep
<1>4. /\ candidates' \in Seq(Edit) /\ Len(candidates') = n + 1
      /\ \A i \in 1..n : candidates'[i] = candidates[i]
      /\ candidates'[n + 1] = e
  BY <1>1, AppendByIndex DEF Keep
<1> HIDE DEF e, n
<1>5. in' = in /\ landed' = landed /\ landed = << >> /\ pc' = pc /\ pc = "triage"
  BY DEF IInv, Keep
<1>6. ASSUME NEW i \in 1..(n + 1)
      PROVE  /\ Admits(in.scope, candidates'[i])
             /\ ~OutOfBounds(in.src, candidates'[i])
             /\ candidates'[i] \notin in.barred
  <2>1. CASE i \in 1..n
    BY <1>4, <2>1 DEF IInv, Triaged, n
  <2>2. CASE i = n + 1
    BY <1>2, <1>4, <2>2
  <2> QED
    BY <1>1, <2>1, <2>2
<1>7. ASSUME NEW i \in 1..n
      PROVE  candidates[i].end <= e.start
  <2>1. candidates # << >> /\ n \in 1..n /\ n \in DOMAIN candidates
    BY <1>1 DEF n
  <2>2. candidates[i] \in Edit /\ candidates[n] \in Edit
    BY <1>1 DEF n
  <2>3. /\ candidates[i].end \in Int /\ e.start \in Int
        /\ candidates[n].start \in Int /\ candidates[n].end \in Int
    BY <1>1, <2>2, EditOffsets
  <2>4. candidates[n].end <= e.start
    <3>1. ~(e.start < candidates[n].end)
      BY <1>2, <2>1 DEF Overlaps, n
    <3> QED
      BY <2>3, <3>1
  <2>5. CASE i = n
    BY <2>4, <2>5
  <2>6. CASE i # n
    <3>1. candidates[i].end <= candidates[n].start
      BY <1>1, <2>6 DEF IInv, Triaged, n
    <3>2. ~OutOfBounds(in.src, candidates[n])
      BY <2>1 DEF IInv, Triaged
    <3>3. candidates[n].start <= candidates[n].end
      BY <2>2, <3>2, EditOffsets
    <3> QED
      BY <2>3, <2>4, <3>1, <3>3
  <2> QED
    BY <2>5, <2>6
<1>8. ASSUME NEW i \in 1..(n + 1), NEW j \in 1..(n + 1), i < j
      PROVE  candidates'[i].end <= candidates'[j].start
  <2>1. CASE j \in 1..n
    <3>1. i \in 1..n
      BY <1>1, <1>8, <2>1
    <3> QED
      BY <1>1, <1>4, <1>8, <2>1, <3>1 DEF IInv, Triaged, n
  <2>2. CASE j = n + 1
    <3>1. i \in 1..n
      BY <1>1, <1>8, <2>2
    <3> QED
      BY <1>4, <1>7, <2>2, <3>1
  <2> QED
    BY <1>1, <2>1, <2>2
<1>9. Triaged'
  BY <1>4, <1>5, <1>6, <1>8 DEF Triaged
<1>10. Ascending' /\ Answer'
  BY <1>5 DEF IInv, Ascending, Answer, Keep, Unchanged
<1> QED
  BY <1>3, <1>5, <1>9, <1>10 DEF IInv, Keep

LEMMA NoCandidatesStep == IInv /\ NoCandidates => IInv'
<1> SUFFICES ASSUME IInv, NoCandidates PROVE IInv'
  OBVIOUS
<1>1. TypeOK'
  BY DEF IInv, TypeOK, NoCandidates
<1>2. Triaged' /\ Ascending' /\ Answer'
  BY DEF IInv, Triaged, Ascending, Answer, NoCandidates, Unchanged
<1> QED
  BY <1>1, <1>2 DEF IInv, NoCandidates

\* The edits an increasing run of indexes picks are edits.
LEMMA PickType ==
    ASSUME TypeOK, Ascending
    PROVE  /\ Pick(landed) \in Seq(Edit)
           /\ Len(Pick(landed)) = Len(landed)
           /\ \A i \in 1..Len(landed) : /\ Pick(landed)[i] = candidates[landed[i]]
                                        /\ landed[i] \in DOMAIN candidates
<1>1. landed \in Seq(Nat) /\ candidates \in Seq(Edit)
  BY DEF TypeOK
<1>2. \A i \in 1..Len(landed) : landed[i] \in 1..Len(candidates)
  BY <1>1 DEF Ascending
<1>3. \A i \in 1..Len(landed) : candidates[landed[i]] \in Edit
  BY <1>1, <1>2
<1>4. Pick(landed) = [i \in 1..Len(landed) |-> candidates[landed[i]]]
  BY <1>1 DEF Pick
<1> QED
  BY <1>1, <1>2, <1>3, <1>4

\* The whole batch, picked by its indexes, is the batch.
LEMMA PickAll ==
    ASSUME candidates \in Seq(Edit)
    PROVE  /\ Interval(Span(1, Len(candidates))) \in Seq(Nat)
           /\ Len(Interval(Span(1, Len(candidates)))) = Len(candidates)
           /\ \A k \in 1..Len(candidates) : Interval(Span(1, Len(candidates)))[k] = k
           /\ Pick(Interval(Span(1, Len(candidates)))) = candidates
<1> DEFINE n == Len(candidates)  g == Interval(Span(1, n))
<1>1. n \in Nat /\ 1 <= n + 1 /\ n - 1 + 1 = n
  OBVIOUS
<1>2. /\ g \in Seq(Nat) /\ Len(g) = n
      /\ \A k \in 1..n : g[k] = k
  BY <1>1 DEF Interval, Span
<1> HIDE DEF g
<1>3. Pick(g) = [k \in 1..n |-> candidates[g[k]]]
  BY <1>2 DEF Pick
<1>4. \A k \in 1..n : candidates[g[k]] = candidates[k]
  BY <1>2
<1>5. Pick(g) = [k \in 1..n |-> candidates[k]]
  BY <1>3, <1>4
<1>6. candidates = [k \in 1..n |-> candidates[k]]
  OBVIOUS
<1> QED
  BY <1>2, <1>5, <1>6 DEF g

LEMMA BatchStep == IInv /\ Batch => IInv'
<1> SUFFICES ASSUME IInv, Batch PROVE IInv'
  OBVIOUS
<1>1. /\ candidates \in Seq(Edit) /\ candidates' = candidates /\ in' = in
      /\ in \in Input /\ pc' = "done" /\ Len(candidates) \in Nat
  BY DEF IInv, TypeOK, Batch
<1>2. /\ landed' \in Seq(Nat) /\ Len(landed') = Len(candidates)
      /\ \A k \in 1..Len(candidates) : landed'[k] = k
  BY <1>1, PickAll DEF Batch
<1>3. Pick(landed)' = candidates
  <2>1. Pick(landed)' = Pick(Interval(Span(1, Len(candidates))))
    BY <1>1 DEF Pick, Batch
  <2> QED
    BY <1>1, <2>1, PickAll
<1>4. /\ out' = Written(candidates) /\ out'.text = Splice(in.src, candidates)
      /\ out'.applied = candidates /\ out'.text \in in.good
  BY DEF Batch, Written
<1>5. out'.text \in Seq(Byte)
  BY <1>1, <1>4 DEF Input
<1>6. TypeOK'
  BY <1>1, <1>2, <1>4, <1>5 DEF IInv, TypeOK, Batch
<1>7. Ascending'
  BY <1>1, <1>2 DEF Ascending
<1>8. Triaged'
  BY <1>1 DEF IInv, Triaged
<1>9. Answer'
  <2>1. LandedHolds'
    BY <1>1, <1>3, <1>4 DEF LandedHolds
  <2>2. Written(Pick(landed))' = Written(candidates)
    BY <1>1, <1>3 DEF Written
  <2> QED
    BY <1>1, <1>4, <2>1, <2>2 DEF Answer
<1> QED
  BY <1>1, <1>6, <1>7, <1>8, <1>9 DEF IInv

\* Halving a group of at least one gives two adjacent ranges that cover it.
LEMMA HalvesFacts ==
    ASSUME NEW lo \in Nat, NEW hi \in Nat, 1 <= lo, lo <= hi
    PROVE  \E mid \in Nat :
              /\ lo <= mid /\ mid <= hi /\ mid - 1 \in Nat
              /\ Halves(Span(lo, hi)) = << Span(lo, mid - 1), Span(mid, hi) >>
<1> DEFINE mid == lo + (hi - lo + 1) \div 2
<1>1. mid \in Nat /\ lo <= mid /\ mid <= hi /\ mid - 1 \in Nat
  OBVIOUS
<1>2. Halves(Span(lo, hi)) = << Span(lo, mid - 1), Span(mid, hi) >>
  BY DEF Halves, Mid, Span
<1> HIDE DEF mid
<1> QED
  BY <1>1, <1>2

\* The two bounds of a span.
LEMMA SpanBounds ==
    ASSUME NEW lo \in Nat, NEW hi \in Nat
    PROVE  Span(lo, hi) \in Spans /\ Span(lo, hi).lo = lo /\ Span(lo, hi).hi = hi
BY DEF Span, Spans

LEMMA SplitStep == IInv /\ Split => IInv'
<1> SUFFICES ASSUME IInv, Split PROVE IInv'
  OBVIOUS
<1>1. /\ candidates \in Seq(Edit) /\ candidates' = candidates /\ in' = in
      /\ out' = out /\ landed' = landed /\ landed = << >> /\ pc' = "settle"
      /\ pc = "triage" /\ refused' = refused
  BY DEF IInv, TypeOK, Split
<1>2. PICK n \in Nat : n = Len(candidates) /\ 1 <= n
  BY <1>1 DEF Split
<1>3. PICK mid \in Nat :
          /\ 1 <= mid /\ mid <= n /\ mid - 1 \in Nat
          /\ stack' = << Span(1, mid - 1), Span(mid, n) >>
  <2>1. stack' = Halves(Span(1, n))
    BY <1>2 DEF Split
  <2> QED
    BY <1>2, <2>1, HalvesFacts
<1>4. /\ Span(1, mid - 1) \in Spans /\ Span(mid, n) \in Spans
      /\ Span(1, mid - 1).lo = 1 /\ Span(1, mid - 1).hi = mid - 1
      /\ Span(mid, n).lo = mid /\ Span(mid, n).hi = n
  BY <1>2, <1>3, SpanBounds
<1>6. /\ stack' \in Seq(Spans) /\ Len(stack') = 2
      /\ stack'[1].lo = 1 /\ stack'[1].hi = mid - 1
      /\ stack'[2].lo = mid /\ stack'[2].hi = n
      /\ stack' # << >> /\ Head(stack').lo = 1
  BY <1>3, <1>4
<1>5. TypeOK'
  BY <1>1, <1>6 DEF IInv, TypeOK, Split
<1>7. Partition'
  <2>1. \A i \in 1..Len(stack') : i = 1 \/ i = 2
    BY <1>6
  <2>2. \A i \in 1..Len(stack') :
           /\ 1 <= stack'[i].lo /\ stack'[i].lo <= stack'[i].hi + 1
           /\ stack'[i].hi <= Len(candidates')
    BY <1>1, <1>2, <1>3, <1>6, <2>1
  <2>3. \A i, j \in 1..Len(stack') : j = i + 1 => stack'[j].lo = stack'[i].hi + 1
    BY <1>3, <1>6, <2>1
  <2> QED
    BY <1>1, <1>2, <1>6, <2>2, <2>3 DEF Partition
<1>8. NothingSkipped'
  <2>1. Visited' = {}
    BY <1>1, <1>6 DEF Visited
  <2> QED
    BY <1>1, <2>1 DEF NothingSkipped
<1>9. Triaged' /\ Ascending' /\ Answer' /\ LandedHolds'
  BY <1>1 DEF IInv, Triaged, Ascending, Answer, LandedHolds, Unchanged
<1> QED
  BY <1>1, <1>5, <1>7, <1>8, <1>9 DEF IInv

\* What an index is, before and after the group on top of the stack is popped.
LEMMA VisitedAfterPop ==
    ASSUME TypeOK, Partition, stack # << >>, stack' = Tail(stack),
           candidates' = candidates
    PROVE  /\ Visited = {k \in 1..Len(candidates) : k < Group.lo}
           /\ Visited' = {k \in 1..Len(candidates) : k <= Group.hi}
<1>1. /\ Group \in Spans /\ Group.lo <= Group.hi + 1 /\ Group.hi <= Len(candidates)
      /\ Tail(stack) # << >> => Head(Tail(stack)).lo = Group.hi + 1
      /\ Tail(stack) = << >> => Group.hi = Len(candidates)
  BY TopOfStack
<1>2. Group.lo \in Nat /\ Group.hi \in Nat /\ Len(candidates) \in Nat
      /\ DOMAIN candidates = 1..Len(candidates)
  BY <1>1 DEF Spans, TypeOK
<1>3. Visited = {k \in 1..Len(candidates) : k < Group.lo}
  BY <1>2 DEF Visited, Group
<1>4. CASE Tail(stack) = << >>
  <2>1. Visited' = 1..Len(candidates)
    BY <1>2, <1>4 DEF Visited
  <2> QED
    BY <1>1, <1>2, <1>3, <1>4, <2>1
<1>5. CASE Tail(stack) # << >>
  <2>1. Visited' = {k \in 1..Len(candidates) : k < Group.hi + 1}
    BY <1>1, <1>2, <1>5 DEF Visited
  <2> QED
    BY <1>2, <1>3, <2>1
<1> QED
  BY <1>4, <1>5

LEMMA SettleEmptyStep == IInv /\ SettleEmpty => IInv'
<1> SUFFICES ASSUME IInv, SettleEmpty PROVE IInv'
  OBVIOUS
<1>1. /\ TypeOK /\ Partition /\ stack # << >> /\ pc = "settle" /\ NothingSkipped
      /\ Triaged /\ Ascending /\ Answer /\ LandedHolds
      /\ stack' = Tail(stack) /\ candidates' = candidates /\ in' = in
      /\ landed' = landed /\ refused' = refused /\ out' = out /\ pc' = pc
      /\ Group.hi < Group.lo
  BY DEF IInv, SettleEmpty
<1>2. /\ Tail(stack) \in Seq(Spans)
      /\ Group \in Spans /\ Group.lo <= Group.hi + 1
  BY <1>1, TopOfStack
<1>3. TypeOK'
  BY <1>1, <1>2 DEF TypeOK, SettleEmpty
<1>4. Partition'
  BY <1>1, PopPartition
<1>5. Visited' = Visited
  <2>1. Group.lo = Group.hi + 1 /\ Group.lo \in Nat /\ Group.hi \in Nat
    BY <1>1, <1>2 DEF Spans
  <2>2. Len(candidates) \in Nat
    BY <1>1 DEF TypeOK
  <2>3. /\ Visited = {k \in 1..Len(candidates) : k < Group.lo}
        /\ Visited' = {k \in 1..Len(candidates) : k <= Group.hi}
    BY <1>1, VisitedAfterPop
  <2> QED
    BY <2>1, <2>2, <2>3
<1>6. NothingSkipped'
  BY <1>1, <1>5 DEF NothingSkipped
<1>7. Triaged' /\ Ascending' /\ Answer' /\ LandedHolds'
  BY <1>1 DEF Triaged, Ascending, Answer, LandedHolds, Pick, Unchanged, Written
<1> QED
  BY <1>1, <1>3, <1>4, <1>6, <1>7 DEF IInv

LEMMA SettleLandStep == IInv /\ SettleLand => IInv'
<1> SUFFICES ASSUME IInv, SettleLand PROVE IInv'
  OBVIOUS
<1>1. /\ TypeOK /\ Partition /\ stack # << >> /\ pc = "settle" /\ NothingSkipped
      /\ Triaged /\ Ascending /\ Answer /\ Group.lo <= Group.hi
      /\ stack' = Tail(stack) /\ candidates' = candidates /\ in' = in
      /\ landed' = Trial /\ refused' = refused /\ out' = out /\ pc' = pc
  BY DEF IInv, SettleLand
<1>2. /\ Tail(stack) \in Seq(Spans) /\ Group \in Spans
      /\ 1 <= Group.lo /\ Group.hi <= Len(candidates)
  BY <1>1, TopOfStack
<1>3. Group.lo \in Nat /\ Group.hi \in Nat /\ Len(candidates) \in Nat
  BY <1>1, <1>2 DEF Spans, TypeOK
<1>4. /\ landed' \in Seq(Nat) /\ landed \in Seq(Nat)
      /\ \A i \in 1..Len(landed') : landed'[i] \in 1..Group.hi
      /\ \A i, j \in 1..Len(landed') : i < j => landed'[i] < landed'[j]
      /\ \A i \in 1..Len(landed) : i \in 1..Len(landed') /\ landed'[i] = landed[i]
      /\ \A k \in Group.lo..Group.hi : \E i \in 1..Len(landed') : landed'[i] = k
  BY <1>1, TrialAscends DEF TypeOK
<1>5. TypeOK'
  BY <1>1, <1>2, <1>4 DEF TypeOK, SettleLand
<1>6. Partition'
  BY <1>1, PopPartition
<1>7. Ascending'
  <2>1. DOMAIN landed' = 1..Len(landed')
    BY <1>4
  <2>2. \A i \in DOMAIN landed' : landed'[i] \in 1..Len(candidates')
    BY <1>1, <1>2, <1>3, <1>4, <2>1
  <2>3. \A i, j \in DOMAIN landed' : i < j => landed'[i] < landed'[j]
    BY <1>4, <2>1
  <2> QED
    BY <2>2, <2>3 DEF Ascending
<1>8. NothingSkipped'
  <2>1. /\ Visited = {k \in 1..Len(candidates) : k < Group.lo}
        /\ Visited' = {k \in 1..Len(candidates) : k <= Group.hi}
    BY <1>1, VisitedAfterPop
  <2>2. ASSUME NEW k \in Visited'
        PROVE  \/ \E i \in DOMAIN landed' : landed'[i] = k
               \/ \E i \in DOMAIN refused' : refused'[i] = Refusal(candidates'[k], "holds")
    <3>1. CASE k \in Visited
      <4>1. CASE \E i \in DOMAIN landed : landed[i] = k
        BY <1>4, <4>1
      <4>2. CASE \E i \in DOMAIN refused : refused[i] = Refusal(candidates[k], "holds")
        BY <1>1, <4>2
      <4> QED
        BY <1>1, <3>1, <4>1, <4>2 DEF NothingSkipped
    <3>2. CASE k \notin Visited
      <4>1. k \in Group.lo..Group.hi
        BY <1>3, <2>1, <3>2
      <4> QED
        BY <1>4, <4>1
    <3> QED
      BY <3>1, <3>2
  <2>3. \A i \in DOMAIN landed' : landed'[i] \in Visited'
    BY <1>2, <1>3, <1>4, <2>1
  <2> QED
    BY <2>2, <2>3 DEF NothingSkipped
<1>9. LandedHolds'
  <2>1. Pick(landed)' = Pick(Trial)
    BY <1>1 DEF Pick
  <2> QED
    BY <1>1, <2>1 DEF LandedHolds, SettleLand, TrialHolds
<1>10. Triaged' /\ Answer'
  BY <1>1 DEF Triaged, Answer, Unchanged
<1> QED
  BY <1>1, <1>5, <1>6, <1>7, <1>8, <1>9, <1>10 DEF IInv

LEMMA SettleRefuseStep == IInv /\ SettleRefuse => IInv'
<1> SUFFICES ASSUME IInv, SettleRefuse PROVE IInv'
  OBVIOUS
<1> DEFINE r == Refusal(candidates[Group.lo], "holds")
<1>1. /\ TypeOK /\ Partition /\ stack # << >> /\ pc = "settle" /\ NothingSkipped
      /\ Triaged /\ Ascending /\ Answer /\ LandedHolds /\ Group.lo = Group.hi
      /\ stack' = Tail(stack) /\ candidates' = candidates /\ in' = in
      /\ landed' = landed /\ refused' = Append(refused, r) /\ out' = out /\ pc' = pc
  BY DEF IInv, SettleRefuse
<1>2. /\ Tail(stack) \in Seq(Spans) /\ Group \in Spans
      /\ 1 <= Group.lo /\ Group.hi <= Len(candidates)
  BY <1>1, TopOfStack
<1>3. /\ Group.lo \in Nat /\ Group.hi \in Nat /\ Len(candidates) \in Nat
      /\ candidates \in Seq(Edit) /\ refused \in Seq([edit : Edit, reason : Reasons])
  BY <1>1, <1>2 DEF Spans, TypeOK
<1>4. candidates[Group.lo] \in Edit
  BY <1>1, <1>2, <1>3
<1>5. r \in [edit : Edit, reason : Reasons]
  BY <1>4 DEF Refusal, Reasons
<1> HIDE DEF r
<1>6. /\ refused' \in Seq([edit : Edit, reason : Reasons])
      /\ Len(refused') = Len(refused) + 1
      /\ \A i \in 1..Len(refused) : refused'[i] = refused[i]
      /\ refused'[Len(refused) + 1] = r
  BY <1>1, <1>3, <1>5, AppendByIndex
<1>7. TypeOK'
  BY <1>1, <1>2, <1>6 DEF TypeOK, SettleRefuse
<1>8. Partition'
  BY <1>1, PopPartition
<1>9. NothingSkipped'
  <2>1. /\ Visited = {k \in 1..Len(candidates) : k < Group.lo}
        /\ Visited' = {k \in 1..Len(candidates) : k <= Group.hi}
    BY <1>1, VisitedAfterPop
  <2>2. DOMAIN refused = 1..Len(refused) /\ DOMAIN refused' = 1..(Len(refused) + 1)
        /\ Len(refused) \in Nat
    BY <1>3, <1>6
  <2>3. ASSUME NEW k \in Visited'
        PROVE  \/ \E i \in DOMAIN landed' : landed'[i] = k
               \/ \E i \in DOMAIN refused' : refused'[i] = Refusal(candidates'[k], "holds")
    <3>1. CASE k \in Visited
      <4>1. CASE \E i \in DOMAIN landed : landed[i] = k
        BY <1>1, <4>1
      <4>2. CASE \E i \in DOMAIN refused : refused[i] = Refusal(candidates[k], "holds")
        BY <1>1, <1>6, <2>2, <4>2
      <4> QED
        BY <1>1, <3>1, <4>1, <4>2 DEF NothingSkipped
    <3>2. CASE k \notin Visited
      <4>1. k = Group.lo
        BY <1>1, <1>3, <2>1, <3>2
      <4>2. refused'[Len(refused) + 1] = Refusal(candidates'[k], "holds")
        BY <1>1, <1>6, <4>1 DEF r
      <4> QED
        BY <2>2, <4>2
    <3> QED
      BY <3>1, <3>2
  <2>4. \A i \in DOMAIN landed' : landed'[i] \in Visited'
    BY <1>1, <1>3, <2>1 DEF NothingSkipped
  <2> QED
    BY <2>3, <2>4 DEF NothingSkipped
<1>10. Triaged' /\ Ascending' /\ Answer' /\ LandedHolds'
  BY <1>1 DEF Triaged, Ascending, Answer, LandedHolds, Pick, Unchanged
<1> QED
  BY <1>1, <1>7, <1>8, <1>9, <1>10 DEF IInv

LEMMA SettleHalveStep == IInv /\ SettleHalve => IInv'
<1> SUFFICES ASSUME IInv, SettleHalve PROVE IInv'
  OBVIOUS
<1>1. /\ TypeOK /\ Partition /\ stack # << >> /\ pc = "settle" /\ NothingSkipped
      /\ Triaged /\ Ascending /\ Answer /\ LandedHolds /\ Group.lo < Group.hi
      /\ candidates' = candidates /\ in' = in /\ landed' = landed
      /\ refused' = refused /\ out' = out /\ pc' = pc
      /\ stack' = Halves(Group) \o Tail(stack)
  BY DEF IInv, SettleHalve
<1>2. /\ Tail(stack) \in Seq(Spans) /\ Group \in Spans
      /\ 1 <= Group.lo /\ Group.hi <= Len(candidates)
      /\ stack \in Seq(Spans) /\ Group = stack[1]
  BY <1>1, TopOfStack, HeadTail DEF TypeOK, Group
<1>3. PICK lo \in Nat, hi \in Nat :
          /\ lo = Group.lo /\ hi = Group.hi /\ Group = Span(lo, hi)
  BY <1>2 DEF Spans, Span
<1>4. PICK mid \in Nat :
          /\ lo <= mid /\ mid <= hi /\ mid - 1 \in Nat
          /\ Halves(Group) = << Span(lo, mid - 1), Span(mid, hi) >>
  <2>1. 1 <= lo /\ lo <= hi
    BY <1>1, <1>2, <1>3
  <2>2. \E mid \in Nat :
           /\ lo <= mid /\ mid <= hi /\ mid - 1 \in Nat
           /\ Halves(Span(lo, hi)) = << Span(lo, mid - 1), Span(mid, hi) >>
    BY <2>1, HalvesFacts
  <2> QED
    BY <1>3, <2>2
<1> DEFINE h == Halves(Group)
<1>5. /\ h \in Seq(Spans) /\ Len(h) = 2
      /\ h[1].lo = lo /\ h[1].hi = mid - 1
      /\ h[2].lo = mid /\ h[2].hi = hi
  BY <1>4, SpanBounds
<1> HIDE DEF h
<1>6. /\ Len(stack) \in Nat /\ Len(stack) >= 1
      /\ Len(Tail(stack)) = Len(stack) - 1
      /\ \A i \in 1..(Len(stack) - 1) : Tail(stack)[i] = stack[i+1]
  BY <1>1, <1>2, HeadTail
<1>7. /\ stack' \in Seq(Spans) /\ Len(stack') = Len(stack) + 1
      /\ stack'[1] = h[1] /\ stack'[2] = h[2]
      /\ \A i \in 1..(Len(stack) - 1) : stack'[2 + i] = Tail(stack)[i]
  <2>1. PICK a \in Seq(Spans), b \in Seq(Spans) : a = h /\ b = Tail(stack)
    BY <1>2, <1>5
  <2>2. stack' = a \o b
    BY <1>1, <2>1 DEF h
  <2>3. /\ a \o b \in Seq(Spans) /\ Len(a \o b) = Len(a) + Len(b)
        /\ \A i \in 1..Len(a) : (a \o b)[i] = a[i]
        /\ \A i \in 1..Len(b) : (a \o b)[Len(a) + i] = b[i]
    OBVIOUS
  <2>4. Len(a) = 2 /\ Len(b) = Len(stack) - 1
    BY <1>5, <1>6, <2>1
  <2>5. Len(stack') = Len(stack) + 1
    BY <1>6, <2>2, <2>3, <2>4
  <2>6. stack'[1] = a[1] /\ stack'[2] = a[2]
    BY <2>2, <2>3, <2>4
  <2>7. \A i \in 1..(Len(stack) - 1) : stack'[2 + i] = b[i]
    BY <2>2, <2>3, <2>4
  <2> QED
    BY <2>1, <2>2, <2>3, <2>5, <2>6, <2>7
<1>8. \A i \in 3..(Len(stack) + 1) : stack'[i] = stack[i-1]
  <2> SUFFICES ASSUME NEW i \in 3..(Len(stack) + 1) PROVE stack'[i] = stack[i-1]
    OBVIOUS
  <2>1. i - 2 \in 1..(Len(stack) - 1) /\ 2 + (i - 2) = i /\ (i - 2) + 1 = i - 1
    BY <1>6
  <2>2. stack'[2 + (i - 2)] = Tail(stack)[i - 2] /\ Tail(stack)[i - 2] = stack[(i - 2) + 1]
    BY <1>6, <1>7, <2>1
  <2> QED
    BY <2>1, <2>2
<1>9. TypeOK'
  BY <1>1, <1>7 DEF TypeOK, SettleHalve
<1>10. Partition'
  <2>1. ASSUME NEW i \in 1..Len(stack')
        PROVE  /\ 1 <= stack'[i].lo /\ stack'[i].lo <= stack'[i].hi + 1
               /\ stack'[i].hi <= Len(candidates)
    <3>1. CASE i = 1
      <4>1. stack'[i].lo = lo /\ stack'[i].hi = mid - 1
        BY <1>5, <1>7, <3>1
      <4>2. 1 <= lo /\ lo <= mid /\ mid - 1 <= Len(candidates)
        BY <1>2, <1>3, <1>4
      <4> QED
        BY <1>1, <1>4, <4>1, <4>2
    <3>2. CASE i = 2
      <4>1. stack'[i].lo = mid /\ stack'[i].hi = hi
        BY <1>5, <1>7, <3>2
      <4>2. 1 <= mid /\ mid <= hi + 1 /\ hi <= Len(candidates)
        BY <1>2, <1>3, <1>4
      <4> QED
        BY <1>1, <4>1, <4>2
    <3>3. CASE i >= 3
      <4>1. i - 1 \in 1..Len(stack) /\ stack'[i] = stack[i-1]
        BY <1>6, <1>7, <1>8, <3>3
      <4> QED
        BY <1>1, <4>1 DEF Partition
    <3> QED
      BY <1>6, <1>7, <3>1, <3>2, <3>3
  <2>2. ASSUME NEW i \in 1..Len(stack'), NEW j \in 1..Len(stack'), j = i + 1
        PROVE  stack'[j].lo = stack'[i].hi + 1
    <3>1. CASE i = 1
      BY <1>4, <1>5, <1>7, <2>2, <3>1
    <3>2. CASE i = 2
      <4>1. 2 \in 1..Len(stack) /\ stack'[3] = stack[2] /\ 1 \in 1..Len(stack)
        BY <1>6, <1>7, <1>8, <2>2, <3>2
      <4>2. stack[2].lo = stack[1].hi + 1
        BY <1>1, <4>1 DEF Partition
      <4> QED
        BY <1>2, <1>3, <1>5, <1>7, <2>2, <3>2, <4>1, <4>2
    <3>3. CASE i >= 3
      <4>1. /\ i - 1 \in 1..Len(stack) /\ stack'[i] = stack[i-1]
            /\ j - 1 \in 1..Len(stack) /\ stack'[j] = stack[j-1]
            /\ j - 1 = (i - 1) + 1
        BY <1>6, <1>7, <1>8, <2>2, <3>3
      <4> QED
        BY <1>1, <4>1 DEF Partition
    <3> QED
      BY <1>6, <1>7, <3>1, <3>2, <3>3
  <2>3. stack'[Len(stack')].hi = Len(candidates)
    <3>1. CASE Len(stack) = 1
      <4>1. stack[1].hi = Len(candidates)
        BY <1>1, <3>1 DEF Partition
      <4>2. stack'[Len(stack')] = h[2]
        BY <1>7, <3>1
      <4> QED
        BY <1>2, <1>3, <1>5, <4>1, <4>2
    <3>2. CASE Len(stack) # 1
      <4>1. Len(stack') \in 3..(Len(stack) + 1) /\ Len(stack') - 1 = Len(stack)
        <5>1. Len(stack) \in Nat /\ Len(stack) >= 2
          <6>1. PICK n \in Nat : n = Len(stack)
            BY <1>6
          <6>2. n >= 1 /\ n # 1
            BY <1>6, <3>2, <6>1
          <6> QED
            BY <6>1, <6>2
        <5>2. Len(stack') = Len(stack) + 1
          BY <1>7
        <5> QED
          BY <5>1, <5>2
      <4>2. stack'[Len(stack')] = stack[Len(stack)]
        BY <1>8, <4>1
      <4> QED
        BY <1>1, <4>2 DEF Partition
    <3> QED
      BY <3>1, <3>2
  <2> QED
    BY <1>1, <2>1, <2>2, <2>3 DEF Partition
<1>11. Visited' = Visited
  <2>1. stack' # << >> /\ Head(stack') = h[1]
    BY <1>6, <1>7
  <2> QED
    BY <1>1, <1>3, <1>5, <2>1 DEF Visited, Group
<1>12. NothingSkipped'
  BY <1>1, <1>11 DEF NothingSkipped
<1>13. Triaged' /\ Ascending' /\ Answer' /\ LandedHolds'
  BY <1>1 DEF Triaged, Ascending, Answer, LandedHolds, Pick, Unchanged
<1> QED
  BY <1>1, <1>9, <1>10, <1>12, <1>13 DEF IInv

LEMMA FinishStep == IInv /\ Finish => IInv'
<1> SUFFICES ASSUME IInv, Finish PROVE IInv'
  OBVIOUS
<1>1. /\ TypeOK /\ Triaged /\ Ascending /\ LandedHolds /\ in \in Input
      /\ candidates' = candidates /\ in' = in /\ landed' = landed
      /\ pc' = "done" /\ out' = Written(Pick(landed))
  BY DEF IInv, TypeOK, Finish
<1>2. /\ out'.text = Splice(in.src, Pick(landed)) /\ out'.applied = Pick(landed)
  BY <1>1 DEF Written
<1>3. Pick(landed) \in Seq(Edit) /\ Len(Pick(landed)) = Len(landed)
  BY <1>1, PickType
<1>4. out'.text \in Seq(Byte)
  <2>1. CASE landed = << >>
    <3>1. Pick(landed) = << >>
      BY <1>3, <2>1
    <3>2. in.src \in Seq(Byte)
      BY <1>1 DEF Input
    <3> QED
      BY <1>2, <3>1, <3>2, SpliceNothing
  <2>2. CASE landed # << >>
    BY <1>1, <1>2, <2>2 DEF LandedHolds, Input
  <2> QED
    BY <2>1, <2>2
<1>5. TypeOK'
  BY <1>1, <1>2, <1>3, <1>4 DEF TypeOK, Finish
<1>6. Triaged' /\ Ascending'
  BY <1>1 DEF Triaged, Ascending
<1>7. Answer'
  BY <1>1 DEF Answer, LandedHolds, Pick, Written
<1> QED
  BY <1>1, <1>5, <1>6, <1>7 DEF IInv

LEMMA NextIInv == IInv /\ [Next]_vars => IInv'
<1> SUFFICES ASSUME IInv, [Next]_vars PROVE IInv'
  OBVIOUS
<1>1. CASE Next
  BY <1>1, DropStep, RefuseStep, KeepStep, NoCandidatesStep, BatchStep, SplitStep,
     SettleEmptyStep, SettleLandStep, SettleRefuseStep, SettleHalveStep, FinishStep
     DEF Next
<1>2. CASE UNCHANGED vars
  <2>1. /\ in' = in /\ pc' = pc /\ queue' = queue /\ candidates' = candidates
        /\ refused' = refused /\ landed' = landed /\ stack' = stack
        /\ asked' = asked /\ out' = out
    BY <1>2 DEF vars
  <2>2. TypeOK' /\ Triaged' /\ Ascending' /\ Partition' = Partition
    BY <2>1 DEF IInv, TypeOK, Triaged, Ascending, Partition
  <2>3. /\ LandedHolds' = LandedHolds /\ NothingSkipped' = NothingSkipped
        /\ Answer' = Answer
    BY <2>1 DEF LandedHolds, NothingSkipped, Visited, Answer, Pick, Written, Unchanged
  <2> QED
    BY <2>1, <2>2, <2>3 DEF IInv
<1> QED
  BY <1>1, <1>2

-----------------------------------------------------------------------------
(* Theorems *)

\* The inductive invariant holds in every state of every call.
THEOREM Inductive == Spec => []IInv
<1> QED
  BY InitIInv, NextIInv, PTL DEF Spec

\* Type correctness of every call of edit.Gate.
THEOREM TypeCorrect == Spec => []TypeOK
<1>1. IInv => TypeOK
  BY DEF IInv
<1> QED
  BY <1>1, Inductive, PTL

\* What the gate writes is accepted by the parser, or is the source untouched
\* (edit.go:129, 154), whatever the edits and whatever holds answers.
THEOREM ResultAlwaysHolds == Spec => []ResultHolds
<1>1. IInv => ResultHolds
  <2> SUFFICES ASSUME IInv, pc = "done" PROVE out.text \in in.good \cup {in.src}
    BY DEF ResultHolds
  <2>1. CASE out = Unchanged(in.src, in.scope)
    BY <2>1 DEF Unchanged
  <2>2. CASE out = Written(Pick(landed)) /\ LandedHolds
    <3>1. out.text = Splice(in.src, Pick(landed))
      BY <2>2 DEF Written
    <3>2. CASE landed = << >>
      <4>1. in.src \in Seq(Byte)
        BY DEF IInv, TypeOK, Input
      <4>2. Pick(landed) = << >>
        BY <3>2, PickType DEF IInv
      <4> QED
        BY <3>1, <4>1, <4>2, SpliceNothing
    <3>3. CASE landed # << >>
      BY <2>2, <3>1, <3>3 DEF LandedHolds
    <3> QED
      BY <3>2, <3>3
  <2> QED
    BY <2>1, <2>2 DEF IInv, Answer
<1> QED
  BY <1>1, Inductive, PTL

\* The edits a gate lands are in scope, in bounds, allowed by reach, in order
\* and disjoint, so Splice never slices backwards (edit.go:108-125, 165).
THEOREM AppliedAlwaysDisjoint == Spec => []AppliedDisjoint
<1>1. IInv => AppliedDisjoint
  <2> SUFFICES ASSUME IInv PROVE AppliedDisjoint
    OBVIOUS
  <2>1. CASE out = Unchanged(in.src, in.scope)
    BY <2>1 DEF Unchanged, AppliedDisjoint
  <2>2. CASE out = Written(Pick(landed))
    <3>1. out.applied = Pick(landed)
      BY <2>2 DEF Written
    <3>2. /\ Pick(landed) \in Seq(Edit) /\ Len(Pick(landed)) = Len(landed)
          /\ \A i \in 1..Len(landed) : /\ Pick(landed)[i] = candidates[landed[i]]
                                       /\ landed[i] \in DOMAIN candidates
      BY PickType DEF IInv
    <3>3. /\ DOMAIN out.applied = 1..Len(landed) /\ DOMAIN landed = 1..Len(landed)
          /\ \A i \in 1..Len(landed) : out.applied[i] = candidates[landed[i]]
      BY <3>1, <3>2 DEF IInv, TypeOK
    <3>4. ASSUME NEW i \in DOMAIN out.applied
          PROVE  /\ Admits(in.scope, out.applied[i])
                 /\ ~OutOfBounds(in.src, out.applied[i])
                 /\ out.applied[i] \notin in.barred
      BY <3>2, <3>3 DEF IInv, Triaged
    <3>5. ASSUME NEW i \in DOMAIN out.applied, NEW j \in DOMAIN out.applied, i < j
          PROVE  out.applied[i].end <= out.applied[j].start
      <4>1. landed[i] < landed[j]
        BY <3>3, <3>5 DEF IInv, Ascending
      <4> QED
        BY <3>2, <3>3, <4>1 DEF IInv, Triaged
    <3> QED
      BY <3>4, <3>5 DEF AppliedDisjoint
  <2> QED
    BY <2>1, <2>2 DEF IInv, Answer
<1> QED
  BY <1>1, Inductive, PTL

\* The bisection skips no candidate (edit.go:136-153).
THEOREM NeverSkips == Spec => []NothingSkipped
<1>1. IInv => NothingSkipped
  BY DEF IInv, NothingSkipped
<1> QED
  BY <1>1, Inductive, PTL

-----------------------------------------------------------------------------
(* How often the parser is asked.                                           *)

\* The candidates before the top of the stack, and the groups that hold any:
\* only the top can be empty, the left half of a batch of one.
Passed == IF stack = << >> THEN Len(candidates) ELSE stack[1].lo - 1
Open == IF stack # << >> /\ stack[1].hi < stack[1].lo THEN Len(stack) - 1 ELSE Len(stack)

\* Each group below another holds at least one candidate.
Roomy == \A i \in 1..Len(stack) : Len(stack) - i <= Len(candidates) - stack[i].hi

\* A group of n is visited with fewer than 2 * n questions, whichever way it
\* is halved; each open group may still cost one more than two per candidate.
Metered ==
    /\ pc = "triage" => asked = 0
    /\ pc = "settle" => /\ asked <= 2 * Passed + Open
                        /\ \A i \in 2..Len(stack) : stack[i].lo <= stack[i].hi
                        /\ Roomy
    /\ pc = "done" => asked <= 2 * Len(candidates)

LEMMA MeteredSplit == ASSUME IInv, Metered, Split PROVE Metered'
<1>1. /\ candidates' = candidates /\ pc = "triage" /\ pc' = "settle" /\ asked' = 1
  BY DEF Split, Metered
<1>2. PICK n \in Nat : n = Len(candidates) /\ 1 <= n
  BY DEF Split, IInv, TypeOK
<1>3. PICK mid \in Nat :
          /\ 1 <= mid /\ mid <= n /\ mid - 1 \in Nat
          /\ stack' = << Span(1, mid - 1), Span(mid, n) >>
  <2>1. stack' = Halves(Span(1, n))
    BY <1>2 DEF Split
  <2> QED
    BY <1>2, <2>1, HalvesFacts
<1>4. /\ stack'[1].lo = 1 /\ stack'[1].hi = mid - 1
      /\ stack'[2].lo = mid /\ stack'[2].hi = n
      /\ Len(stack') = 2 /\ stack' # << >>
  BY <1>3 DEF Span
<1>5. Passed' = 0 /\ Open' >= 1
  BY <1>3, <1>4 DEF Passed, Open
<1>6. \A i \in 2..Len(stack') : stack'[i].lo <= stack'[i].hi
  BY <1>2, <1>3, <1>4
<1>7. Roomy'
  <2>1. \A i \in 1..2 : i = 1 \/ i = 2
    OBVIOUS
  <2> QED
    BY <1>1, <1>2, <1>3, <1>4, <2>1 DEF Roomy
<1>8. Open' \in Int
  BY <1>4 DEF Open
<1>9. 1 <= 2 * Passed' + Open'
  <2>1. PICK k \in Int : k = Open'
    BY <1>8
  <2>2. k >= 1 /\ 2 * Passed' = 0
    BY <1>5, <2>1
  <2> QED
    BY <2>1, <2>2
<1> QED
  BY <1>1, <1>5, <1>6, <1>7, <1>8, <1>9 DEF Metered

\* What popping the top leaves.
LEMMA MeteredPop ==
    ASSUME IInv, Metered, pc = "settle", stack # << >>, stack' = Tail(stack), candidates' = candidates
    PROVE  /\ Group.lo \in Nat /\ Group.hi \in Nat /\ Group.lo <= Group.hi + 1
           /\ Passed = Group.lo - 1 /\ Passed' = Group.hi
           /\ Len(stack) \in Nat /\ Len(stack) >= 1
           /\ Open = IF Group.hi < Group.lo THEN Len(stack) - 1 ELSE Len(stack)
           /\ Open' = Len(stack) - 1
           /\ \A i \in 2..Len(stack') : stack'[i].lo <= stack'[i].hi
           /\ Roomy'
<1>1. TypeOK /\ Partition /\ stack \in Seq(Spans)
  BY DEF IInv, TypeOK
<1>2. /\ Group \in Spans /\ Group.lo <= Group.hi + 1
      /\ Tail(stack) \in Seq(Spans)
      /\ Tail(stack) # << >> => Head(Tail(stack)).lo = Group.hi + 1
      /\ Tail(stack) = << >> => Group.hi = Len(candidates)
  BY <1>1, TopOfStack
<1>3. /\ Len(stack) \in Nat /\ Len(stack) >= 1 /\ Group = stack[1]
      /\ Len(stack') = Len(stack) - 1
      /\ \A i \in 1..(Len(stack) - 1) : stack'[i] = stack[i+1] /\ stack[i+1] \in Spans
  BY <1>1, HeadTail DEF Group
<1>4. \A i \in 2..Len(stack') : stack'[i].lo <= stack'[i].hi
  <2> SUFFICES ASSUME NEW i \in 2..Len(stack') PROVE stack'[i].lo <= stack'[i].hi
    OBVIOUS
  <2>1. i + 1 \in 2..Len(stack) /\ stack'[i] = stack[i+1]
    BY <1>3
  <2> QED
    BY <2>1 DEF Metered
<1>r. Roomy'
  <2> SUFFICES ASSUME NEW i \in 1..Len(stack')
               PROVE  Len(stack') - i <= Len(candidates) - stack'[i].hi
    BY DEF Roomy
  <2>1. i + 1 \in 1..Len(stack) /\ stack'[i] = stack[i+1] /\ stack[i+1] \in Spans
    BY <1>3
  <2>2. Len(stack) - (i + 1) <= Len(candidates) - stack[i+1].hi
    BY <2>1 DEF Metered, Roomy
  <2> QED
    BY <1>3, <2>1, <2>2
<1>5. Passed = Group.lo - 1 /\ Group.lo \in Nat /\ Group.hi \in Nat
  BY <1>2, <1>3 DEF Passed, Spans
<1>6. Passed' = Group.hi /\ Open' = Len(stack) - 1
  <2>1. CASE Tail(stack) = << >>
    BY <1>2, <1>3, <2>1 DEF Passed, Open
  <2>2. CASE Tail(stack) # << >>
    <3>1. Len(stack') >= 1 /\ stack'[1] = stack[2] /\ 2 \in 2..Len(stack) /\ Head(stack') = stack'[1]
      BY <1>2, <1>3, <2>2, HeadTail
    <3>2. stack'[1].lo <= stack'[1].hi /\ stack'[1] \in Spans
      BY <1>3, <3>1 DEF Metered
    <3>3. stack'[1].lo = Group.hi + 1
      BY <1>2, <2>2, <3>1
    <3>4. ~(stack'[1].hi < stack'[1].lo)
      <4>1. stack'[1].hi \in Nat /\ stack'[1].lo \in Nat
        BY <3>2 DEF Spans
      <4>2. \A x, y \in Nat : x <= y => ~(y < x)
        OBVIOUS
      <4> QED
        BY <3>2, <4>1, <4>2
    <3> QED
      BY <1>3, <1>5, <2>2, <3>3, <3>4 DEF Passed, Open
  <2> QED
    BY <2>1, <2>2
<1> QED
  BY <1>2, <1>3, <1>4, <1>5, <1>6, <1>r DEF Open

LEMMA MeteredHalve == ASSUME IInv, Metered, SettleHalve PROVE Metered'
<1>1. /\ candidates' = candidates /\ pc = "settle" /\ pc' = "settle" /\ asked' = asked + 1
      /\ stack # << >> /\ Group.lo < Group.hi /\ stack' = Halves(Group) \o Tail(stack)
  BY DEF SettleHalve
<1>2. TypeOK /\ Partition /\ stack \in Seq(Spans) /\ asked \in Nat
  BY <1>1 DEF IInv, TypeOK
<1>3. /\ Group \in Spans /\ 1 <= Group.lo /\ Tail(stack) \in Seq(Spans) /\ Group = stack[1]
      /\ Len(stack) \in Nat /\ Len(stack) >= 1 /\ Len(Tail(stack)) = Len(stack) - 1
      /\ \A i \in 1..(Len(stack) - 1) : Tail(stack)[i] = stack[i+1]
  BY <1>1, <1>2, TopOfStack, HeadTail DEF Group
<1>4. PICK lo \in Nat, hi \in Nat : Group = Span(lo, hi) /\ lo = Group.lo /\ hi = Group.hi
  BY <1>3 DEF Spans, Span
<1>5. /\ lo < hi /\ Halves(Group) = << Span(lo, Mid(Group) - 1), Span(Mid(Group), hi) >>
      /\ Mid(Group) \in Nat /\ lo < Mid(Group) /\ Mid(Group) <= hi
  BY <1>1, <1>4 DEF Halves, Mid
<1>6. PICK mid \in Nat : /\ lo < mid /\ mid <= hi
                         /\ Halves(Group) = << Span(lo, mid - 1), Span(mid, hi) >>
  BY <1>5
<1>7. /\ Span(lo, mid - 1) \in Spans /\ Span(mid, hi) \in Spans
      /\ Span(lo, mid - 1).lo = lo /\ Span(lo, mid - 1).hi = mid - 1
      /\ Span(mid, hi).lo = mid /\ Span(mid, hi).hi = hi
  BY <1>6, SpanBounds
<1>8. /\ Halves(Group) \in Seq(Spans) /\ Len(Halves(Group)) = 2
      /\ Halves(Group)[1] = Span(lo, mid - 1) /\ Halves(Group)[2] = Span(mid, hi)
  BY <1>6, <1>7
<1>9. /\ stack' \in Seq(Spans) /\ Len(stack') = Len(stack) + 1
      /\ stack'[1] = Span(lo, mid - 1) /\ stack'[2] = Span(mid, hi)
      /\ \A i \in 1..(Len(stack) - 1) : stack'[2 + i] = stack[i+1]
  <2>1. PICK a \in Seq(Spans), b \in Seq(Spans) : a = Halves(Group) /\ b = Tail(stack)
    BY <1>3, <1>8
  <2>2. /\ a \o b \in Seq(Spans) /\ Len(a \o b) = Len(a) + Len(b)
        /\ \A i \in 1..Len(a) : (a \o b)[i] = a[i]
        /\ \A i \in 1..Len(b) : (a \o b)[Len(a) + i] = b[i]
    BY ConcatByIndex
  <2>3. stack' = a \o b /\ Len(a) = 2 /\ Len(b) = Len(stack) - 1
    BY <1>1, <1>3, <1>8, <2>1
  <2>4. stack'[1] = a[1] /\ stack'[2] = a[2]
    BY <2>2, <2>3
  <2>5. \A i \in 1..(Len(stack) - 1) : stack'[2 + i] = b[i] /\ b[i] = stack[i+1]
    BY <1>3, <2>1, <2>2, <2>3
  <2>6. a[1] = Span(lo, mid - 1) /\ a[2] = Span(mid, hi)
    BY <1>8, <2>1
  <2>7. stack' \in Seq(Spans) /\ Len(stack') = Len(stack) + 1
    BY <1>3, <2>2, <2>3
  <2> QED
    BY <2>4, <2>5, <2>6, <2>7
<1>10. Passed' = Passed /\ Open = Len(stack) /\ Open' = Len(stack) + 1 /\ Passed \in Int
  <2>1. stack' # << >>
    BY <1>3, <1>9
  <2> QED
    <3>1. stack'[1].lo = lo /\ stack'[1].hi = mid - 1 /\ ~(mid - 1 < lo)
      BY <1>6, <1>7, <1>9
    <3>2. stack[1].lo = lo /\ stack[1].hi = hi /\ ~(hi < lo)
      BY <1>3, <1>4, <1>5
    <3> QED
      BY <1>1, <1>3, <1>9, <2>1, <3>1, <3>2 DEF Passed, Open
<1>11. \A i \in 2..Len(stack') : stack'[i].lo <= stack'[i].hi
  <2> SUFFICES ASSUME NEW i \in 2..Len(stack') PROVE stack'[i].lo <= stack'[i].hi
    OBVIOUS
  <2>1. CASE i = 2
    BY <1>6, <1>7, <1>9, <2>1
  <2>2. CASE i # 2
    <3>1. i - 2 \in 1..(Len(stack) - 1) /\ (i - 2) + 1 \in 2..Len(stack) /\ i = 2 + (i - 2)
      BY <1>3, <1>9, <2>2
    <3>2. stack'[i] = stack[(i - 2) + 1]
      BY <1>9, <3>1
    <3> QED
      BY <1>1, <3>1, <3>2 DEF Metered
  <2> QED
    BY <2>1, <2>2
<1>12. Roomy'
  <2> SUFFICES ASSUME NEW i \in 1..Len(stack')
               PROVE  Len(stack') - i <= Len(candidates) - stack'[i].hi
    BY <1>1 DEF Roomy
  <2>0. Len(stack) - 1 <= Len(candidates) - hi /\ Len(candidates) \in Nat
    <3>1. 1 \in 1..Len(stack) /\ stack[1].hi = hi
      BY <1>3, <1>4
    <3>2. Len(stack) - 1 <= Len(candidates) - stack[1].hi
      BY <1>1, <3>1 DEF Metered, Roomy
    <3> QED
      BY <1>2, <3>1, <3>2 DEF TypeOK
  <2>1. CASE i = 1
    <3>1. stack'[i].hi = mid - 1
      BY <1>7, <1>9, <2>1
    <3> QED
      BY <1>3, <1>6, <1>9, <2>0, <2>1, <3>1
  <2>2. CASE i = 2
    <3>1. stack'[i].hi = hi
      BY <1>7, <1>9, <2>2
    <3> QED
      BY <1>3, <1>9, <2>0, <2>2, <3>1
  <2>3. CASE i # 1 /\ i # 2
    <3>1. i - 1 \in 1..Len(stack) /\ i - 2 \in 1..(Len(stack) - 1) /\ i = 2 + (i - 2)
          /\ (i - 2) + 1 = i - 1
      BY <1>3, <1>9, <2>3
    <3>2. stack'[i] = stack[i - 1]
      BY <1>9, <3>1
    <3>3. Len(stack) - (i - 1) <= Len(candidates) - stack[i - 1].hi
      BY <1>1, <3>1 DEF Metered, Roomy
    <3> QED
      BY <1>3, <1>9, <3>1, <3>2, <3>3
  <2> QED
    BY <2>1, <2>2, <2>3
<1>13. asked <= 2 * Passed + Open
  BY <1>1 DEF Metered
<1> QED
  BY <1>1, <1>2, <1>3, <1>10, <1>11, <1>12, <1>13 DEF Metered

LEMMA NextMetered == IInv /\ Metered /\ [Next]_vars => Metered'
<1> SUFFICES ASSUME IInv, Metered, [Next]_vars PROVE Metered'
  OBVIOUS
<1>a. asked \in Nat /\ candidates \in Seq(Edit) /\ Len(candidates) \in Nat
  BY DEF IInv, TypeOK
<1>1. CASE Drop \/ Refuse \/ Keep
  BY <1>1 DEF Drop, Refuse, Keep, Metered
<1>2. CASE NoCandidates
  BY <1>a, <1>2 DEF NoCandidates, Metered
<1>3. CASE Batch
  <2>1. Len(candidates) >= 1
    BY <1>a, <1>3 DEF Batch
  <2> QED
    BY <1>a, <1>3, <2>1 DEF Batch, Metered
<1>4. CASE Split
  BY <1>4, MeteredSplit
<1>5. CASE SettleEmpty
  BY <1>a, <1>5, MeteredPop DEF SettleEmpty, Metered
<1>6. CASE SettleLand \/ SettleRefuse
  <2>1. /\ pc = "settle" /\ pc' = "settle" /\ stack # << >> /\ Group.lo <= Group.hi
        /\ asked' = asked + 1 /\ stack' = Tail(stack) /\ candidates' = candidates
    BY <1>6, MeteredPop DEF SettleLand, SettleRefuse, IInv, TypeOK, Partition
  <2>2. /\ Group.lo \in Nat /\ Group.hi \in Nat
        /\ Passed = Group.lo - 1 /\ Passed' = Group.hi
        /\ Len(stack) \in Nat
        /\ Open = IF Group.hi < Group.lo THEN Len(stack) - 1 ELSE Len(stack)
        /\ Open' = Len(stack) - 1
        /\ \A i \in 2..Len(stack') : stack'[i].lo <= stack'[i].hi
        /\ Roomy'
    BY <2>1, MeteredPop
  <2>3. asked <= 2 * Passed + Open
    BY <2>1 DEF Metered
  <2>4. asked' <= 2 * Passed' + Open'
    <3>1. PICK n \in Nat, lo \in Nat, hi \in Nat, k \in Nat :
              n = asked /\ lo = Group.lo /\ hi = Group.hi /\ k = Len(stack)
      BY <1>a, <2>2
    <3>2. lo <= hi /\ Passed = lo - 1 /\ Open = k /\ Passed' = hi /\ Open' = k - 1 /\ asked' = n + 1
      BY <2>1, <2>2, <3>1
    <3>3. n <= 2 * (lo - 1) + k
      BY <2>3, <3>1, <3>2
    <3>4. n + 1 <= 2 * hi + (k - 1)
      BY <3>2, <3>3
    <3> QED
      BY <3>2, <3>4
  <2> QED
    BY <2>1, <2>2, <2>4 DEF Metered
<1>7. CASE SettleHalve
  BY <1>7, MeteredHalve
<1>8. CASE Finish
  <2>1. stack = << >> /\ Len(stack) = 0 /\ pc = "settle"
    BY <1>8 DEF Finish
  <2> QED
    BY <1>a, <1>8, <2>1 DEF Finish, Metered, Passed, Open
<1>9. CASE UNCHANGED vars
  BY <1>9 DEF vars, Metered, Passed, Open, Roomy
<1> QED
  BY <1>1, <1>2, <1>3, <1>4, <1>5, <1>6, <1>7, <1>8, <1>9 DEF Next

\* The parser is asked at most twice per candidate, however the bisection
\* goes (edit.go:129, 141).
THEOREM AsksFew == Spec => []FewReparses
<1>1. Init => Metered
  BY DEF Init, Metered
<1>2. IInv /\ Metered => FewReparses
  <2> SUFFICES ASSUME IInv, Metered PROVE asked <= 2 * Len(candidates)
    BY DEF FewReparses
  <2>1. asked \in Nat /\ Len(candidates) \in Nat /\ pc \in {"triage", "settle", "done"}
    BY DEF IInv, TypeOK
  <2>2. CASE pc = "settle"
    <3>1. asked <= 2 * Passed + Open /\ Roomy
      BY <2>2 DEF Metered
    <3>2. CASE stack = << >>
      BY <2>1, <3>1, <3>2 DEF Passed, Open
    <3>3. CASE stack # << >>
      <4>1. /\ Len(stack) \in Nat /\ Len(stack) >= 1 /\ 1 \in 1..Len(stack) /\ stack[1].lo \in Nat /\ stack[1].hi \in Nat
        <5>1. stack \in Seq(Spans)
          BY DEF IInv, TypeOK
        <5>2. Len(stack) \in Nat /\ Len(stack) >= 1 /\ stack[1] \in Spans
          BY <3>3, <5>1, HeadTail
        <5> QED
          BY <5>2 DEF Spans
      <4>2. Len(stack) - 1 <= Len(candidates) - stack[1].hi /\ stack[1].lo <= stack[1].hi + 1
        BY <2>2, <3>1, <4>1 DEF Roomy, IInv, Partition
      <4> QED
        <5>1. PICK n \in Nat, k \in Nat, lo \in Nat, hi \in Nat :
                  n = Len(candidates) /\ k = Len(stack) /\ k >= 1 /\ lo = stack[1].lo /\ hi = stack[1].hi
          BY <2>1, <4>1
        <5>2. Passed = lo - 1 /\ Open = IF hi < lo THEN k - 1 ELSE k
          BY <3>3, <5>1 DEF Passed, Open
        <5>3. k >= 1 /\ k - 1 <= n - hi /\ lo <= hi + 1 /\ asked <= 2 * (lo - 1) + Open
          BY <3>1, <4>2, <5>1, <5>2
        <5>4. CASE hi < lo
          <6>1. Open = k - 1 /\ lo = hi + 1
            BY <5>2, <5>3, <5>4
          <6>2. asked <= 2 * hi + (k - 1)
            BY <5>3, <6>1
          <6> QED
            BY <2>1, <5>1, <5>3, <6>2
        <5>5. CASE ~(hi < lo)
          <6>1. asked <= 2 * (lo - 1) + k
            BY <5>2, <5>3, <5>5
          <6>2. PICK a \in Nat : a = asked
            BY <2>1
          <6>3. lo <= hi /\ hi <= n /\ a <= 2 * (lo - 1) + k
            BY <5>3, <5>5, <6>1, <6>2
          <6>4. a <= 2 * n
            BY <5>3, <6>3
          <6> QED
            BY <5>1, <6>2, <6>4
        <5> QED
          BY <5>4, <5>5
    <3> QED
      BY <3>2, <3>3
  <2> QED
    BY <2>1, <2>2 DEF Metered
<1> QED
  BY <1>1, <1>2, InitIInv, NextIInv, NextMetered, PTL DEF Spec

-----------------------------------------------------------------------------
(* What Splice and Shift compute.                                           *)

\* A stretch of a sequence of bytes is one.
LEMMA StretchType ==
    ASSUME NEW src \in Seq(Byte), NEW from \in Nat, NEW to \in Int, to <= Len(src)
    PROVE  SubSeq(src, from + 1, to) \in Seq(Byte)
<1>1. \A i \in (from+1)..to : src[i] \in Byte
  OBVIOUS
<1>2. CASE from + 1 <= to
  BY <1>1, <1>2
<1>3. CASE ~(from + 1 <= to)
  <2>1. SubSeq(src, from + 1, to) = << >>
    BY <1>3
  <2> QED
    BY <2>1
<1> QED
  BY <1>2, <1>3

\* Concatenation may be regrouped.
LEMMA Regroup ==
    ASSUME NEW a \in Seq(Byte), NEW b \in Seq(Byte), NEW c \in Seq(Byte)
    PROVE  a \o (b \o c) = (a \o b) \o c
BY ConcatAssociative

InBounds(src, es) == \A i \in 1..Len(es) : ~OutOfBounds(src, es[i])
Piece(src, es, i) == SubSeq(src, Resume(es, i-1) + 1, es[i].start) \o es[i].text

\* What an edit inside the source adds to the text: the bytes up to it, and
\* its own.
LEMMA PieceType ==
    ASSUME NEW src \in Seq(Byte), NEW es \in Seq(Edit),
           InBounds(src, es), NEW i \in 1..Len(es)
    PROVE  /\ Resume(es, i-1) \in Nat /\ Resume(es, i) \in Nat /\ Resume(es, i) <= Len(src)
           /\ es[i].start \in Nat /\ es[i].end \in Nat
           /\ es[i].start <= es[i].end /\ es[i].end <= Len(src)
           /\ SubSeq(src, Resume(es, i-1) + 1, es[i].start) \in Seq(Byte)
           /\ es[i].text \in Seq(Byte)
           /\ Piece(src, es, i) \in Seq(Byte)
<1>1. \A j \in 1..Len(es) : /\ es[j].start \in Nat /\ es[j].end \in Nat /\ es[j].text \in Seq(Byte)
                            /\ es[j].start <= es[j].end /\ es[j].end <= Len(src)
  <2> SUFFICES ASSUME NEW j \in 1..Len(es)
               PROVE  /\ es[j].start \in Nat /\ es[j].end \in Nat /\ es[j].text \in Seq(Byte)
                      /\ es[j].start <= es[j].end /\ es[j].end <= Len(src)
    OBVIOUS
  <2>1. es[j] \in Edit /\ ~OutOfBounds(src, es[j])
    BY DEF InBounds
  <2>2. es[j].start \in Int /\ es[j].end \in Int /\ es[j].text \in Seq(Byte)
    BY <2>1 DEF Edit
  <2>3. ~(es[j].start < 0) /\ ~(es[j].end > Len(src)) /\ ~(es[j].start > es[j].end)
    BY <2>1 DEF OutOfBounds
  <2>4. PICK a \in Int, b \in Int, c \in Int : a = es[j].start /\ b = es[j].end /\ c = Len(src)
    BY <2>2
  <2>5. a >= 0 /\ b <= c /\ a <= b
    BY <2>3, <2>4
  <2> QED
    BY <2>2, <2>4, <2>5
<1>2. i - 1 = 0 \/ i - 1 \in 1..Len(es)
  OBVIOUS
<1>3. Resume(es, i-1) \in Nat /\ Resume(es, i) \in Nat /\ Resume(es, i) <= Len(src)
  BY <1>1, <1>2 DEF Resume
<1>4. SubSeq(src, Resume(es, i-1) + 1, es[i].start) \in Seq(Byte)
  <2>1. PICK r \in Nat, t \in Int : r = Resume(es, i-1) /\ t = es[i].start /\ t <= Len(src)
    BY <1>1, <1>3
  <2> QED
    BY <2>1, StretchType
<1> QED
  BY <1>1, <1>3, <1>4 DEF Piece

Leftover(src, es) == SubSeq(src, Resume(es, Len(es)) + 1, Len(src))
\* w[i] is the text up to and with the edit i.
Writes(w, src, es) ==
    /\ w \in [0..Len(es) -> Seq(Byte)]
    /\ w[0] = << >>
    /\ \A i \in 1..Len(es) : w[i] = w[i-1] \o Piece(src, es, i)

\* Splice is what its recursion computes, one edit at a time.
LEMMA SpliceRuns ==
    ASSUME NEW src \in Seq(Byte), NEW es \in Seq(Edit),
           InBounds(src, es)
    PROVE  \E w : Writes(w, src, es) /\ Splice(src, es) = w[Len(es)] \o Leftover(src, es)
<1>0. PICK n \in Nat : n = Len(es)
  OBVIOUS
<1> DEFINE step == [p \in (1..n) \X Seq(Byte) |-> p[2] \o Piece(src, es, p[1])]
           body(f, i) == IF i = 0 THEN << >>
                         ELSE f[i-1] \o SubSeq(src, Resume(es, i-1) + 1, es[i].start)
                                     \o es[i].text
           g == CHOOSE f : f = [i \in 0..Len(es) |-> body(f, i)]
<1>1. step \in [(1..n) \X Seq(Byte) -> Seq(Byte)]
  <2> SUFFICES ASSUME NEW p \in (1..n) \X Seq(Byte) PROVE p[2] \o Piece(src, es, p[1]) \in Seq(Byte)
    OBVIOUS
  <2>1. p[2] \in Seq(Byte) /\ Piece(src, es, p[1]) \in Seq(Byte)
    BY <1>0, PieceType
  <2> QED
    BY <2>1
<1>2. PICK f \in [0..n -> Seq(Byte)] :
          f[0] = << >> /\ \A i \in 1..n : f[i] = step[<< i, f[i-1] >>]
  <2>1. << >> \in Seq(Byte)
    OBVIOUS
  <2>2. \E f : Repeats(f, n, Seq(Byte), << >>, step)
    <3> HIDE DEF step
    <3> QED
      BY <1>1, <2>1, Recursion
  <2> HIDE DEF step
  <2> QED
    BY <2>2 DEF Repeats
<1>3. \A i \in 1..n : f[i] = f[i-1] \o Piece(src, es, i) /\ f[i-1] \in Seq(Byte)
  <2> SUFFICES ASSUME NEW i \in 1..n PROVE f[i] = f[i-1] \o Piece(src, es, i) /\ f[i-1] \in Seq(Byte)
    OBVIOUS
  <2>1. i - 1 \in 0..n
    OBVIOUS
  <2>2. f[i-1] \in Seq(Byte)
    BY <1>2, <2>1
  <2> QED
    BY <1>2, <2>2
<1>4. ASSUME NEW i \in 1..n, NEW x \in Seq(Byte)
      PROVE  x \o Piece(src, es, i) = (x \o SubSeq(src, Resume(es, i-1) + 1, es[i].start)) \o es[i].text
  <2>1. PICK b \in Seq(Byte), c \in Seq(Byte) :
            b = SubSeq(src, Resume(es, i-1) + 1, es[i].start) /\ c = es[i].text
    BY <1>0, PieceType
  <2>2. x \o (b \o c) = (x \o b) \o c
    BY Regroup
  <2> QED
    BY <2>1, <2>2 DEF Piece
<1>5. f = [i \in 0..Len(es) |-> body(f, i)]
  <2>1. ASSUME NEW i \in 0..n PROVE f[i] = body(f, i)
    <3>1. CASE i = 0
      BY <1>2, <3>1
    <3>2. CASE i # 0
      <4>1. i \in 1..n
        BY <3>2
      <4> QED
        BY <1>3, <1>4, <3>2, <4>1
    <3> QED
      BY <3>1, <3>2
  <2> HIDE DEF body
  <2> QED
    BY <1>0, <1>2, <2>1
<1>6. g = [i \in 0..Len(es) |-> body(g, i)]
  <2> HIDE DEF body
  <2> QED
    BY <1>5
<1>7. Splice(src, es) = g[Len(es)] \o SubSeq(src, Resume(es, Len(es)) + 1, Len(src))
  BY Zenon DEF Splice
<1> HIDE DEF g
<1> DEFINE T == {i \in Nat : i <= n => g[i] = f[i]}
<1>8. 0 \in T
  BY <1>0, <1>2, <1>6
<1>9. ASSUME NEW i \in T \cap Nat PROVE i + 1 \in T
  <2> SUFFICES ASSUME i + 1 <= n PROVE g[i+1] = f[i+1]
    OBVIOUS
  <2>1. i + 1 \in 1..n /\ (i + 1) - 1 = i /\ g[i] = f[i] /\ i + 1 # 0 /\ i + 1 \in 0..Len(es)
    BY <1>0
  <2>2. g[i+1] = body(g, i+1)
    <3> HIDE DEF body
    <3> QED
      BY <1>6, <2>1
  <2>3. body(g, i+1) = body(f, i+1)
    BY <2>1
  <2>4. f[i+1] = body(f, i+1)
    <3> HIDE DEF body
    <3> QED
      BY <1>5, <2>1
  <2> QED
    BY <2>2, <2>3, <2>4
<1>10. n \in T
  <2> HIDE DEF T
  <2> QED
    BY <1>8, <1>9, NatInduct
<1>11. g[n] = f[n]
  BY <1>10
<1> QED
  BY <1>0, <1>2, <1>3, <1>7, <1>11 DEF Writes, Leftover

Disjoint(es) == \A i, j \in 1..Len(es) : i < j => es[i].end <= es[j].start
\* h[i] is where an end at to stands after the first i edits.
Grows(h, to, es) ==
    /\ h \in [0..Len(es) -> Int] /\ h[0] = to
    /\ \A i \in 1..Len(es) : h[i] = h[i-1] + Delta(es[i])

\* Shift moves the end of a scope by the growth of every edit inside it.
LEMMA ShiftRuns ==
    ASSUME NEW es \in Seq(Edit), NEW s \in Scope, s.bounded,
           \A i \in 1..Len(es) : es[i].end <= s.end
    PROVE  \E h : Grows(h, s.end, es) /\ Shift(s, es).end = h[Len(es)]
<1>0. PICK n \in Nat : n = Len(es)
  OBVIOUS
<1>0a. s.end \in Int /\ \A i \in 1..n : Delta(es[i]) \in Int
  <2>1. ASSUME NEW i \in 1..n PROVE Delta(es[i]) \in Int
    <3>1. es[i] \in Edit
      BY <1>0
    <3>2. es[i].start \in Int /\ es[i].end \in Int /\ Len(es[i].text) \in Nat
      BY <3>1 DEF Edit
    <3> QED
      BY <3>2 DEF Delta
  <2> QED
    BY <2>1 DEF Scope
<1> DEFINE step == [p \in (1..n) \X Int |-> p[2] + Delta(es[p[1]])]
           body(f, i) == IF i = 0 THEN s.end
                         ELSE f[i-1] + (IF es[i].end <= s.end THEN Delta(es[i]) ELSE 0)
           g == CHOOSE f : f = [i \in 0..Len(es) |-> body(f, i)]
<1>1. step \in [(1..n) \X Int -> Int]
  BY <1>0a
<1>2. PICK f : Repeats(f, n, Int, s.end, step)
  <2> HIDE DEF step
  <2> QED
    BY <1>0a, <1>1, Recursion
<1>3. /\ f \in [0..n -> Int] /\ f[0] = s.end
      /\ \A i \in 1..n : f[i] = f[i-1] + Delta(es[i])
  <2>1. /\ f \in [0..n -> Int] /\ f[0] = s.end
        /\ \A i \in 1..n : f[i] = step[<< i, f[i-1] >>]
    <3> HIDE DEF step
    <3> QED
      BY <1>2 DEF Repeats
  <2>2. ASSUME NEW i \in 1..n PROVE f[i] = f[i-1] + Delta(es[i])
    <3>1. i - 1 \in 0..n
      OBVIOUS
    <3>2. f[i-1] \in Int
      BY <2>1, <3>1
    <3> QED
      BY <2>1, <3>2
  <2> QED
    BY <2>1, <2>2
<1>5. f = [i \in 0..Len(es) |-> body(f, i)]
  <2>1. ASSUME NEW i \in 0..n PROVE f[i] = body(f, i)
    <3>1. CASE i = 0
      BY <1>3, <3>1
    <3>2. CASE i # 0
      <4>1. i \in 1..n /\ es[i].end <= s.end
        BY <1>0, <3>2
      <4> QED
        BY <1>3, <3>2, <4>1
    <3> QED
      BY <3>1, <3>2
  <2> HIDE DEF body
  <2> QED
    BY <1>0, <1>3, <2>1
<1>6. g = [i \in 0..Len(es) |-> body(g, i)]
  <2> HIDE DEF body
  <2> QED
    BY <1>5
<1>7. Shift(s, es).end = g[Len(es)]
  BY Zenon DEF Shift, Within
<1> HIDE DEF g
<1> DEFINE T == {i \in Nat : i <= n => g[i] = f[i]}
<1>8. 0 \in T
  BY <1>0, <1>3, <1>6
<1>9. ASSUME NEW i \in T \cap Nat PROVE i + 1 \in T
  <2> SUFFICES ASSUME i + 1 <= n PROVE g[i+1] = f[i+1]
    OBVIOUS
  <2>1. i + 1 \in 1..n /\ (i + 1) - 1 = i /\ g[i] = f[i] /\ i + 1 # 0 /\ i + 1 \in 0..Len(es)
    BY <1>0
  <2>2. g[i+1] = body(g, i+1)
    <3> HIDE DEF body
    <3> QED
      BY <1>6, <2>1
  <2>3. body(g, i+1) = body(f, i+1)
    BY <2>1
  <2>4. f[i+1] = body(f, i+1)
    <3> HIDE DEF body
    <3> QED
      BY <1>5, <2>1
  <2> QED
    BY <2>2, <2>3, <2>4
<1>10. n \in T
  <2> HIDE DEF T
  <2> QED
    BY <1>8, <1>9, NatInduct
<1>11. g[n] = f[n]
  BY <1>10
<1> QED
  BY <1>0, <1>3, <1>7, <1>11 DEF Grows

\* A stretch of a sequence of bytes, by index.
LEMMA StretchByIndex ==
    ASSUME NEW src \in Seq(Byte), NEW from \in Nat, NEW to \in Nat, from <= to, to <= Len(src)
    PROVE  /\ SubSeq(src, from + 1, to) \in Seq(Byte)
           /\ Len(SubSeq(src, from + 1, to)) = to - from
           /\ \A k \in 1..(to - from) : SubSeq(src, from + 1, to)[k] = src[from + k]
<1>1. SubSeq(src, from + 1, to) \in Seq(Byte)
  BY StretchType
<1>2. Len(SubSeq(src, from + 1, to)) = to - from
  BY <1>1
<1>3. ASSUME NEW k \in 1..(to - from)
      PROVE  SubSeq(src, from + 1, to)[k] = src[from + k]
  BY <1>3
<1> QED
  BY <1>1, <1>2, <1>3

\* The text up to the edit i is longer than the source up to it by what the
\* edits added, and begins with the bytes before from.
Kept(w, h, src, es, from, to, i) ==
    /\ w[i] \in Seq(Byte)
    /\ Len(w[i]) - Resume(es, i) = h[i] - to
    /\ i # 0 => \A k \in 1..Len(src) : k <= from => k <= Len(w[i]) /\ w[i][k] = src[k]

\* Edits that begin at or after from keep the bytes before it.
LEMMA RunKeeps ==
    ASSUME NEW src \in Seq(Byte), NEW es \in Seq(Edit), NEW w, Writes(w, src, es),
           InBounds(src, es), Disjoint(es),
           NEW from \in Int, \A i \in 1..Len(es) : from <= es[i].start,
           NEW to \in Int, NEW h, Grows(h, to, es)
    PROVE  \A i \in 0..Len(es) : Kept(w, h, src, es, from, to, i)
<1>0. PICK n \in Nat : n = Len(es)
  OBVIOUS
<1> USE DEF InBounds, Disjoint, Grows
<1> DEFINE Now(i) == /\ w[i] \in Seq(Byte)
                     /\ Len(w[i]) - Resume(es, i) = h[i] - to
                     /\ i # 0 => \A k \in 1..Len(src) : k <= from => k <= Len(w[i]) /\ w[i][k] = src[k]
           T == {i \in Nat : i <= n => Now(i)}
<1>1. 0 \in T
  BY <1>0 DEF Writes, Resume
<1>2. ASSUME NEW i \in T \cap Nat PROVE i + 1 \in T
  <2> SUFFICES ASSUME i + 1 <= n PROVE Now(i + 1)
    OBVIOUS
  <2>0. Now(i) /\ i \in Nat /\ i \in 0..n
    OBVIOUS
  <2> HIDE DEF T
  <2>1. i + 1 \in 1..n /\ (i + 1) - 1 = i /\ i + 1 \in 0..n /\ i + 1 # 0
    <3>1. i \in Nat
      BY <2>0
    <3> HIDE DEF Now
    <3> QED
      BY <3>1
  <2>2. w[i+1] = w[i] \o Piece(src, es, i+1) /\ w[i+1] \in Seq(Byte)
    BY <1>0, <2>1 DEF Writes
  <2>3. /\ Resume(es, i) \in Nat /\ Resume(es, i+1) = es[i+1].end
        /\ es[i+1].start \in Nat /\ es[i+1].end \in Nat
        /\ es[i+1].start <= es[i+1].end /\ es[i+1].end <= Len(src)
        /\ SubSeq(src, Resume(es, i) + 1, es[i+1].start) \in Seq(Byte)
        /\ es[i+1].text \in Seq(Byte)
        /\ Piece(src, es, i+1) \in Seq(Byte)
        /\ Piece(src, es, i+1) = SubSeq(src, Resume(es, i) + 1, es[i+1].start) \o es[i+1].text
    <3>1. /\ Resume(es, (i+1)-1) \in Nat
          /\ es[i+1].start \in Nat /\ es[i+1].end \in Nat
          /\ es[i+1].start <= es[i+1].end /\ es[i+1].end <= Len(src)
          /\ SubSeq(src, Resume(es, (i+1)-1) + 1, es[i+1].start) \in Seq(Byte)
          /\ es[i+1].text \in Seq(Byte)
          /\ Piece(src, es, i+1) \in Seq(Byte)
      BY <1>0, <2>1, PieceType
    <3> QED
      BY <2>1, <3>1 DEF Resume, Piece
  <2>4. Resume(es, i) <= es[i+1].start
    <3>1. CASE i = 0
      BY <2>3, <3>1 DEF Resume
    <3>2. CASE i # 0
      <4>1. i \in 1..n /\ i < i + 1
        BY <2>0, <3>2
      <4> QED
        BY <1>0, <2>1, <3>2, <4>1 DEF Resume
    <3> QED
      BY <3>1, <3>2
  <2>5a. PICK r \in Nat, s \in Nat, e \in Nat, len \in Nat :
            /\ r = Resume(es, i) /\ s = es[i+1].start /\ e = es[i+1].end /\ len = Len(src)
            /\ r <= s /\ s <= e /\ e <= len
    <3>1. /\ Resume(es, i) \in Nat /\ es[i+1].start \in Nat /\ es[i+1].end \in Nat /\ Len(src) \in Nat
          /\ es[i+1].start <= es[i+1].end /\ es[i+1].end <= Len(src)
      BY <2>3
    <3> QED
      BY <2>4, <3>1
  <2>5b. PICK a \in Seq(Byte) : a = SubSeq(src, r + 1, s)
    BY <2>3, <2>5a
  <2>5c. PICK t \in Seq(Byte), x \in Seq(Byte) : t = es[i+1].text /\ x = w[i]
    BY <2>0, <2>3
  <2>6. Len(a) = s - r /\ \A k \in 1..(s - r) : a[k] = src[r + k]
    <3>1. s <= Len(src) /\ r <= s
      BY <2>5a
    <3> QED
      BY <2>5b, <3>1, StretchByIndex
  <2>7. /\ a \o t \in Seq(Byte) /\ Len(a \o t) = Len(a) + Len(t)
        /\ \A k \in 1..Len(a) : (a \o t)[k] = a[k]
    BY ConcatByIndex
  <2>8. PICK p \in Seq(Byte) : p = a \o t /\ Len(p) = (s - r) + Len(t) /\ \A k \in 1..(s - r) : p[k] = src[r + k]
    <3>1. \A k \in 1..(s - r) : (a \o t)[k] = src[r + k]
      BY <2>6, <2>7
    <3>2. Len(a \o t) = (s - r) + Len(t)
      BY <2>6, <2>7
    <3> QED
      BY <2>7, <3>1, <3>2
  <2>9. /\ x \o p \in Seq(Byte) /\ Len(x \o p) = Len(x) + Len(p)
        /\ \A k \in 1..Len(x) : (x \o p)[k] = x[k]
        /\ \A k \in 1..Len(p) : (x \o p)[Len(x) + k] = p[k]
    BY ConcatByIndex
  <2>10. PICK y \in Seq(Byte) : y = w[i+1] /\ y = x \o p
    BY <2>2, <2>3, <2>5a, <2>5b, <2>5c, <2>8
  <2>11. PICK u \in Int, v \in Int : u = h[i] /\ v = h[i+1] /\ v = u + (Len(t) - (e - s))
    <3>1. h[i] \in Int /\ h[i+1] \in Int /\ h[i+1] = h[i] + Delta(es[i+1])
      BY <1>0, <2>0, <2>1
    <3> QED
      BY <2>5a, <2>5b, <2>5c, <3>1 DEF Delta
  <2>12. Len(w[i+1]) - Resume(es, i+1) = h[i+1] - to
    <3>1. Len(x) - r = u - to
      BY <2>0, <2>5a, <2>5b, <2>5c, <2>11
    <3>2. Len(y) = Len(x) + ((s - r) + Len(t))
      BY <2>8, <2>9, <2>10
    <3>3. PICK lx \in Nat, ly \in Nat, lt \in Nat : lx = Len(x) /\ ly = Len(y) /\ lt = Len(t)
      <4>1. Len(x) \in Nat /\ Len(y) \in Nat /\ Len(t) \in Nat
        OBVIOUS
      <4> QED
        BY <4>1
    <3>4. ly - e = v - to
      <4>1. lx - r = u - to /\ ly = lx + ((s - r) + lt) /\ v = u + (lt - (e - s))
        BY <2>11, <3>1, <3>2, <3>3
      <4> QED
        BY <4>1
    <3> QED
      BY <2>3, <2>5a, <2>5b, <2>5c, <2>10, <2>11, <3>3, <3>4
  <2>13. ASSUME NEW k \in 1..Len(src), k <= from
         PROVE  k <= Len(w[i+1]) /\ w[i+1][k] = src[k]
    <3>1. k <= s
      <4>1. from <= es[i+1].start
        BY <1>0, <2>1
      <4> QED
        BY <2>5a, <2>5b, <2>5c, <2>13, <4>1
    <3>2. CASE i = 0
      <4>1. Len(x) = 0 /\ r = 0
        BY <2>5a, <2>5b, <2>5c, <3>2 DEF Writes, Resume
      <4>2. k \in 1..(s - r) /\ k \in 1..Len(p) /\ Len(x) + k = k /\ r + k = k
        BY <2>8, <3>1, <4>1
      <4>3. y[k] = p[k] /\ p[k] = src[k] /\ k <= Len(y)
        BY <2>8, <2>9, <2>10, <4>1, <4>2
      <4> QED
        BY <2>10, <4>3
    <3>3. CASE i # 0
      <4>1. k <= Len(x) /\ x[k] = src[k]
        BY <2>0, <2>5a, <2>5b, <2>5c, <2>13, <3>3
      <4>2. k \in 1..Len(x) /\ k <= Len(y) /\ y[k] = x[k]
        BY <2>8, <2>9, <2>10, <4>1
      <4> QED
        BY <2>10, <4>1, <4>2
    <3> QED
      BY <3>2, <3>3
  <2> QED
    BY <2>2, <2>12, <2>13
<1>3. \A i \in 0..n : i \in T
  <2>1. Nat \subseteq T
    <3> HIDE DEF T
    <3> QED
      BY <1>1, <1>2, NatInduct
  <2> HIDE DEF T
  <2> QED
    BY <2>1
<1> QED
  BY <1>0, <1>3 DEF Kept

\* Edits inside a scope leave the bytes outside it, and the scope moved over
\* them ends where the tail begins.
LEMMA SpliceKeepsOutside ==
    ASSUME NEW src \in Seq(Byte), NEW es \in Seq(Edit), NEW s \in Scope,
           s.bounded, s.start <= s.end,
           InBounds(src, es), Disjoint(es), \A i \in 1..Len(es) : Admits(s, es[i])
    PROVE  /\ SubSeq(Splice(src, es), 1, s.start) = SubSeq(src, 1, s.start)
           /\ SubSeq(Splice(src, es), Shift(s, es).end + 1, Len(Splice(src, es)))
                = SubSeq(src, s.end + 1, Len(src))
<1>0. PICK n \in Nat : n = Len(es)
  OBVIOUS
<1>1. PICK from \in Int, to \in Int : from = s.start /\ to = s.end /\ from <= to
  BY DEF Scope
<1>2. \A i \in 1..n : from <= es[i].start /\ es[i].end <= to
  BY <1>0, <1>1 DEF Admits
<1>3. PICK w : Writes(w, src, es) /\ Splice(src, es) = w[n] \o Leftover(src, es)
  BY <1>0, SpliceRuns
<1>4. PICK h : Grows(h, to, es) /\ Shift(s, es).end = h[n]
  <2>1. \A i \in 1..Len(es) : es[i].end <= s.end
    BY <1>0, <1>1, <1>2
  <2> QED
    BY <1>0, <1>1, <2>1, ShiftRuns
<1>5. Kept(w, h, src, es, from, to, n)
  <2>1. \A i \in 1..Len(es) : from <= es[i].start
    BY <1>0, <1>2
  <2>2. \A i \in 0..Len(es) : Kept(w, h, src, es, from, to, i)
    BY <1>1, <1>3, <1>4, <2>1, RunKeeps
  <2> QED
    BY <1>0, <2>2
<1>6. CASE n = 0
  <2>1. es = << >> /\ Splice(src, es) = src
    <3>1. es = << >>
      <4>1. Len(es) = 0
        BY <1>0, <1>6
      <4> QED
        BY <4>1
    <3> QED
      BY <3>1, SpliceNothing
  <2>2. h[n] = to
    BY <1>4, <1>6 DEF Grows
  <2> QED
    BY <1>1, <1>4, <2>1, <2>2
<1>7. CASE n # 0
  <2>1. n \in 1..Len(es)
    BY <1>0, <1>7
  <2>2a. PICK r \in Nat, len \in Nat, e \in Int :
            /\ r = Resume(es, n) /\ len = Len(src) /\ e = h[n] /\ r <= len /\ r <= to
    <3>1. Resume(es, n) \in Nat /\ Resume(es, n) <= Len(src)
      BY <2>1, PieceType
    <3>2. Resume(es, n) <= to
      BY <1>0, <1>2, <1>7, <2>1 DEF Resume
    <3>3. h[n] \in Int /\ Len(src) \in Nat
      BY <1>0, <1>4 DEF Grows
    <3> QED
      BY <3>1, <3>2, <3>3
  <2>2b. PICK x \in Seq(Byte) : x = w[n]
    BY <1>5 DEF Kept
  <2>2c. PICK z \in Seq(Byte) : z = SubSeq(src, r + 1, len)
    <3>1. len <= Len(src) /\ r <= len
      BY <2>2a
    <3>2. SubSeq(src, r + 1, len) \in Seq(Byte)
      BY <3>1, StretchByIndex
    <3> QED
      BY <3>2
  <2>3. Len(z) = len - r /\ \A k \in 1..(len - r) : z[k] = src[r + k]
    <3>1. len <= Len(src) /\ r <= len
      BY <2>2a
    <3> QED
      BY <2>2c, <3>1, StretchByIndex
  <2>4. PICK lx \in Nat, lz \in Nat : lx = Len(x) /\ lz = Len(z) /\ lx - r = e - to /\ lz = len - r
    <3>1. Len(x) \in Nat /\ Len(z) \in Nat
      OBVIOUS
    <3>2. Len(x) - r = e - to
      BY <1>5, <2>2a, <2>2b DEF Kept
    <3> QED
      BY <2>3, <3>1, <3>2
  <2>5. /\ x \o z \in Seq(Byte) /\ Len(x \o z) = lx + lz
        /\ \A k \in 1..lx : (x \o z)[k] = x[k]
        /\ \A k \in 1..lz : (x \o z)[lx + k] = z[k]
    <3>1. /\ x \o z \in Seq(Byte) /\ Len(x \o z) = Len(x) + Len(z)
          /\ \A k \in 1..Len(x) : (x \o z)[k] = x[k]
          /\ \A k \in 1..Len(z) : (x \o z)[Len(x) + k] = z[k]
      BY ConcatByIndex
    <3> QED
      BY <2>4, <3>1
  <2>6. PICK t \in Seq(Byte) : t = Splice(src, es) /\ t = x \o z
    BY <1>0, <1>3, <2>2a, <2>2b, <2>2c, <2>5 DEF Leftover
  <2>7. PICK lt \in Nat : lt = Len(t) /\ lt = lx + lz
    BY <2>5, <2>6
  <2>8. es[n].start \in Nat /\ es[n].start <= len /\ from <= es[n].start
    <3>1. /\ es[n].start \in Nat /\ es[n].end \in Nat
          /\ es[n].start <= es[n].end /\ es[n].end <= Len(src)
      BY <2>1, PieceType
    <3> QED
      BY <1>0, <1>2, <2>1, <2>2a, <2>2b, <2>2c, <3>1
  <2>9. from <= len
    BY <2>8
  <2>10. SubSeq(t, 1, from) = SubSeq(src, 1, from)
    <3>1. CASE from < 1
      BY <3>1
    <3>2. CASE from >= 1
      <4>1. \A k \in 1..from : k <= lx /\ x[k] = src[k]
        <5> SUFFICES ASSUME NEW k \in 1..from PROVE k <= lx /\ x[k] = src[k]
          OBVIOUS
        <5>1. k \in 1..len /\ len = Len(src) /\ k <= from
          BY <2>2a, <2>9
        <5>2. k <= Len(w[n]) /\ w[n][k] = src[k]
          BY <1>5, <1>7, <5>1 DEF Kept
        <5> QED
          BY <2>2b, <2>4, <5>2
      <4>2. \A k \in 1..from : t[k] = src[k]
        BY <2>5, <2>6, <4>1
      <4> QED
        BY <3>2, <4>2
    <3> QED
      BY <3>1, <3>2
  <2>11. SubSeq(t, e + 1, lt) = SubSeq(src, to + 1, len)
    <3>1. e = to + lx - r /\ e >= lx /\ lt - e = len - to
      <4>1. r <= to /\ lx - r = e - to /\ lt = lx + (len - r)
        BY <2>2a, <2>4, <2>7
      <4> QED
        BY <4>1
    <3>2. CASE len < to + 1
      <4>1. SubSeq(src, to + 1, len) = << >> /\ SubSeq(t, e + 1, lt) = << >>
        BY <3>1, <3>2
      <4> QED
        BY <4>1
    <3>3. CASE ~(len < to + 1)
      <4>1. PICK m \in Nat : m = len - to
        BY <3>3
      <4>2. SubSeq(t, e + 1, lt) = [k \in 1..m |-> t[k + e]]
        BY <3>1, <4>1
      <4>3. SubSeq(src, to + 1, len) = [k \in 1..m |-> src[k + to]]
        BY <4>1
      <4>4. ASSUME NEW k \in 1..m PROVE t[k + e] = src[k + to]
        <5>1. PICK q \in Int : q = (to - r) + k /\ q \in 1..lz /\ lx + q = k + e /\ r + q = k + to /\ q \in 1..(len - r)
          <6>1. r <= to /\ e = to + lx - r /\ m = len - to /\ lz = len - r
            BY <2>2a, <2>4, <3>1, <4>1
          <6>2. (to - r) + k \in Int
            OBVIOUS
          <6> QED
            BY <6>1, <6>2
        <5>2. t[lx + q] = z[q] /\ z[q] = src[r + q]
          BY <2>3, <2>5, <2>6, <5>1
        <5> QED
          BY <5>1, <5>2
      <4> QED
        BY <4>2, <4>3, <4>4
    <3> QED
      BY <3>2, <3>3
  <2> QED
    BY <1>1, <1>4, <2>2a, <2>2b, <2>2c, <2>6, <2>7, <2>10, <2>11
<1> QED
  BY <1>6, <1>7

\* What has landed: edits in bounds and in scope, in order and disjoint.
LEMMA LandedEdits ==
    ASSUME IInv
    PROVE  /\ Pick(landed) \in Seq(Edit) /\ InBounds(in.src, Pick(landed)) /\ Disjoint(Pick(landed))
           /\ \A i \in 1..Len(Pick(landed)) : Admits(in.scope, Pick(landed)[i])
<1>1. /\ Pick(landed) \in Seq(Edit) /\ Len(Pick(landed)) = Len(landed)
      /\ \A i \in 1..Len(landed) : /\ Pick(landed)[i] = candidates[landed[i]]
                                   /\ landed[i] \in DOMAIN candidates
  BY PickType DEF IInv
<1>2. DOMAIN landed = 1..Len(landed)
  BY DEF IInv, TypeOK
<1>3. \A i \in 1..Len(Pick(landed)) : /\ Admits(in.scope, Pick(landed)[i])
                                      /\ ~OutOfBounds(in.src, Pick(landed)[i])
  BY <1>1 DEF IInv, Triaged
<1>4. ASSUME NEW i \in 1..Len(landed), NEW j \in 1..Len(landed), i < j
      PROVE  Pick(landed)[i].end <= Pick(landed)[j].start
  <2>1. landed[i] < landed[j]
    BY <1>2, <1>4 DEF IInv, Ascending
  <2> QED
    BY <1>1, <2>1 DEF IInv, Triaged
<1> QED
  BY <1>1, <1>3, <1>4 DEF InBounds, Disjoint

\* No byte outside a bounded scope changes, and the scope a gate returns ends
\* where the untouched tail begins (edit.go:43-44, 72, 165), whatever lands.
THEOREM OutsideAlwaysSurvives == Spec => []OutsideSurvives
<1>1. IInv => OutsideSurvives
  <2> SUFFICES ASSUME IInv, pc = "done", in.scope.bounded, in.scope.start <= in.scope.end
               PROVE  /\ SubSeq(out.text, 1, in.scope.start) = SubSeq(in.src, 1, in.scope.start)
                      /\ SubSeq(out.text, out.scope.end + 1, Len(out.text))
                           = SubSeq(in.src, in.scope.end + 1, Len(in.src))
    BY DEF OutsideSurvives, Before, After
  <2>1. CASE out = Unchanged(in.src, in.scope)
    BY <2>1 DEF Unchanged
  <2>2. CASE out = Written(Pick(landed))
    <3>1. out.text = Splice(in.src, Pick(landed)) /\ out.scope = Shift(in.scope, Pick(landed))
      BY <2>2 DEF Written
    <3>2. in.src \in Seq(Byte) /\ in.scope \in Scope
      BY DEF IInv, TypeOK, Input
    <3>3. PICK src \in Seq(Byte), s \in Scope : src = in.src /\ s = in.scope
      BY <3>2
    <3>4. PICK es \in Seq(Edit) : es = Pick(landed)
      BY LandedEdits
    <3>5. /\ InBounds(src, es) /\ Disjoint(es) /\ \A i \in 1..Len(es) : Admits(s, es[i])
          /\ s.bounded /\ s.start <= s.end
      BY <3>3, <3>4, LandedEdits
    <3>6. /\ SubSeq(Splice(src, es), 1, s.start) = SubSeq(src, 1, s.start)
          /\ SubSeq(Splice(src, es), Shift(s, es).end + 1, Len(Splice(src, es)))
                = SubSeq(src, s.end + 1, Len(src))
      BY <3>5, SpliceKeepsOutside
    <3> QED
      BY <3>1, <3>3, <3>4, <3>6
  <2> QED
    BY <2>1, <2>2 DEF IInv, Answer
<1> QED
  BY <1>1, Inductive, PTL

-----------------------------------------------------------------------------
(* What one bad edit costs.                                                 *)

Rising(s) == \A i, j \in 1..Len(s) : i < j => s[i] < s[j]
Members(s) == {s[i] : i \in 1..Len(s)}

\* Two rising runs of the same numbers agree as far as both go.
LEMMA SamePrefix ==
    ASSUME NEW a \in Seq(Nat), NEW b \in Seq(Nat), Rising(a), Rising(b), Members(a) = Members(b)
    PROVE  \A k \in 0..Len(a) : k <= Len(b) /\ \A i \in 1..k : a[i] = b[i]
<1>0. PICK n \in Nat, m \in Nat : n = Len(a) /\ m = Len(b)
  <2>1. Len(a) \in Nat /\ Len(b) \in Nat
    OBVIOUS
  <2> QED
    BY <2>1
<1>a. /\ \A i \in 1..n : a[i] \in Nat
      /\ \A i \in 1..m : b[i] \in Nat
  BY <1>0
<1>b. /\ \A i \in 1..n : \E j \in 1..m : a[i] = b[j]
      /\ \A j \in 1..m : \E i \in 1..n : b[j] = a[i]
  BY <1>0 DEF Members
<1>c. /\ \A i, j \in 1..n : i < j => a[i] < a[j]
      /\ \A i, j \in 1..m : i < j => b[i] < b[j]
  BY <1>0 DEF Rising
<1> DEFINE Agree(k) == k <= m /\ \A i \in 1..k : a[i] = b[i]
           T == {k \in Nat : k <= n => Agree(k)}
<1>1. 0 \in T
  OBVIOUS
<1>2. ASSUME NEW k \in T \cap Nat PROVE k + 1 \in T
  <2> SUFFICES ASSUME k + 1 <= n PROVE Agree(k + 1)
    OBVIOUS
  <2>0. k \in Nat /\ k <= m /\ \A i \in 1..k : a[i] = b[i]
    OBVIOUS
  <2> HIDE DEF T
  <2>1. k + 1 \in 1..n
    BY <2>0
  <2>2. PICK j \in 1..m : a[k+1] = b[j]
    BY <1>b, <2>1
  <2>3. ~(j <= k)
    <3> SUFFICES ASSUME j <= k PROVE FALSE
      OBVIOUS
    <3>1. j \in 1..k /\ j \in 1..n /\ j < k + 1
      BY <2>0, <2>1
    <3>2. a[j] < a[k+1] /\ a[j] = b[j] /\ a[j] \in Nat
      BY <1>a, <1>c, <2>0, <2>1, <3>1
    <3> QED
      BY <2>2, <3>2
  <2>4. k + 1 \in 1..m
    BY <2>0, <2>3
  <2>5. PICK l \in 1..n : b[k+1] = a[l]
    BY <1>b, <2>4
  <2>6. ~(l <= k)
    <3> SUFFICES ASSUME l <= k PROVE FALSE
      OBVIOUS
    <3>1. l \in 1..k /\ l \in 1..m /\ l < k + 1
      BY <2>0, <2>4
    <3>2. b[l] < b[k+1] /\ a[l] = b[l] /\ b[l] \in Nat
      BY <1>a, <1>c, <2>0, <2>4, <3>1
    <3> QED
      BY <2>5, <3>2
  <2>7. a[k+1] = b[k+1]
    <3>1. a[k+1] \in Nat /\ b[k+1] \in Nat
      BY <1>a, <2>1, <2>4
    <3>2. b[k+1] <= b[j]
      <4>1. j = k + 1 \/ k + 1 < j
        BY <2>0, <2>3
      <4>2. b[j] \in Nat
        BY <1>a
      <4> QED
        BY <1>c, <2>4, <3>1, <4>1, <4>2
    <3>3. a[k+1] <= a[l]
      <4>1. l = k + 1 \/ k + 1 < l
        BY <2>0, <2>6
      <4>2. a[l] \in Nat
        BY <1>a
      <4> QED
        BY <1>c, <2>1, <3>1, <4>1, <4>2
    <3> QED
      BY <2>2, <2>5, <3>1, <3>2, <3>3
  <2>8. ASSUME NEW i \in 1..(k+1) PROVE a[i] = b[i]
    <3>1. i \in 1..k \/ i = k + 1
      BY <2>0
    <3> QED
      BY <2>0, <2>7, <3>1
  <2> QED
    BY <2>4, <2>8
<1>3. Nat \subseteq T
  <2> HIDE DEF T
  <2> QED
    BY <1>1, <1>2, NatInduct
<1>4. \A k \in 0..n : Agree(k)
  <2> HIDE DEF Agree
  <2> QED
    BY <1>3
<1> QED
  BY <1>0, <1>4

\* A rising run is the only one of its members.
LEMMA RisingUnique ==
    ASSUME NEW a \in Seq(Nat), NEW b \in Seq(Nat), Rising(a), Rising(b), Members(a) = Members(b)
    PROVE  a = b
<1>1. Len(a) \in Nat /\ Len(b) \in Nat
  OBVIOUS
<1>2. Len(a) <= Len(b) /\ \A i \in 1..Len(a) : a[i] = b[i]
  <2>1. Len(a) \in 0..Len(a)
    BY <1>1
  <2> QED
    BY <2>1, SamePrefix
<1>3. Len(b) <= Len(a)
  <2>1. Len(b) \in 0..Len(b)
    BY <1>1
  <2> QED
    BY <2>1, SamePrefix
<1>4. Len(a) = Len(b)
  BY <1>1, <1>2, <1>3
<1> QED
  BY <1>2, <1>4

\* Chosen(S) is the rising run of the members of S.
LEMMA ChosenFacts ==
    ASSUME candidates \in Seq(Edit), NEW S, S \subseteq DOMAIN candidates
    PROVE  Chosen(S) \in Seq(Nat) /\ Rising(Chosen(S)) /\ Members(Chosen(S)) = S
<1>0. PICK n \in Nat : n = Len(candidates)
  OBVIOUS
<1> DEFINE step == [p \in (1..n) \X Seq(Nat) |-> IF p[1] \in S THEN Append(p[2], p[1]) ELSE p[2]]
           body(f, i) == IF i = 0 THEN << >>
                         ELSE IF i \in S THEN Append(f[i-1], i) ELSE f[i-1]
           g == CHOOSE f : f = [i \in 0..Len(candidates) |-> body(f, i)]
<1>1. step \in [(1..n) \X Seq(Nat) -> Seq(Nat)]
  OBVIOUS
<1>2. PICK f : Repeats(f, n, Seq(Nat), << >>, step)
  <2>1. << >> \in Seq(Nat)
    OBVIOUS
  <2> HIDE DEF step
  <2> QED
    BY <1>1, <2>1, Recursion
<1>3. /\ f \in [0..n -> Seq(Nat)] /\ f[0] = << >>
      /\ \A i \in 1..n : f[i] = IF i \in S THEN Append(f[i-1], i) ELSE f[i-1]
  <2>1. /\ f \in [0..n -> Seq(Nat)] /\ f[0] = << >>
        /\ \A i \in 1..n : f[i] = step[<< i, f[i-1] >>]
    <3> HIDE DEF step
    <3> QED
      BY <1>2 DEF Repeats
  <2>2. ASSUME NEW i \in 1..n PROVE f[i] = IF i \in S THEN Append(f[i-1], i) ELSE f[i-1]
    <3>1. i - 1 \in 0..n
      OBVIOUS
    <3>2. f[i-1] \in Seq(Nat)
      BY <2>1, <3>1
    <3> QED
      BY <2>1, <3>2
  <2> QED
    BY <2>1, <2>2
<1>5. f = [i \in 0..Len(candidates) |-> body(f, i)]
  <2>1. ASSUME NEW i \in 0..n PROVE f[i] = body(f, i)
    <3>1. CASE i = 0
      BY <1>3, <3>1
    <3>2. CASE i # 0
      <4>1. i \in 1..n
        BY <3>2
      <4> QED
        BY <1>3, <3>2, <4>1
    <3> QED
      BY <3>1, <3>2
  <2> HIDE DEF body
  <2> QED
    BY <1>0, <1>3, <2>1
<1>6. g = [i \in 0..Len(candidates) |-> body(g, i)]
  <2> HIDE DEF body
  <2> QED
    BY <1>5
<1>7. Chosen(S) = g[Len(candidates)]
  BY Zenon DEF Chosen
<1> HIDE DEF g
<1> DEFINE Upto(i) == /\ g[i] \in Seq(Nat) /\ Rising(g[i])
                      /\ Members(g[i]) = {k \in S : k <= i}
           T == {i \in Nat : i <= n => Upto(i)}
<1>8. 0 \in T
  <2>1. g[0] = << >>
    BY <1>0, <1>6
  <2>2. {k \in S : k <= 0} = {}
    BY <1>0
  <2>3. << >> \in Seq(Nat) /\ Rising(<< >>) /\ Members(<< >>) = {}
    BY DEF Rising, Members
  <2>4. Upto(0)
    BY <2>1, <2>2, <2>3
  <2> HIDE DEF Upto
  <2> QED
    BY <2>4
<1>9. ASSUME NEW i \in T \cap Nat PROVE i + 1 \in T
  <2> SUFFICES ASSUME i + 1 <= n PROVE Upto(i + 1)
    OBVIOUS
  <2>0. i \in Nat /\ Upto(i)
    OBVIOUS
  <2> HIDE DEF T
  <2>1. i + 1 \in 1..n /\ (i + 1) - 1 = i /\ i + 1 # 0 /\ i + 1 \in 0..Len(candidates)
    <3>1. i \in Nat
      BY <2>0
    <3> HIDE DEF Upto
    <3> QED
      BY <1>0, <3>1
  <2>2. g[i+1] = body(g, i+1)
    <3> HIDE DEF body, Upto
    <3> QED
      BY <1>6, <2>1
  <2>3. g[i+1] = IF i + 1 \in S THEN Append(g[i], i + 1) ELSE g[i]
    BY <2>1, <2>2
  <2>4. CASE i + 1 \notin S
    <3>1. {k \in S : k <= i + 1} = {k \in S : k <= i}
      BY <1>0, <2>0, <2>4
    <3> QED
      BY <2>0, <2>3, <2>4, <3>1
  <2>5. CASE i + 1 \in S
    <3>1. PICK s \in Seq(Nat), t \in Seq(Nat) : s = g[i] /\ t = g[i+1] /\ t = Append(s, i + 1)
      <4>1. g[i] \in Seq(Nat) /\ g[i+1] = Append(g[i], i + 1)
        BY <2>0, <2>3, <2>5
      <4>2. Append(g[i], i + 1) \in Seq(Nat)
        BY <2>0, <4>1
      <4> QED
        BY <4>1, <4>2
    <3>2. PICK m \in Nat : m = Len(s)
      OBVIOUS
    <3>3. /\ Len(t) = m + 1 /\ t[m + 1] = i + 1
          /\ \A k \in 1..m : t[k] = s[k]
      BY <2>0, <3>1, <3>2, AppendByIndex
    <3>4. Members(s) = {k \in S : k <= i} /\ Rising(s)
      BY <2>0, <3>1
    <3>5. \A k \in 1..m : s[k] \in Nat /\ s[k] <= i /\ s[k] \in S
      BY <3>2, <3>4 DEF Members
    <3>6. Rising(t)
      <4> SUFFICES ASSUME NEW k \in 1..(m+1), NEW l \in 1..(m+1), k < l PROVE t[k] < t[l]
        BY <3>3 DEF Rising
      <4>1. k \in 1..m
        OBVIOUS
      <4>2. CASE l \in 1..m
        BY <3>2, <3>3, <3>4, <4>1, <4>2 DEF Rising
      <4>3. CASE l = m + 1
        BY <2>0, <3>3, <3>5, <4>1, <4>3
      <4> QED
        BY <4>2, <4>3
    <3>7. Members(t) = {k \in S : k <= i + 1}
      <4>1. ASSUME NEW x \in Members(t) PROVE x \in S /\ x <= i + 1
        <5>1. PICK k \in 1..(m+1) : x = t[k]
          BY <3>3 DEF Members
        <5>2. k \in 1..m \/ k = m + 1
          OBVIOUS
        <5> QED
          BY <2>0, <2>5, <3>3, <3>5, <5>1, <5>2
      <4>2. ASSUME NEW x \in S, x <= i + 1 PROVE x \in Members(t)
        <5>1. x \in Nat
          BY <1>0
        <5>2. CASE x = i + 1
          BY <3>3, <5>2 DEF Members
        <5>3. CASE x # i + 1
          <6>1. x <= i
            BY <2>0, <4>2, <5>1, <5>3
          <6>2. PICK k \in 1..m : x = s[k]
            BY <3>2, <3>4, <6>1 DEF Members
          <6>3. k \in 1..(m+1) /\ t[k] = x
            BY <3>3, <6>2
          <6> QED
            BY <3>3, <6>3 DEF Members
        <5> QED
          BY <5>2, <5>3
      <4> QED
        BY <4>1, <4>2
    <3> QED
      BY <3>1, <3>6, <3>7
  <2> QED
    BY <2>4, <2>5
<1>10. n \in T
  <2> HIDE DEF T
  <2> QED
    BY <1>8, <1>9, NatInduct
<1>11. {k \in S : k <= n} = S
  BY <1>0
<1>12. Upto(n)
  <2> HIDE DEF Upto
  <2> QED
    BY <1>10
<1> QED
  BY <1>0, <1>7, <1>11, <1>12

\* What each visit has landed when exactly the edits of Bad spoil a text.
TakesTheRest ==
    \A Bad \in Subsets :
        SpoiltBy(Bad) =>
            /\ pc = "settle" => Members(landed) = Visited \ Bad
            /\ pc = "done" => Members(landed) = DOMAIN candidates \ Bad

\* A trial is the rising run of what has landed and the group's indexes.
LEMMA TrialMembers ==
    ASSUME IInv, pc = "settle", stack # << >>, Group.lo <= Group.hi
    PROVE  /\ Members(Trial) = Members(landed) \cup Group.lo..Group.hi
           /\ Members(Trial) \subseteq DOMAIN candidates
           /\ Trial = Chosen(Members(Trial))
<1>1. TypeOK /\ Ascending /\ NothingSkipped /\ Partition
  BY DEF IInv
<1>2. /\ Trial \in Seq(Nat)
      /\ \A i \in 1..Len(Trial) : Trial[i] \in 1..Group.hi
      /\ \A i, j \in 1..Len(Trial) : i < j => Trial[i] < Trial[j]
      /\ \A i \in 1..Len(landed) : i \in 1..Len(Trial) /\ Trial[i] = landed[i]
      /\ \A k \in Group.lo..Group.hi : \E i \in 1..Len(Trial) : Trial[i] = k
  BY <1>1, TrialAscends
<1>3. PICK lo \in Nat, hi \in Nat : /\ Group = Span(lo, hi) /\ lo = Group.lo /\ hi = Group.hi
                                    /\ 1 <= lo /\ lo <= hi /\ hi <= Len(candidates)
  <2>1. Group \in Spans /\ 1 <= Group.lo /\ Group.hi <= Len(candidates)
    BY <1>1, TopOfStack
  <2> QED
    BY <2>1 DEF Spans, Span
<1>4. Members(Trial) = Members(landed) \cup lo..hi
  <2>1. Members(landed) \subseteq Members(Trial) /\ lo..hi \subseteq Members(Trial)
    BY <1>2, <1>3 DEF Members
  <2>2. ASSUME NEW i \in 1..Len(Trial) PROVE Trial[i] \in Members(landed) \cup lo..hi
    <3>0. lo <= hi + 1
      BY <1>3
    <3>1. PICK a \in Seq(Nat), b \in Seq(Nat) : a = landed /\ b = Interval(Span(lo, hi))
      <4>1. landed \in Seq(Nat) /\ Interval(Span(lo, hi)) \in Seq(Nat)
        BY <1>1, <3>0, IntervalFacts DEF TypeOK
      <4> QED
        BY <4>1
    <3>2. PICK n \in Nat, m \in Nat : n = Len(a) /\ m = Len(b) /\ m = hi - lo + 1
      <4>1. Len(a) \in Nat /\ Len(b) \in Nat /\ Len(b) = hi - lo + 1
        <5>1. Len(Interval(Span(lo, hi))) = hi - lo + 1
          BY <3>0, IntervalFacts
        <5> QED
          BY <3>1, <5>1
      <4>2. hi - lo + 1 \in Nat
        BY <3>0
      <4> QED
        BY <4>1, <4>2
    <3>3. \A k \in 1..m : b[k] = lo + k - 1
      BY <3>0, <3>1, <3>2, IntervalFacts
    <3>4. /\ Len(a \o b) = Len(a) + Len(b)
          /\ \A k \in 1..Len(a) : (a \o b)[k] = a[k]
          /\ \A k \in 1..Len(b) : (a \o b)[Len(a) + k] = b[k]
      BY ConcatByIndex
    <3>5. Trial = a \o b
      BY <1>3, <3>1 DEF Trial
    <3>6. i \in 1..(n + m)
      BY <3>2, <3>4, <3>5
    <3>7. CASE i \in 1..n
      BY <3>1, <3>2, <3>4, <3>5, <3>7 DEF Members
    <3>8. CASE i \notin 1..n
      <4>1. i - n \in 1..m /\ n + (i - n) = i
        BY <3>6, <3>8
      <4>2. Trial[i] = b[i - n] /\ b[i - n] = lo + (i - n) - 1
        BY <3>2, <3>3, <3>4, <3>5, <4>1
      <4> QED
        BY <3>2, <4>1, <4>2
    <3> QED
      BY <3>7, <3>8
  <2> QED
    BY <2>1, <2>2 DEF Members
<1>5. Members(Trial) \subseteq DOMAIN candidates
  BY <1>1, <1>2, <1>3 DEF Members, TypeOK
<1>6. /\ Chosen(Members(Trial)) \in Seq(Nat) /\ Rising(Chosen(Members(Trial)))
      /\ Members(Chosen(Members(Trial))) = Members(Trial)
  BY <1>1, <1>5, ChosenFacts DEF TypeOK
<1>7. Rising(Trial)
  BY <1>2 DEF Rising
<1> QED
  BY <1>2, <1>3, <1>4, <1>5, <1>6, <1>7, RisingUnique

\* The parser's answer to a trial is whether it carries an edit of Bad.
LEMMA TrialVerdict ==
    ASSUME IInv, pc = "settle", stack # << >>, Group.lo <= Group.hi,
           NEW Bad \in Subsets, SpoiltBy(Bad)
    PROVE  TrialHolds <=> Members(Trial) \cap Bad = {}
<1>1. Members(Trial) \in Subsets /\ Trial = Chosen(Members(Trial))
  BY TrialMembers DEF Subsets
<1> QED
  BY <1>1 DEF SpoiltBy, TrialHolds

\* Popping the group adds its indexes to the visited ones.
LEMMA VisitedGrows ==
    ASSUME IInv, pc = "settle", stack # << >>, stack' = Tail(stack), candidates' = candidates
    PROVE  Visited' = Visited \cup Group.lo..Group.hi
<1>1. /\ Visited = {k \in 1..Len(candidates) : k < Group.lo}
      /\ Visited' = {k \in 1..Len(candidates) : k <= Group.hi}
  BY VisitedAfterPop DEF IInv
<1>2. /\ Group.lo \in Nat /\ Group.hi \in Nat /\ 1 <= Group.lo /\ Group.lo <= Group.hi + 1
      /\ Group.hi <= Len(candidates)
  BY TopOfStack DEF IInv, Spans
<1>3. PICK lo \in Nat, hi \in Nat, n \in Nat : lo = Group.lo /\ hi = Group.hi /\ n = Len(candidates)
  BY <1>2 DEF IInv, TypeOK
<1> QED
  BY <1>1, <1>2, <1>3

LEMMA NextTakes == IInv /\ TakesTheRest /\ [Next]_vars => TakesTheRest'
<1> SUFFICES ASSUME IInv, TakesTheRest, [Next]_vars PROVE TakesTheRest'
  OBVIOUS
<1>0. candidates \in Seq(Edit) /\ landed \in Seq(Nat) /\ DOMAIN candidates = 1..Len(candidates)
  BY DEF IInv, TypeOK
<1>a. \A Bad : candidates' = candidates /\ in' = in =>
         Subsets' = Subsets /\ (SpoiltBy(Bad)' <=> SpoiltBy(Bad))
  BY DEF Subsets, SpoiltBy, Chosen, Pick
<1>1. CASE Drop \/ Refuse \/ Keep
  BY <1>1 DEF Drop, Refuse, Keep, TakesTheRest
<1>2. CASE NoCandidates
  <2>1. candidates' = << >> /\ landed' = << >> /\ pc' = "done"
    BY <1>2 DEF NoCandidates, IInv
  <2>2. Members(landed)' = {} /\ (DOMAIN candidates)' = {}
    BY <2>1 DEF Members
  <2> QED
    BY <2>1, <2>2 DEF TakesTheRest
<1>3. CASE Batch
  <2>1. /\ candidates' = candidates /\ in' = in /\ pc' = "done"
        /\ Splice(in.src, candidates) \in in.good
        /\ landed' = Interval(Span(1, Len(candidates)))
    BY <1>3 DEF Batch
  <2> DEFINE all == Interval(Span(1, Len(candidates)))
  <2>2. /\ all \in Seq(Nat) /\ Len(all) = Len(candidates)
        /\ \A k \in 1..Len(candidates) : all[k] = k
        /\ Pick(all) = candidates
    BY <1>0, PickAll
  <2> HIDE DEF all
  <2>3. Rising(all) /\ Members(all) = DOMAIN candidates
    <3>1. Rising(all)
      BY <2>2 DEF Rising
    <3>2. Members(all) = 1..Len(candidates)
      BY <2>2 DEF Members
    <3> QED
      BY <1>0, <3>1, <3>2
  <2>4. all = Chosen(DOMAIN candidates)
    BY <1>0, <2>2, <2>3, ChosenFacts, RisingUnique
  <2> SUFFICES ASSUME NEW Bad \in Subsets, SpoiltBy(Bad)
               PROVE  Members(landed') = DOMAIN candidates \ Bad
    BY <1>a, <2>1 DEF TakesTheRest, Members
  <2>5. DOMAIN candidates \cap Bad = {}
    <3>1. Splice(in.src, Pick(Chosen(DOMAIN candidates))) \in in.good
      BY <2>1, <2>2, <2>4
    <3> QED
      BY <3>1 DEF SpoiltBy, Subsets
  <2> QED
    BY <2>1, <2>3, <2>5 DEF all
<1>4. CASE Split
  <2>1. /\ candidates' = candidates /\ in' = in /\ pc' = "settle" /\ landed' = << >>
        /\ stack' = Halves(Span(1, Len(candidates)))
    BY <1>4 DEF Split, IInv
  <2>2. Visited' = {}
    <3>1. stack' # << >> /\ Head(stack').lo = 1
      BY <2>1 DEF Halves, Span
    <3> QED
      BY <1>0, <2>1, <3>1 DEF Visited
  <2>3. Members(landed)' = {}
    BY <2>1 DEF Members
  <2> QED
    BY <2>1, <2>2, <2>3 DEF TakesTheRest
<1>5. CASE SettleEmpty
  <2>1. /\ candidates' = candidates /\ in' = in /\ pc' = "settle" /\ pc = "settle" /\ landed' = landed
        /\ stack # << >> /\ stack' = Tail(stack) /\ Group.hi < Group.lo
    BY <1>5 DEF SettleEmpty
  <2>2. Group.lo..Group.hi = {}
    <3>1. Group \in Spans
      BY <2>1, TopOfStack DEF IInv
    <3> QED
      BY <2>1, <3>1 DEF Spans
  <2>3. Visited' = Visited
    BY <2>1, <2>2, VisitedGrows
  <2> QED
    BY <1>a, <2>1, <2>3 DEF TakesTheRest
<1>6. CASE SettleLand
  <2>1. /\ candidates' = candidates /\ in' = in /\ pc' = "settle" /\ pc = "settle" /\ landed' = Trial
        /\ stack # << >> /\ stack' = Tail(stack) /\ Group.lo <= Group.hi /\ TrialHolds
    BY <1>6 DEF SettleLand
  <2> SUFFICES ASSUME NEW Bad \in Subsets, SpoiltBy(Bad)
               PROVE  Members(landed') = Visited' \ Bad
    BY <1>a, <2>1 DEF TakesTheRest, Members
  <2>2. Members(landed) = Visited \ Bad
    BY <2>1 DEF TakesTheRest
  <2>3. Members(Trial) \cap Bad = {}
    BY <2>1, TrialVerdict
  <2>4. Members(Trial) = Members(landed) \cup Group.lo..Group.hi
    BY <2>1, TrialMembers
  <2>5. Visited' = Visited \cup Group.lo..Group.hi
    BY <2>1, VisitedGrows
  <2> QED
    BY <2>1, <2>2, <2>3, <2>4, <2>5
<1>7. CASE SettleRefuse
  <2>1. /\ candidates' = candidates /\ in' = in /\ pc' = "settle" /\ pc = "settle" /\ landed' = landed
        /\ stack # << >> /\ stack' = Tail(stack) /\ Group.lo = Group.hi /\ ~TrialHolds
    BY <1>7 DEF SettleRefuse
  <2>2. Group.lo \in Nat /\ Group.lo <= Group.hi /\ Group.lo..Group.hi = {Group.lo}
    <3>1. Group \in Spans
      BY <2>1, TopOfStack DEF IInv
    <3> QED
      BY <2>1, <3>1 DEF Spans
  <2> SUFFICES ASSUME NEW Bad \in Subsets, SpoiltBy(Bad)
               PROVE  Members(landed) = Visited' \ Bad
    BY <1>a, <2>1 DEF TakesTheRest, Members
  <2>3. Members(landed) = Visited \ Bad
    BY <2>1 DEF TakesTheRest
  <2>4. Members(Trial) \cap Bad # {}
    BY <2>1, <2>2, TrialVerdict
  <2>5. Members(Trial) = Members(landed) \cup Group.lo..Group.hi
    BY <2>1, <2>2, TrialMembers
  <2>6. Group.lo \in Bad
    BY <2>2, <2>3, <2>4, <2>5
  <2>7. Visited' = Visited \cup Group.lo..Group.hi
    BY <2>1, VisitedGrows
  <2> QED
    BY <2>2, <2>3, <2>6, <2>7
<1>8. CASE SettleHalve
  <2>1. /\ candidates' = candidates /\ in' = in /\ pc' = "settle" /\ pc = "settle" /\ landed' = landed
        /\ stack # << >> /\ stack' = Halves(Group) \o Tail(stack)
    BY <1>8 DEF SettleHalve
  <2>2. Visited' = Visited
    <3>1. Halves(Group) = << Span(Group.lo, Mid(Group) - 1), Span(Mid(Group), Group.hi) >>
      BY DEF Halves
    <3>2. Tail(stack) \in Seq(Spans)
      BY <2>1, TopOfStack DEF IInv
    <3>3. stack' # << >> /\ Head(stack').lo = Group.lo
      <4>1. PICK a, b : a = Span(Group.lo, Mid(Group) - 1) /\ b = Span(Mid(Group), Group.hi)
        OBVIOUS
      <4>2. PICK T \in Seq(Spans) : T = Tail(stack)
        BY <3>2
      <4>3. stack' = << a, b >> \o T
        BY <2>1, <3>1, <4>1, <4>2
      <4>4. stack' # << >> /\ Head(stack') = a
        BY <4>3
      <4> QED
        BY <4>1, <4>4 DEF Span
    <3> QED
      BY <2>1, <3>3 DEF Visited, Group
  <2> QED
    BY <1>a, <2>1, <2>2 DEF TakesTheRest, Members
<1>9. CASE Finish
  <2>1. /\ candidates' = candidates /\ in' = in /\ pc' = "done" /\ pc = "settle" /\ landed' = landed
        /\ stack = << >>
    BY <1>9 DEF Finish
  <2>2. Visited = DOMAIN candidates
    BY <2>1 DEF Visited
  <2> QED
    BY <1>a, <2>1, <2>2 DEF TakesTheRest, Members
<1>10. CASE UNCHANGED vars
  <2>1. /\ candidates' = candidates /\ in' = in /\ pc' = pc /\ landed' = landed /\ stack' = stack
    BY <1>10 DEF vars
  <2> QED
    BY <1>a, <2>1 DEF TakesTheRest, Members, Visited
<1> QED
  BY <1>1, <1>2, <1>3, <1>4, <1>5, <1>6, <1>7, <1>8, <1>9, <1>10 DEF Next

\* "a single bad rewrite does not cost the file every good one" (edit.go:104):
\* if what the parser minds is exactly the edits of some set, every other
\* candidate lands, whatever the batch and however the bisection cuts it.
THEOREM BadEditCostsOnlyItself == Spec => []OneBadEditCostsOnlyItself
<1>1. Init => TakesTheRest
  BY DEF Init, TakesTheRest
<1>2. IInv /\ TakesTheRest => OneBadEditCostsOnlyItself
  <2> SUFFICES ASSUME IInv, TakesTheRest, pc = "done", NEW Bad \in Subsets, SpoiltBy(Bad)
               PROVE  {landed[i] : i \in DOMAIN landed} = DOMAIN candidates \ Bad
    BY DEF OneBadEditCostsOnlyItself
  <2>1. Members(landed) = DOMAIN candidates \ Bad
    BY DEF TakesTheRest
  <2>2. DOMAIN landed = 1..Len(landed)
    BY DEF IInv, TypeOK
  <2> QED
    BY <2>1, <2>2 DEF Members
<1> QED
  BY <1>1, <1>2, InitIInv, NextIInv, NextTakes, PTL DEF Spec
=============================================================================
