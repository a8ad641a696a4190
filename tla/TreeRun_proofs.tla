---------------------------- MODULE TreeRun_proofs ----------------------------
(***************************************************************************)
(* What a file names holds the file's own text, nothing held is written    *)
(* over with another text, nothing created is left unnamed and a tree run  *)
(* leaves nothing for the next: for every tree, every package and every    *)
(* number of strings.                                                      *)
(*                                                                         *)
(* A judgement is a recursion (PlanWith, Claim, MoveSteps, Fixed).  The    *)
(* first half says, by induction for sets, what each computes; the second  *)
(* keeps that true of the repairs a merge has still to write.  The last    *)
(* two sections are about processes that repair one tree at once.          *)
(***************************************************************************)
EXTENDS TreeRun, SequenceTheorems, FiniteSetTheorems, WellFoundedInduction, TLAPS

-----------------------------------------------------------------------------
(* Induction for a set, and what a recursive function computes.              *)

\* A set of naturals that holds 0 and each successor of a member holds all:
\* induction, for a set and not for a formula.
LEMMA NatInduct ==
    ASSUME NEW S, 0 \in S, \A n \in S \cap Nat : n + 1 \in S
    PROVE  Nat \subseteq S
<1> SUFFICES ASSUME Nat \ S # {} PROVE FALSE
  OBVIOUS
<1> DEFINE R == {p \in Nat \X Nat : p[1] < p[2]}
<1>1. IsWellFoundedOn(R, Nat)
  BY NatLessThanWellFounded DEF OpToRel
<1>2. PICK n \in Nat \ S : \A k \in Nat \ S : << k, n >> \notin R
  <2> HIDE DEF R
  <2> QED
    BY <1>1, WFMin
<1>3. n # 0 /\ n - 1 \in Nat /\ << n - 1, n >> \in R
  OBVIOUS
<1>4. n - 1 \in S
  BY <1>2, <1>3
<1> QED
  BY <1>3, <1>4

\* f repeats step n times from a: what a recursive function computes.
Repeats(f, n, S, a, step) ==
    f \in [0..n -> S] /\ f[0] = a /\ \A i \in 1..n : f[i] = step[<< i, f[i-1] >>]

\* A step on the values of S can be repeated any number of times.
LEMMA Recursion ==
    ASSUME NEW n \in Nat, NEW S, NEW a \in S, NEW step \in [(1..n) \X S -> S]
    PROVE  \E f : Repeats(f, n, S, a, step)
<1> DEFINE Runs(f, m) == f \in [0..m -> S] /\ f[0] = a /\ \A i \in 1..m : f[i] = step[<< i, f[i-1] >>]
           T == {m \in Nat : m <= n => \E f : Runs(f, m)}
<1>1. 0 \in T
  <2>1. Runs([i \in 0..0 |-> a], 0)
    OBVIOUS
  <2> QED
    BY <2>1
<1>2. ASSUME NEW m \in T \cap Nat PROVE m + 1 \in T
  <2> SUFFICES ASSUME m + 1 <= n PROVE \E f : Runs(f, m + 1)
    OBVIOUS
  <2>1. PICK f : Runs(f, m)
    OBVIOUS
  <2> DEFINE g == [i \in 0..(m+1) |-> IF i = m + 1 THEN step[<< m + 1, f[m] >>] ELSE f[i]]
  <2>2. f[m] \in S /\ step[<< m + 1, f[m] >>] \in S
    BY <2>1
  <2>3. g \in [0..(m+1) -> S] /\ g[0] = a
    BY <2>1, <2>2
  <2>4. ASSUME NEW i \in 1..(m+1) PROVE g[i] = step[<< i, g[i-1] >>]
    <3>1. i - 1 \in 0..m /\ i - 1 # m + 1 /\ i - 1 \in 0..(m+1)
      OBVIOUS
    <3>4. g[i-1] = f[i-1]
      BY <3>1
    <3>2. CASE i = m + 1
      <4>1. g[i] = step[<< m + 1, f[m] >>]
        BY <3>2
      <4>2. i - 1 = m /\ g[i-1] = f[m]
        BY <3>2, <3>4
      <4> QED
        BY <3>2, <4>1, <4>2, Zenon
    <3>3. CASE i # m + 1
      <4>1. i \in 1..m /\ g[i] = f[i]
        BY <3>3
      <4>2. f[i] = step[<< i, f[i-1] >>]
        BY <2>1, <4>1
      <4> QED
        BY <3>4, <4>1, <4>2
    <3> QED
      BY <3>2, <3>3
  <2> QED
    BY <2>3, <2>4
<1>3. n \in T
  <2> HIDE DEF T
  <2> QED
    BY <1>1, <1>2, NatInduct
<1> QED
  BY <1>3 DEF Repeats

-----------------------------------------------------------------------------
(* A plan, one string at a time.                                            *)

\* What a string may be called: when no suffix is left the model has some value
\* that the code, whose suffixes never run out, does not have.
AnyVar == Ident \cup {None} \cup {VarName[<< x, Least({}) >>] : x \in Stem}
AnySlot == [stem : Stem, text : Text, var : AnyVar, at : Path \cup {None}]
Plan == [slots : Seq(AnySlot), created : Seq(Created), names : SUBSET AnyVar, files : SUBSET Path]

\* The paths of a string's stem.
Names(s) == {Name[<< s.stem, n >>] : n \in 1..Tries}

\* A set of naturals that is not empty has a least member.
LEMMA LeastIs ==
    ASSUME NEW S \in SUBSET Nat, S # {}
    PROVE  Least(S) \in S /\ \A n \in S : Least(S) <= n
<1> DEFINE R == {p \in Nat \X Nat : p[1] < p[2]}
<1>1. IsWellFoundedOn(R, Nat)
  BY NatLessThanWellFounded DEF OpToRel
<1>2. PICK m \in S : \A n \in S : << n, m >> \notin R
  <2> HIDE DEF R
  <2> QED
    BY <1>1, WFMin
<1>3. ASSUME NEW n \in S PROVE m <= n
  <2>1. n \in Nat /\ m \in Nat /\ << n, m >> \notin R
    BY <1>2
  <2>2. ~(n < m)
    BY <2>1
  <2> QED
    BY <2>1, <2>2
<1> QED
  BY <1>3 DEF Least

\* The place of a string: a name of its stem that is not claimed and not held by
\* another text.
LEMMA PlaceIs ==
    ASSUME NEW s \in AnySlot, NEW F, Free(s, F) # {}
    PROVE  /\ Place(s, F) \in Path /\ Place(s, F) \notin F /\ Unheld(Place(s, F), s.text)
           /\ Least(Free(s, F)) \in Free(s, F) /\ \A n \in Free(s, F) : Least(Free(s, F)) <= n
           /\ Place(s, F) \in Names(s)
<1>1. Free(s, F) \subseteq Nat
  BY NameAssumption DEF Free
<1>2. Least(Free(s, F)) \in Free(s, F) /\ \A n \in Free(s, F) : Least(Free(s, F)) <= n
  BY <1>1, LeastIs
<1>3. s.stem \in Stem
  BY DEF AnySlot
<1> HIDE DEF Least
<1>4. PICK n \in Free(s, F) : n = Least(Free(s, F))
  BY <1>2
<1>5. n \in 1..Tries /\ Name[<< s.stem, n >>] \notin F /\ Unheld(Name[<< s.stem, n >>], s.text)
  BY <1>4 DEF Free
<1>6. Name[<< s.stem, n >>] \in Path
  BY <1>3, <1>5, NameAssumption
<1> QED
  BY <1>2, <1>4, <1>5, <1>6 DEF Place, Names

\* A variable is one of the names there are.
LEMMA NewVarType ==
    ASSUME NEW s \in AnySlot, NEW names
    PROVE  NewVar(s, names) \in AnyVar
<1> DEFINE S == {n \in 1..VarTries : VarName[<< s.stem, n >>] \notin names}
<1>1. s.stem \in Stem /\ s.var \in AnyVar
  BY DEF AnySlot
<1>2. CASE S = {}
  BY <1>1, <1>2 DEF NewVar, AnyVar
<1>3. CASE S # {}
  <2>1. Least(S) \in S
    <3>1. S \in SUBSET Nat
      BY NameAssumption
    <3> HIDE DEF S
    <3> QED
      BY <1>3, <3>1, LeastIs
  <2>2. \A n \in S : VarName[<< s.stem, n >>] \in Ident
    <3>1. \A n \in 1..VarTries : VarName[<< s.stem, n >>] \in Ident
      BY <1>1, NameAssumption
    <3> QED
      BY <3>1
  <2> HIDE DEF S
  <2>3. VarName[<< s.stem, Least(S) >>] \in AnyVar
    BY <2>1, <2>2 DEF AnyVar
  <2> USE DEF S
  <2> QED
    BY <1>1, <2>3 DEF NewVar
<1> QED
  BY <1>2, <1>3

\* Where a string of a plan stays or moves.
Stays(p, s) == s.at # None \/ Free(s, p.files) = {}

\* One step of planWith: a string that has a file already, or no free name, stays;
\* any other moves to its place, its file is created and the place is taken.
LEMMA HoistStep ==
    ASSUME NEW p \in Plan, NEW s \in AnySlot
    PROVE  /\ Hoist(p, s) \in Plan
           /\ Stays(p, s) => /\ Hoist(p, s).slots = Append(p.slots, s)
                             /\ Hoist(p, s).created = p.created /\ Hoist(p, s).files = p.files
           /\ ~Stays(p, s) => \E t \in AnySlot :
                 /\ Hoist(p, s).slots = Append(p.slots, t)
                 /\ t.stem = s.stem /\ t.text = s.text /\ t.at = Place(s, p.files)
                 /\ Hoist(p, s).created = Append(p.created, [path |-> t.at, text |-> s.text])
                 /\ Hoist(p, s).files = p.files \cup {t.at}
<1>1. CASE Stays(p, s)
  <2>1. Hoist(p, s) = [p EXCEPT !.slots = Append(@, s)]
    BY <1>1 DEF Hoist, Stays
  <2>2. p.slots \in Seq(AnySlot)
    BY DEF Plan
  <2>3. Append(p.slots, s) \in Seq(AnySlot)
    BY <2>2
  <2>4. Hoist(p, s) \in Plan
    BY <2>1, <2>3 DEF Plan
  <2>5. Hoist(p, s).slots = Append(p.slots, s) /\ Hoist(p, s).created = p.created
        /\ Hoist(p, s).files = p.files
    BY <2>1 DEF Plan
  <2> QED
    BY <1>1, <2>4, <2>5
<1>2. CASE ~Stays(p, s)
  <2> DEFINE path == Place(s, p.files)
             var == NewVar(s, p.names)
             t == [s EXCEPT !.at = path, !.var = var]
  <2>1. Hoist(p, s) = [slots |-> Append(p.slots, t),
                       created |-> Append(p.created, [path |-> path, text |-> s.text]),
                       names |-> p.names \cup {var}, files |-> p.files \cup {path}]
    BY <1>2 DEF Hoist, Stays
  <2>2. path \in Path /\ var \in AnyVar
    BY <1>2, PlaceIs, NewVarType DEF Stays
  <2> HIDE DEF path, var
  <2>3. t \in AnySlot /\ t.stem = s.stem /\ t.text = s.text /\ t.at = path
    BY <2>2 DEF AnySlot
  <2> HIDE DEF t
  <2>4. [path |-> path, text |-> s.text] \in Created
    BY <2>2 DEF Created, AnySlot
  <2>5. Hoist(p, s) \in Plan
    BY <2>1, <2>2, <2>3, <2>4 DEF Plan
  <2>6. t.at = Place(s, p.files)
    BY <2>3 DEF path
  <2>7. /\ Hoist(p, s).slots = Append(p.slots, t)
        /\ Hoist(p, s).created = Append(p.created, [path |-> t.at, text |-> s.text])
        /\ Hoist(p, s).files = p.files \cup {t.at}
    BY <2>1, <2>3
  <2> QED
    BY <1>2, <2>3, <2>5, <2>6, <2>7
<1> QED
  BY <1>1, <1>2

\* A plan is what its recursion computes, one string at a time.
Plans(w, slots, names, files) ==
    /\ w \in [0..Len(slots) -> Plan]
    /\ w[0] = [slots |-> << >>, created |-> << >>, names |-> names, files |-> files]
    /\ \A i \in 1..Len(slots) : w[i] = Hoist(w[i-1], slots[i])

\* planWith computes the value that its steps, one for each string, end in.
LEMMA PlanRuns ==
    ASSUME NEW slots \in Seq(AnySlot), NEW names \in SUBSET AnyVar, NEW files \in SUBSET Path
    PROVE  \E w : Plans(w, slots, names, files) /\ PlanWith(slots, names, files) = w[Len(slots)]
<1>0. PICK n \in Nat : n = Len(slots)
  OBVIOUS
<1> DEFINE a == [slots |-> << >>, created |-> << >>, names |-> names, files |-> files]
           step == [x \in (1..n) \X Plan |-> Hoist(x[2], slots[x[1]])]
           body(f, i) == IF i = 0 THEN a ELSE Hoist(f[i-1], slots[i])
           g == CHOOSE f : f = [i \in 0..Len(slots) |-> body(f, i)]
<1>1. a \in Plan
  BY DEF Plan
<1>2. step \in [(1..n) \X Plan -> Plan]
  <2> SUFFICES ASSUME NEW x \in (1..n) \X Plan PROVE Hoist(x[2], slots[x[1]]) \in Plan
    OBVIOUS
  <2>1. x[2] \in Plan /\ slots[x[1]] \in AnySlot
    BY <1>0
  <2> QED
    BY <2>1, HoistStep
<1>3. PICK f \in [0..n -> Plan] : f[0] = a /\ \A i \in 1..n : f[i] = step[<< i, f[i-1] >>]
  <2>1. \E f : Repeats(f, n, Plan, a, step)
    <3> HIDE DEF step, a
    <3> QED
      BY <1>1, <1>2, Recursion
  <2> HIDE DEF step, a
  <2> QED
    BY <2>1 DEF Repeats
<1>4. \A i \in 1..n : f[i] = Hoist(f[i-1], slots[i])
  <2> SUFFICES ASSUME NEW i \in 1..n PROVE f[i] = Hoist(f[i-1], slots[i])
    OBVIOUS
  <2>1. i - 1 \in 0..n
    OBVIOUS
  <2>2. f[i-1] \in Plan
    BY <1>3, <2>1
  <2> QED
    BY <1>3, <2>2
<1> HIDE DEF step, a
<1>5. f = [i \in 0..Len(slots) |-> body(f, i)]
  <2>1. ASSUME NEW i \in 0..n PROVE f[i] = body(f, i)
    <3>1. CASE i = 0
      BY <1>3, <3>1
    <3>2. CASE i # 0
      <4>1. i \in 1..n
        BY <3>2
      <4> QED
        BY <1>4, <3>2, <4>1
    <3> QED
      BY <3>1, <3>2
  <2> HIDE DEF body
  <2> QED
    BY <1>0, <1>3, <2>1
<1>6. g = [i \in 0..Len(slots) |-> body(g, i)]
  <2> HIDE DEF body
  <2> QED
    BY <1>5
<1>7. PlanWith(slots, names, files) = g[Len(slots)]
  BY Zenon DEF PlanWith, a
<1> HIDE DEF g
<1>8. g[0] = a /\ \A i \in 1..n : g[i] = Hoist(g[i-1], slots[i])
  BY <1>0, <1>6
<1> DEFINE T == {i \in Nat : i <= n => g[i] \in Plan}
<1>9. 0 \in T
  BY <1>1, <1>8
<1>10. ASSUME NEW i \in T \cap Nat PROVE i + 1 \in T
  <2> SUFFICES ASSUME i + 1 <= n PROVE g[i+1] \in Plan
    OBVIOUS
  <2>1. g[i] \in Plan /\ i + 1 \in 1..n
    BY <1>0
  <2>2. g[i+1] = Hoist(g[i], slots[i+1]) /\ slots[i+1] \in AnySlot
    BY <1>0, <1>8, <2>1
  <2> QED
    BY <2>1, <2>2, HoistStep
<1>11. Nat \subseteq T
  <2> HIDE DEF T
  <2> QED
    BY <1>9, <1>10, NatInduct
<1>12. g \in [0..n -> Plan]
  BY <1>0, <1>6, <1>11
<1> QED
  BY <1>0, <1>7, <1>8, <1>12 DEF Plans, a

-----------------------------------------------------------------------------
(* What a plan does, without its recursion.                                 *)

\* The places that the strings before i have taken.
Moved(slots, q, i) == slots[i].at = None /\ q.slots[i].at # None
Prior(slots, q, i) == {q.slots[k].at : k \in {j \in 1..(i-1) : Moved(slots, q, j)}}

\* A string that is moved already, or has no place left, stays as it is; another
\* moves to its place, beside what is claimed and what the strings before took.
Lies(slots, F, q, i) ==
    LET claimed == F \cup Prior(slots, q, i)
    IN  \/ (slots[i].at # None \/ Free(slots[i], claimed) = {}) /\ q.slots[i] = slots[i]
        \/ /\ slots[i].at = None /\ Free(slots[i], claimed) # {}
           /\ q.slots[i].stem = slots[i].stem /\ q.slots[i].text = slots[i].text
           /\ q.slots[i].at = Place(slots[i], claimed)
           /\ \E c \in DOMAIN q.created :
                 q.created[c] = [path |-> q.slots[i].at, text |-> slots[i].text]

\* The plan of the first m strings.
Laid(slots, F, q, m) ==
    /\ q \in Plan /\ Len(q.slots) = m
    /\ q.files = F \cup Prior(slots, q, m + 1)
    /\ \A i \in 1..m : Lies(slots, F, q, i)
    /\ \A c \in DOMAIN q.created : \E i \in 1..m :
          Moved(slots, q, i) /\ q.created[c] = [path |-> q.slots[i].at, text |-> slots[i].text]

\* A place is a path.
LEMMA PlaceNotNone ==
    ASSUME NEW s \in AnySlot, NEW F, Free(s, F) # {} PROVE Place(s, F) # None
BY PlaceIs, NameAssumption

\* One string more.
LEMMA LaidStep ==
    ASSUME NEW slots \in Seq(AnySlot), NEW F \in SUBSET Path, NEW q, NEW m \in Nat, m + 1 <= Len(slots),
           Laid(slots, F, q, m)
    PROVE  Laid(slots, F, Hoist(q, slots[m+1]), m + 1)
<1> DEFINE s == slots[m+1]
           r == Hoist(q, s)
<1>1. s \in AnySlot /\ q \in Plan /\ q.slots \in Seq(AnySlot) /\ Len(q.slots) = m /\ q.created \in Seq(Created)
  <2>1. m + 1 \in 1..Len(slots)
    OBVIOUS
  <2> QED
    BY <2>1 DEF Laid, Plan
<1> HIDE DEF s
<1>2. PICK t \in AnySlot :
          /\ r \in Plan /\ r.slots = Append(q.slots, t) /\ t.stem = s.stem /\ t.text = s.text
          /\ \/ /\ Stays(q, s) /\ t = s /\ r.created = q.created /\ r.files = q.files
             \/ /\ ~Stays(q, s) /\ t.at = Place(s, q.files)
                /\ r.created = Append(q.created, [path |-> t.at, text |-> s.text])
                /\ r.files = q.files \cup {t.at}
  BY <1>1, HoistStep
<1> HIDE DEF r
<1>3. Len(r.slots) = m + 1 /\ r.slots[m+1] = t /\ \A k \in 1..m : r.slots[k] = q.slots[k]
  BY <1>1, <1>2
<1>4. \A k \in 1..m : Moved(slots, r, k) = Moved(slots, q, k)
  BY <1>3 DEF Moved
<1>5. \A i \in 1..(m+1) : Prior(slots, r, i) = Prior(slots, q, i)
  <2> SUFFICES ASSUME NEW i \in 1..(m+1) PROVE Prior(slots, r, i) = Prior(slots, q, i)
    OBVIOUS
  <2>1. \A k \in 1..(i-1) : k \in 1..m
    OBVIOUS
  <2> QED
    BY <1>3, <1>4, <2>1 DEF Prior
<1>6. \A c \in DOMAIN q.created : c \in DOMAIN r.created /\ r.created[c] = q.created[c]
  <2>1. CASE Stays(q, s)
    BY <1>2, <2>1
  <2>2. CASE ~Stays(q, s)
    <3>1. r.created = Append(q.created, [path |-> t.at, text |-> s.text])
      BY <1>2, <2>2
    <3> QED
      BY <1>1, <3>1
  <2> QED
    BY <2>1, <2>2
<1>7. Moved(slots, r, m + 1) <=> ~Stays(q, s)
  <2>1. CASE Stays(q, s)
    BY <1>2, <1>3, <2>1 DEF Moved, Stays, s
  <2>2. CASE ~Stays(q, s)
    <3>1. t.at # None /\ s.at = None
      BY <1>1, <1>2, <2>2, PlaceNotNone DEF Stays
    <3> QED
      BY <1>3, <2>2, <3>1 DEF Moved, s
  <2> QED
    BY <2>1, <2>2
<1>8. q.files = F \cup Prior(slots, r, m + 1)
  <2>1. m + 1 \in 1..(m+1)
    OBVIOUS
  <2> QED
    BY <1>5, <2>1 DEF Laid
<1>9. Prior(slots, r, (m + 1) + 1) = Prior(slots, r, m + 1) \cup (IF Stays(q, s) THEN {} ELSE {t.at})
  <2>1. \A k : k \in 1..((m + 1) + 1 - 1) <=> k \in 1..((m+1) - 1) \/ k = m + 1
    OBVIOUS
  <2> QED
    BY <1>3, <1>7, <2>1 DEF Prior
<1>10. r.files = F \cup Prior(slots, r, (m + 1) + 1)
  BY <1>2, <1>8, <1>9
<1>11. ASSUME NEW i \in 1..m PROVE Lies(slots, F, r, i)
  <2>1. Lies(slots, F, q, i) /\ Prior(slots, r, i) = Prior(slots, q, i) /\ r.slots[i] = q.slots[i]
    BY <1>3, <1>5 DEF Laid
  <2> QED
    BY <1>6, <2>1 DEF Lies
<1>12. Lies(slots, F, r, m + 1)
  <2>1. CASE Stays(q, s)
    <3>1. s.at # None \/ Free(s, F \cup Prior(slots, r, m + 1)) = {}
      BY <1>8, <2>1 DEF Stays
    <3> QED
      BY <1>2, <1>3, <2>1, <3>1 DEF Lies, s
  <2>2. CASE ~Stays(q, s)
    <3>1. s.at = None /\ Free(s, F \cup Prior(slots, r, m + 1)) # {}
          /\ t.at = Place(s, F \cup Prior(slots, r, m + 1))
      BY <1>2, <1>8, <2>2 DEF Stays
    <3>2. \E c \in DOMAIN r.created : r.created[c] = [path |-> t.at, text |-> s.text]
      <4>1. r.created = Append(q.created, [path |-> t.at, text |-> s.text])
        BY <1>2, <2>2
      <4>2. Len(q.created) + 1 \in DOMAIN r.created
            /\ r.created[Len(q.created) + 1] = [path |-> t.at, text |-> s.text]
        BY <1>1, <4>1
      <4> QED
        BY <4>2
    <3> QED
      BY <1>2, <1>3, <3>1, <3>2 DEF Lies, s
  <2> QED
    BY <2>1, <2>2
<1>13. ASSUME NEW c \in DOMAIN r.created
       PROVE  \E i \in 1..(m+1) :
                 Moved(slots, r, i) /\ r.created[c] = [path |-> r.slots[i].at, text |-> slots[i].text]
  <2>1. CASE c \in DOMAIN q.created
    <3>1. PICK i \in 1..m : Moved(slots, q, i) /\ q.created[c] = [path |-> q.slots[i].at, text |-> slots[i].text]
      BY <2>1 DEF Laid
    <3> QED
      BY <1>3, <1>4, <1>6, <2>1, <3>1
  <2>2. CASE c \notin DOMAIN q.created
    <3>1. ~Stays(q, s) /\ r.created = Append(q.created, [path |-> t.at, text |-> s.text])
      BY <1>2, <2>2
    <3>2. r.created[c] = [path |-> t.at, text |-> s.text]
      BY <1>1, <2>2, <3>1
    <3>3. Moved(slots, r, m + 1) /\ r.slots[m+1] = t /\ m + 1 \in 1..(m+1)
      BY <1>3, <1>7, <3>1
    <3> QED
      BY <3>2, <3>3 DEF s
  <2> QED
    BY <2>1, <2>2
<1>14. \A i \in 1..(m+1) : Lies(slots, F, r, i)
  <2>1. \A i \in 1..(m+1) : i \in 1..m \/ i = m + 1
    OBVIOUS
  <2> QED
    BY <1>11, <1>12, <2>1
<1>15. Laid(slots, F, r, m + 1)
  BY <1>2, <1>3, <1>10, <1>13, <1>14 DEF Laid
<1> QED
  BY <1>15 DEF r, s

\* What a plan does with the strings of a file.
LEMMA PlanLaid ==
    ASSUME NEW slots \in Seq(AnySlot), NEW names \in SUBSET AnyVar, NEW F \in SUBSET Path
    PROVE  Laid(slots, F, PlanWith(slots, names, F), Len(slots))
<1>1. PICK w : Plans(w, slots, names, F) /\ PlanWith(slots, names, F) = w[Len(slots)]
  BY PlanRuns
<1>2. PICK n \in Nat : n = Len(slots)
  OBVIOUS
<1> DEFINE T == {m \in Nat : m <= n => Laid(slots, F, w[m], m)}
<1>3. 0 \in T
  <2>1. w[0] = [slots |-> << >>, created |-> << >>, names |-> names, files |-> F] /\ w[0] \in Plan
    BY <1>1, <1>2 DEF Plans
  <2>2. Prior(slots, w[0], 0 + 1) = {}
    BY DEF Prior
  <2>3. DOMAIN w[0].created = {} /\ Len(w[0].slots) = 0 /\ w[0].files = F
    BY <2>1
  <2>4. Laid(slots, F, w[0], 0)
    BY <2>1, <2>2, <2>3 DEF Laid
  <2> QED
    BY <2>4
<1>4. ASSUME NEW m \in T \cap Nat PROVE m + 1 \in T
  <2> SUFFICES ASSUME m + 1 <= n PROVE Laid(slots, F, w[m+1], m + 1)
    OBVIOUS
  <2>1. Laid(slots, F, w[m], m) /\ m + 1 \in 1..n
    OBVIOUS
  <2>2. w[m+1] = Hoist(w[m], slots[m+1])
    BY <1>1, <1>2, <2>1 DEF Plans
  <2> QED
    BY <1>2, <2>1, <2>2, LaidStep
<1>5. Nat \subseteq T
  <2> HIDE DEF T
  <2> QED
    BY <1>3, <1>4, NatInduct
<1>6. Laid(slots, F, w[n], n)
  BY <1>5
<1> QED
  BY <1>1, <1>2, <1>6

\* Where the strings of a plan come to lie does not depend on the variables'
\* names.
LEMMA PlanSame ==
    ASSUME NEW slots \in Seq(AnySlot), NEW F \in SUBSET Path, NEW q, NEW r,
           Laid(slots, F, q, Len(slots)), Laid(slots, F, r, Len(slots))
    PROVE  /\ \A i \in 1..Len(slots) : q.slots[i].at = r.slots[i].at
           /\ q.files = r.files
<1>1. PICK n \in Nat : n = Len(slots)
  OBVIOUS
<1> DEFINE T == {m \in Nat : m <= n => \A i \in 1..m : q.slots[i].at = r.slots[i].at}
<1>2. 0 \in T
  OBVIOUS
<1>3. ASSUME NEW m \in T \cap Nat PROVE m + 1 \in T
  <2> SUFFICES ASSUME m + 1 <= n PROVE \A i \in 1..(m+1) : q.slots[i].at = r.slots[i].at
    OBVIOUS
  <2>1. \A i \in 1..m : q.slots[i].at = r.slots[i].at
    OBVIOUS
  <2>2. Prior(slots, q, m + 1) = Prior(slots, r, m + 1)
    <3>1. \A k : k \in 1..((m+1) - 1) => k \in 1..m
      OBVIOUS
    <3> QED
      BY <2>1, <3>1 DEF Prior, Moved
  <2>3. m + 1 \in 1..n /\ Lies(slots, F, q, m + 1) /\ Lies(slots, F, r, m + 1)
    BY <1>1 DEF Laid
  <2>4. q.slots[m+1].at = r.slots[m+1].at
    BY <2>2, <2>3 DEF Lies
  <2>5. \A i \in 1..(m+1) : i \in 1..m \/ i = m + 1
    OBVIOUS
  <2> QED
    BY <2>1, <2>4, <2>5
<1>4. Nat \subseteq T
  <2> HIDE DEF T
  <2> QED
    BY <1>2, <1>3, NatInduct
<1>5. \A i \in 1..n : q.slots[i].at = r.slots[i].at
  BY <1>4
<1>6. Prior(slots, q, n + 1) = Prior(slots, r, n + 1)
  <2>1. \A k : k \in 1..((n+1) - 1) => k \in 1..n
    OBVIOUS
  <2> QED
    BY <1>5, <2>1 DEF Prior, Moved
<1> QED
  BY <1>1, <1>5, <1>6 DEF Laid

\* A string moves to a path that nothing before it has, and that is the plan's
\* from then on.
LEMMA PlanApart ==
    ASSUME NEW slots \in Seq(AnySlot), NEW F \in SUBSET Path, NEW q, Laid(slots, F, q, Len(slots))
    PROVE  /\ q \in Plan /\ q.slots \in Seq(AnySlot) /\ Len(q.slots) = Len(slots) /\ F \subseteq q.files
           /\ \A i \in 1..Len(slots) : Moved(slots, q, i) =>
                 /\ q.slots[i].at \in q.files \ F
                 /\ Unheld(q.slots[i].at, slots[i].text)
                 /\ q.slots[i].at \in Names(slots[i])
           /\ \A i, j \in 1..Len(slots) :
                 Moved(slots, q, i) /\ Moved(slots, q, j) /\ i # j => q.slots[i].at # q.slots[j].at
<1>1. q \in Plan /\ q.slots \in Seq(AnySlot) /\ Len(q.slots) = Len(slots) /\ F \subseteq q.files
  BY DEF Laid, Plan
<1>2. PICK n \in Nat : n = Len(slots)
  OBVIOUS
<1>3. ASSUME NEW i \in 1..n, Moved(slots, q, i)
      PROVE  /\ q.slots[i].at \notin F \cup Prior(slots, q, i)
             /\ Unheld(q.slots[i].at, slots[i].text)
             /\ q.slots[i].at \in Names(slots[i])
  <2>1. Lies(slots, F, q, i) /\ slots[i] \in AnySlot
    BY <1>2 DEF Laid
  <2>2. Free(slots[i], F \cup Prior(slots, q, i)) # {} /\ q.slots[i].at = Place(slots[i], F \cup Prior(slots, q, i))
    BY <1>3, <2>1 DEF Lies, Moved
  <2> DEFINE G == F \cup Prior(slots, q, i)
             s == slots[i]
  <2>3. s \in AnySlot /\ Free(s, G) # {} /\ q.slots[i].at = Place(s, G)
    BY <2>1, <2>2
  <2> HIDE DEF G, s
  <2>4. /\ Place(s, G) \notin G /\ Unheld(Place(s, G), s.text)
        /\ Place(s, G) \in Names(s)
    BY <2>3, PlaceIs
  <2>5. q.slots[i].at \notin G /\ Unheld(q.slots[i].at, s.text)
        /\ q.slots[i].at \in Names(s)
    BY <2>3, <2>4
  <2> QED
    BY <2>5 DEF G, s
<1>4. ASSUME NEW i \in 1..n, NEW j \in 1..n, Moved(slots, q, i), i < j
      PROVE  q.slots[i].at \in Prior(slots, q, j)
  <2>1. i \in 1..(j-1)
    BY <1>4
  <2> QED
    BY <1>4, <2>1 DEF Prior
<1>5. ASSUME NEW i \in 1..n, Moved(slots, q, i) PROVE q.slots[i].at \in q.files
  <2>1. i \in 1..((n+1)-1)
    OBVIOUS
  <2>2. q.slots[i].at \in Prior(slots, q, n + 1)
    BY <1>5, <2>1 DEF Prior
  <2> QED
    BY <1>2, <2>2 DEF Laid
<1>6. ASSUME NEW i \in 1..n, NEW j \in 1..n, Moved(slots, q, i), Moved(slots, q, j), i # j
      PROVE  q.slots[i].at # q.slots[j].at
  <2>1. CASE i < j
    BY <1>3, <1>4, <1>6, <2>1
  <2>2. CASE j < i
    BY <1>3, <1>4, <1>6, <2>2
  <2> QED
    BY <1>6, <2>1, <2>2
<1> QED
  BY <1>1, <1>2, <1>3, <1>5, <1>6

-----------------------------------------------------------------------------
(* What the earlier files of the package claim.                             *)

\* What is judged: every file is a sequence of strings.
Shaped == content \in [File -> Seq(AnySlot)]

\* A file has one place in the walk.
LEMMA WalkedIs ==
    ASSUME NEW f \in File
    PROVE  /\ Walked(f) \in 1..Len(Order) /\ Order[Walked(f)] = f
           /\ \A i \in 1..Len(Order) : Order[i] = f => i = Walked(f)
<1>1. DOMAIN Order = 1..Len(Order)
  BY NameAssumption
<1>2. \E i \in DOMAIN Order : Order[i] = f
  BY DEF File, Range
<1>3. Walked(f) \in DOMAIN Order /\ Order[Walked(f)] = f
  BY <1>2 DEF Walked
<1>4. \A i, j \in DOMAIN Order : Order[i] = Order[j] => i = j
  BY NameAssumption DEF IsInjective
<1> QED
  BY <1>1, <1>3, <1>4

\* C[i] is what the Go files among the first i claim.
Claims(C) ==
    /\ C \in [0..Len(Order) -> SUBSET Path] /\ C[0] = {}
    /\ \A i \in 1..Len(Order) :
          C[i] = IF Order[i] \in Go THEN PlanWith(content[Order[i]], {}, C[i-1]).files ELSE C[i-1]

\* The claims of the earlier files are there: the recursion of claimEarlier has a
\* solution, whatever the files hold.
LEMMA ClaimsExist == ASSUME Shaped PROVE \E C : Claims(C)
<1>0. PICK n \in Nat : n = Len(Order) /\ \A i \in 1..n : Order[i] \in File
  <2>1. Order \in Seq(File)
    BY NameAssumption
  <2> QED
    BY <2>1
<1> DEFINE step == [x \in (1..n) \X (SUBSET Path) |->
               IF Order[x[1]] \in Go THEN PlanWith(content[Order[x[1]]], {}, x[2]).files ELSE x[2]]
<1>1. step \in [(1..n) \X (SUBSET Path) -> SUBSET Path]
  <2> SUFFICES ASSUME NEW x \in (1..n) \X (SUBSET Path), Order[x[1]] \in Go
               PROVE  PlanWith(content[Order[x[1]]], {}, x[2]).files \in SUBSET Path
    OBVIOUS
  <2>1. content[Order[x[1]]] \in Seq(AnySlot) /\ x[2] \in SUBSET Path /\ {} \in SUBSET AnyVar
    BY <1>0 DEF Shaped
  <2>2. PICK s, F : s = content[Order[x[1]]] /\ F = x[2]
    OBVIOUS
  <2>3. PlanWith(s, {}, F) \in Plan
    BY <2>1, <2>2, PlanLaid DEF Laid
  <2> QED
    BY <2>2, <2>3 DEF Plan
<1>2. PICK C : Repeats(C, n, SUBSET Path, {}, step)
  <2>1. {} \in SUBSET Path
    OBVIOUS
  <2> HIDE DEF step
  <2> QED
    BY <1>1, <2>1, Recursion
<1>3. \A i \in 1..n : C[i-1] \in SUBSET Path
  <2>1. \A i \in 1..n : i - 1 \in 0..n
    OBVIOUS
  <2> QED
    BY <1>2, <2>1 DEF Repeats
<1>4. \A i \in 1..n : C[i] = IF Order[i] \in Go THEN PlanWith(content[Order[i]], {}, C[i-1]).files ELSE C[i-1]
  BY <1>2, <1>3 DEF Repeats
<1> QED
  BY <1>0, <1>2, <1>4 DEF Claims, Repeats

\* The claim of a file is that of the files before it, whatever the variables
\* are called.
LEMMA ClaimIs ==
    ASSUME Shaped, NEW C, Claims(C), NEW f \in File, NEW names \in SUBSET AnyVar
    PROVE  Claim(f, names) \in Plan /\ Claim(f, names).files = C[Walked(f) - 1]
<1>0. PICK n \in Nat : n = Len(Order) /\ \A i \in 1..n : Order[i] \in File
  <2>1. Order \in Seq(File)
    BY NameAssumption
  <2> QED
    BY <2>1
<1> DEFINE a == PlanWith(<< >>, names, {})
           next1(p, i) == IF Order[i] \in Go THEN PlanWith(content[Order[i]], p.names, p.files) ELSE p
           body(g, i) == IF i = 0 THEN a
                         ELSE LET before == g[i-1]
                              IN  IF Order[i] \in Go THEN PlanWith(content[Order[i]], before.names, before.files)
                                  ELSE before
           g0 == CHOOSE g : g = [i \in 0..Len(Order) |-> body(g, i)]
           step == [x \in (1..n) \X Plan |-> next1(x[2], x[1])]
<1>1. a \in Plan /\ a.files = {}
  <2>1. << >> \in Seq(AnySlot) /\ Len(<< >>) = 0 /\ {} \in SUBSET Path
    OBVIOUS
  <2>2. Laid(<< >>, {}, a, 0)
    BY <2>1, PlanLaid
  <2>3. Prior(<< >>, a, 0 + 1) = {}
    BY DEF Prior
  <2> QED
    BY <2>2, <2>3 DEF Laid
<1> HIDE DEF a
<1>2. \A i \in 1..n, p \in Plan : next1(p, i) \in Plan
  <2> SUFFICES ASSUME NEW i \in 1..n, NEW p \in Plan, Order[i] \in Go
               PROVE  PlanWith(content[Order[i]], p.names, p.files) \in Plan
    OBVIOUS
  <2>1. content[Order[i]] \in Seq(AnySlot) /\ p.names \in SUBSET AnyVar /\ p.files \in SUBSET Path
    BY <1>0 DEF Shaped, Plan
  <2> QED
    BY <2>1, PlanLaid DEF Laid
<1> HIDE DEF next1
<1>3. step \in [(1..n) \X Plan -> Plan]
  BY <1>2
<1>4. PICK h : Repeats(h, n, Plan, a, step)
  <2> HIDE DEF step
  <2> QED
    BY <1>1, <1>3, Recursion
<1>5. h \in [0..n -> Plan] /\ h[0] = a /\ \A i \in 1..n : h[i] = next1(h[i-1], i)
  <2>1. \A i \in 1..n : i - 1 \in 0..n
    OBVIOUS
  <2> QED
    BY <1>4, <2>1 DEF Repeats
<1>6. h = [i \in 0..Len(Order) |-> body(h, i)]
  <2>1. ASSUME NEW i \in 0..n PROVE h[i] = body(h, i)
    <3>1. CASE i = 0
      BY <1>5, <3>1
    <3>2. CASE i # 0
      <4>1. i \in 1..n
        BY <3>2
      <4> QED
        BY <1>5, <3>2, <4>1 DEF next1
    <3> QED
      BY <3>1, <3>2
  <2> HIDE DEF body
  <2> QED
    BY <1>0, <1>5, <2>1
<1>7. g0 = [i \in 0..Len(Order) |-> body(g0, i)]
  <2> HIDE DEF body
  <2> QED
    BY <1>6
<1>8. Claim(f, names) = g0[Walked(f) - 1]
  BY Zenon DEF Claim, a
<1> HIDE DEF g0
<1>9. g0[0] = a /\ \A i \in 1..n : g0[i] = next1(g0[i-1], i)
  <2>1. ASSUME NEW i \in 0..n PROVE g0[i] = body(g0, i)
    <3> HIDE DEF body
    <3> QED
      BY <1>0, <1>7
  <2>2. g0[0] = a
    <3>1. 0 \in 0..n
      OBVIOUS
    <3>2. g0[0] = body(g0, 0)
      BY <2>1, <3>1
    <3> QED
      BY <3>2
  <2>3. ASSUME NEW i \in 1..n PROVE g0[i] = next1(g0[i-1], i)
    <3>1. i \in 0..n /\ i # 0
      OBVIOUS
    <3>2. g0[i] = body(g0, i)
      BY <2>1, <3>1
    <3> QED
      BY <3>1, <3>2 DEF next1
  <2> QED
    BY <2>2, <2>3
<1> HIDE DEF body
<1> DEFINE T == {i \in Nat : i <= n => g0[i] \in Plan /\ g0[i].files = C[i]}
<1>10. 0 \in T
  BY <1>1, <1>9 DEF Claims
<1>11. ASSUME NEW i \in T \cap Nat PROVE i + 1 \in T
  <2> SUFFICES ASSUME i + 1 <= n PROVE g0[i+1] \in Plan /\ g0[i+1].files = C[i+1]
    OBVIOUS
  <2>1. g0[i] \in Plan /\ g0[i].files = C[i] /\ i + 1 \in 1..n
    OBVIOUS
  <2>2. g0[i+1] = next1(g0[i], i + 1)
    BY <1>9, <2>1
  <2>3. g0[i+1] \in Plan
    BY <1>2, <2>1, <2>2
  <2>4. C[i+1] = IF Order[i+1] \in Go THEN PlanWith(content[Order[i+1]], {}, C[i]).files ELSE C[i]
    BY <1>0, <2>1 DEF Claims
  <2>5. CASE Order[i+1] \in Go
    <3> DEFINE s == content[Order[i+1]]
    <3>1. s \in Seq(AnySlot) /\ g0[i].names \in SUBSET AnyVar /\ g0[i].files \in SUBSET Path /\ {} \in SUBSET AnyVar
      BY <1>0, <2>1 DEF Shaped, Plan
    <3> HIDE DEF s
    <3>2. PlanWith(s, g0[i].names, g0[i].files).files = PlanWith(s, {}, g0[i].files).files
      <4>1. PICK F \in SUBSET Path, N \in SUBSET AnyVar : F = g0[i].files /\ N = g0[i].names
        BY <3>1
      <4>2. Laid(s, F, PlanWith(s, N, F), Len(s)) /\ Laid(s, F, PlanWith(s, {}, F), Len(s))
        BY <3>1, <4>1, PlanLaid
      <4>3. PICK q, r : q = PlanWith(s, N, F) /\ r = PlanWith(s, {}, F)
        OBVIOUS
      <4>4. s \in Seq(AnySlot) /\ Laid(s, F, q, Len(s)) /\ Laid(s, F, r, Len(s))
        BY <3>1, <4>2, <4>3
      <4>5. q.files = r.files
        BY <4>4, PlanSame
      <4>6. PlanWith(s, N, F).files = PlanWith(s, {}, F).files
        BY <4>3, <4>5
      <4> QED
        BY <4>1, <4>6
    <3>3. g0[i+1] = PlanWith(s, g0[i].names, g0[i].files)
      BY <2>2, <2>5 DEF next1, s
    <3> QED
      BY <2>1, <2>3, <2>4, <2>5, <3>2, <3>3 DEF s
  <2>6. CASE Order[i+1] \notin Go
    BY <2>1, <2>2, <2>4, <2>6 DEF next1
  <2> QED
    BY <2>3, <2>5, <2>6
<1>12. Nat \subseteq T
  <2> HIDE DEF T
  <2> QED
    BY <1>10, <1>11, NatInduct
<1>13. Walked(f) - 1 \in Nat /\ Walked(f) - 1 <= n
  BY <1>0, WalkedIs
<1> QED
  BY <1>8, <1>12, <1>13

-----------------------------------------------------------------------------
(* One round, and all rounds.                                               *)

\* What rounds do to the strings of a file: one that moves had no file, goes to a
\* name of its stem that no other text holds, and has its file created; nothing
\* else is created.
Turns(slots, new, created) ==
    /\ new \in Seq(AnySlot) /\ Len(new) = Len(slots) /\ created \in Seq(Created)
    /\ \A i \in 1..Len(slots) :
          \/ new[i] = slots[i]
          \/ /\ slots[i].at = None /\ new[i].at # None
             /\ new[i].stem = slots[i].stem /\ new[i].text = slots[i].text
             /\ Unheld(new[i].at, slots[i].text)
             /\ new[i].at \in Names(slots[i])
             /\ \E c \in DOMAIN created : created[c] = [path |-> new[i].at, text |-> slots[i].text]
    /\ \A c \in DOMAIN created : \E i \in 1..Len(slots) :
          Moved(slots, [slots |-> new], i) /\ created[c] = [path |-> new[i].at, text |-> slots[i].text]

\* A round of the Go fixer is such a turn.
LEMMA PlanTurns ==
    ASSUME NEW slots \in Seq(AnySlot), NEW F \in SUBSET Path, NEW q, Laid(slots, F, q, Len(slots))
    PROVE  Turns(slots, q.slots, q.created)
<1>1. q \in Plan /\ q.slots \in Seq(AnySlot) /\ Len(q.slots) = Len(slots) /\ q.created \in Seq(Created)
  BY DEF Laid, Plan
<1>0. \A i \in 1..Len(slots) : Moved(slots, q, i) =>
         /\ q.slots[i].at \in q.files \ F
         /\ Unheld(q.slots[i].at, slots[i].text)
         /\ q.slots[i].at \in Names(slots[i])
  BY PlanApart
<1>2. ASSUME NEW i \in 1..Len(slots), q.slots[i] # slots[i]
      PROVE  /\ slots[i].at = None /\ q.slots[i].at # None
             /\ q.slots[i].stem = slots[i].stem /\ q.slots[i].text = slots[i].text
             /\ Unheld(q.slots[i].at, slots[i].text)
             /\ q.slots[i].at \in Names(slots[i])
             /\ \E c \in DOMAIN q.created : q.created[c] = [path |-> q.slots[i].at, text |-> slots[i].text]
  <2> DEFINE G == F \cup Prior(slots, q, i)
  <2>1. Lies(slots, F, q, i) /\ slots[i] \in AnySlot
    BY DEF Laid
  <2>2. /\ slots[i].at = None /\ Free(slots[i], G) # {} /\ q.slots[i].at = Place(slots[i], G)
        /\ q.slots[i].stem = slots[i].stem /\ q.slots[i].text = slots[i].text
        /\ \E c \in DOMAIN q.created : q.created[c] = [path |-> q.slots[i].at, text |-> slots[i].text]
    BY <1>2, <2>1 DEF Lies
  <2> HIDE DEF G
  <2>3. q.slots[i].at # None
    BY <2>1, <2>2, PlaceNotNone
  <2>4. Moved(slots, q, i)
    BY <2>2, <2>3 DEF Moved
  <2>5. Unheld(q.slots[i].at, slots[i].text) /\ q.slots[i].at \in Names(slots[i])
    BY <1>0, <2>4
  <2> QED
    BY <2>2, <2>3, <2>5
<1>3. \A i : Moved(slots, q, i) <=> Moved(slots, [slots |-> q.slots], i)
  BY DEF Moved
<1>4. \A c \in DOMAIN q.created : \E i \in 1..Len(slots) :
          Moved(slots, [slots |-> q.slots], i) /\ q.created[c] = [path |-> q.slots[i].at, text |-> slots[i].text]
  BY <1>3 DEF Laid
<1> QED
  BY <1>1, <1>2, <1>4 DEF Turns

\* The workflow fixer's steps, by their recursion.
AnyRepair == [slots : Seq(AnySlot), created : Seq(Created)]
MoveLies(q, s, t) ==
    \/ (s.at # None \/ Free(s, {}) = {}) /\ t = s
    \/ /\ s.at = None /\ Free(s, {}) # {}
       /\ t.stem = s.stem /\ t.text = s.text /\ t.at = Place(s, {})
       /\ \E c \in DOMAIN q.created : q.created[c] = [path |-> t.at, text |-> s.text]
MoveLaid(slots, q, m) ==
    /\ q \in AnyRepair /\ Len(q.slots) = m
    /\ \A i \in 1..m : MoveLies(q, slots[i], q.slots[i])
    /\ \A c \in DOMAIN q.created : \E i \in 1..m :
          Moved(slots, q, i) /\ q.created[c] = [path |-> q.slots[i].at, text |-> slots[i].text]

\* One step of extractTests: a step of the workflow moves to the first name its
\* text may take, whatever the other steps took.
LEMMA MoveStepIs ==
    ASSUME NEW p \in AnyRepair, NEW s \in AnySlot
    PROVE  /\ MoveStep(p, s) \in AnyRepair
           /\ \E t \in AnySlot :
                 /\ MoveStep(p, s).slots = Append(p.slots, t)
                 /\ \/ (s.at # None \/ Free(s, {}) = {}) /\ t = s /\ MoveStep(p, s).created = p.created
                    \/ /\ s.at = None /\ Free(s, {}) # {}
                       /\ t.stem = s.stem /\ t.text = s.text /\ t.at = Place(s, {})
                       /\ MoveStep(p, s).created = Append(p.created, [path |-> t.at, text |-> s.text])
<1>0. p.slots \in Seq(AnySlot) /\ p.created \in Seq(Created)
  BY DEF AnyRepair
<1>1. CASE s.at # None \/ Free(s, {}) = {}
  <2>1. MoveStep(p, s) = [p EXCEPT !.slots = Append(@, s)]
    BY <1>1 DEF MoveStep
  <2>2. Append(p.slots, s) \in Seq(AnySlot)
    BY <1>0
  <2>3. MoveStep(p, s) \in AnyRepair
    BY <2>1, <2>2 DEF AnyRepair
  <2>4. MoveStep(p, s).slots = Append(p.slots, s) /\ MoveStep(p, s).created = p.created
    BY <2>1 DEF AnyRepair
  <2> QED
    BY <1>1, <2>3, <2>4
<1>2. CASE s.at = None /\ Free(s, {}) # {}
  <2> DEFINE path == Place(s, {})
             t == [s EXCEPT !.at = path]
  <2>1. MoveStep(p, s) = [p EXCEPT !.slots = Append(@, t),
                                   !.created = Append(@, [path |-> path, text |-> s.text])]
    BY <1>2 DEF MoveStep
  <2>2. path \in Path
    BY <1>2, PlaceIs
  <2>3. path = Place(s, {})
    OBVIOUS
  <2> HIDE DEF path
  <2>4. t \in AnySlot /\ t.stem = s.stem /\ t.text = s.text /\ t.at = path
    BY <2>2 DEF AnySlot
  <2> HIDE DEF t
  <2>5. [path |-> path, text |-> s.text] \in Created
    BY <2>2 DEF Created, AnySlot
  <2>6. Append(p.slots, t) \in Seq(AnySlot) /\ Append(p.created, [path |-> path, text |-> s.text]) \in Seq(Created)
    BY <1>0, <2>4, <2>5
  <2>7. MoveStep(p, s) \in AnyRepair
    BY <2>1, <2>6 DEF AnyRepair
  <2>8. /\ MoveStep(p, s).slots = Append(p.slots, t)
        /\ MoveStep(p, s).created = Append(p.created, [path |-> t.at, text |-> s.text])
    BY <2>1, <2>4 DEF AnyRepair
  <2> QED
    BY <1>2, <2>3, <2>4, <2>7, <2>8
<1> QED
  BY <1>1, <1>2

\* extractTests computes the value that its steps end in.
LEMMA MoveRuns ==
    ASSUME NEW slots \in Seq(AnySlot)
    PROVE  \E w : /\ w \in [0..Len(slots) -> AnyRepair] /\ w[0] = Unchanged
                  /\ \A i \in 1..Len(slots) : w[i] = MoveStep(w[i-1], slots[i])
                  /\ MoveSteps(slots) = w[Len(slots)]
<1>0. PICK n \in Nat : n = Len(slots)
  OBVIOUS
<1> DEFINE step == [x \in (1..n) \X AnyRepair |-> MoveStep(x[2], slots[x[1]])]
           body(f, i) == IF i = 0 THEN Unchanged ELSE MoveStep(f[i-1], slots[i])
           g == CHOOSE f : f = [i \in 0..Len(slots) |-> body(f, i)]
<1>1. Unchanged \in AnyRepair
  BY DEF AnyRepair, Unchanged
<1>2. \A i \in 1..n, p \in AnyRepair : MoveStep(p, slots[i]) \in AnyRepair
  <2>1. \A i \in 1..n : slots[i] \in AnySlot
    BY <1>0
  <2> QED
    BY <2>1, MoveStepIs
<1>3. PICK f : Repeats(f, n, AnyRepair, Unchanged, step)
  <2>1. step \in [(1..n) \X AnyRepair -> AnyRepair]
    BY <1>2
  <2> HIDE DEF step
  <2> QED
    BY <1>1, <2>1, Recursion
<1>4. f \in [0..n -> AnyRepair] /\ f[0] = Unchanged /\ \A i \in 1..n : f[i] = MoveStep(f[i-1], slots[i])
  <2>1. \A i \in 1..n : i - 1 \in 0..n
    OBVIOUS
  <2> QED
    BY <1>3, <2>1 DEF Repeats
<1> HIDE DEF step
<1>5. f = [i \in 0..Len(slots) |-> body(f, i)]
  <2>1. ASSUME NEW i \in 0..n PROVE f[i] = body(f, i)
    <3>1. CASE i = 0
      BY <1>4, <3>1
    <3>2. CASE i # 0
      <4>1. i \in 1..n
        BY <3>2
      <4> QED
        BY <1>4, <3>2, <4>1
    <3> QED
      BY <3>1, <3>2
  <2> HIDE DEF body
  <2> QED
    BY <1>0, <1>4, <2>1
<1>6. g = [i \in 0..Len(slots) |-> body(g, i)]
  <2> HIDE DEF body
  <2> QED
    BY <1>5
<1>7. MoveSteps(slots) = g[Len(slots)]
  BY Zenon DEF MoveSteps
<1> HIDE DEF g
<1>8. g[0] = Unchanged /\ \A i \in 1..n : g[i] = MoveStep(g[i-1], slots[i])
  BY <1>0, <1>6
<1> DEFINE T == {i \in Nat : i <= n => g[i] \in AnyRepair}
<1>9. 0 \in T
  BY <1>1, <1>8
<1>10. ASSUME NEW i \in T \cap Nat PROVE i + 1 \in T
  <2> SUFFICES ASSUME i + 1 <= n PROVE g[i+1] \in AnyRepair
    OBVIOUS
  <2>1. g[i] \in AnyRepair /\ i + 1 \in 1..n
    BY <1>0
  <2> QED
    BY <1>2, <1>8, <2>1
<1>11. Nat \subseteq T
  <2> HIDE DEF T
  <2> QED
    BY <1>9, <1>10, NatInduct
<1>12. g \in [0..n -> AnyRepair]
  BY <1>0, <1>6, <1>11
<1> QED
  BY <1>0, <1>7, <1>8, <1>12

\* One workflow step more.
LEMMA MoveLaidStep ==
    ASSUME NEW slots \in Seq(AnySlot), NEW q, NEW m \in Nat, m + 1 <= Len(slots), MoveLaid(slots, q, m)
    PROVE  MoveLaid(slots, MoveStep(q, slots[m+1]), m + 1)
<1> DEFINE s == slots[m+1]
           r == MoveStep(q, s)
<1>1. s \in AnySlot /\ q \in AnyRepair /\ q.slots \in Seq(AnySlot) /\ Len(q.slots) = m /\ q.created \in Seq(Created)
  <2>1. m + 1 \in 1..Len(slots)
    OBVIOUS
  <2> QED
    BY <2>1 DEF MoveLaid, AnyRepair
<1> HIDE DEF s
<1>2. PICK t \in AnySlot :
          /\ r \in AnyRepair /\ r.slots = Append(q.slots, t)
          /\ \/ (s.at # None \/ Free(s, {}) = {}) /\ t = s /\ r.created = q.created
             \/ /\ s.at = None /\ Free(s, {}) # {}
                /\ t.stem = s.stem /\ t.text = s.text /\ t.at = Place(s, {})
                /\ r.created = Append(q.created, [path |-> t.at, text |-> s.text])
  BY <1>1, MoveStepIs
<1> HIDE DEF r
<1>3. Len(r.slots) = m + 1 /\ r.slots[m+1] = t /\ \A k \in 1..m : r.slots[k] = q.slots[k]
  BY <1>1, <1>2
<1>6. /\ \A c \in DOMAIN q.created : c \in DOMAIN r.created /\ r.created[c] = q.created[c]
      /\ \A c \in DOMAIN r.created : c \in DOMAIN q.created \/
            /\ s.at = None /\ Free(s, {}) # {} /\ t.at = Place(s, {})
            /\ r.created[c] = [path |-> t.at, text |-> s.text]
      /\ s.at = None /\ Free(s, {}) # {} =>
            \E c \in DOMAIN r.created : r.created[c] = [path |-> t.at, text |-> s.text]
  <2>1. CASE s.at # None \/ Free(s, {}) = {}
    BY <1>2, <2>1
  <2>2. CASE s.at = None /\ Free(s, {}) # {}
    <3>1. r.created = Append(q.created, [path |-> t.at, text |-> s.text]) /\ t.at = Place(s, {})
      BY <1>2, <2>2
    <3>2. Len(q.created) + 1 \in DOMAIN r.created
          /\ r.created[Len(q.created) + 1] = [path |-> t.at, text |-> s.text]
      BY <1>1, <3>1
    <3>3. \A c \in DOMAIN r.created : c \in DOMAIN q.created \/ c = Len(q.created) + 1
      BY <1>1, <3>1
    <3>4. \A c \in DOMAIN q.created : c \in DOMAIN r.created /\ r.created[c] = q.created[c]
      BY <1>1, <3>1
    <3> QED
      BY <2>2, <3>1, <3>2, <3>3, <3>4
  <2> QED
    BY <2>1, <2>2
<1>7. ASSUME NEW i \in 1..m PROVE MoveLies(r, slots[i], r.slots[i])
  <2>1. MoveLies(q, slots[i], q.slots[i]) /\ r.slots[i] = q.slots[i]
    BY <1>3 DEF MoveLaid
  <2>2. \A x : (\E c \in DOMAIN q.created : q.created[c] = x) => \E c \in DOMAIN r.created : r.created[c] = x
    BY <1>6
  <2> QED
    BY <2>1, <2>2 DEF MoveLies
<1>8. MoveLies(r, s, r.slots[m+1])
  BY <1>2, <1>3, <1>6 DEF MoveLies
<1>9. ASSUME NEW c \in DOMAIN r.created
      PROVE  \E i \in 1..(m+1) :
                 Moved(slots, r, i) /\ r.created[c] = [path |-> r.slots[i].at, text |-> slots[i].text]
  <2>1. CASE c \in DOMAIN q.created
    <3>1. PICK i \in 1..m : Moved(slots, q, i) /\ q.created[c] = [path |-> q.slots[i].at, text |-> slots[i].text]
      BY <2>1 DEF MoveLaid
    <3>2. i \in 1..(m+1) /\ Moved(slots, r, i) /\ r.slots[i] = q.slots[i]
      BY <1>3, <3>1 DEF Moved
    <3> QED
      BY <1>6, <2>1, <3>1, <3>2
  <2>2. CASE c \notin DOMAIN q.created
    <3>1. s.at = None /\ Free(s, {}) # {} /\ t.at = Place(s, {}) /\ r.created[c] = [path |-> t.at, text |-> s.text]
      BY <1>6, <2>2
    <3>2. t.at # None
      BY <1>1, <3>1, PlaceNotNone
    <3>3. Moved(slots, r, m + 1) /\ m + 1 \in 1..(m+1)
      BY <1>3, <3>1, <3>2 DEF Moved, s
    <3> QED
      BY <1>3, <3>1, <3>3 DEF s
  <2> QED
    BY <2>1, <2>2
<1>10. \A i \in 1..(m+1) : MoveLies(r, slots[i], r.slots[i])
  <2>1. \A i \in 1..(m+1) : i \in 1..m \/ i = m + 1
    OBVIOUS
  <2> QED
    BY <1>7, <1>8, <2>1 DEF s
<1>11. MoveLaid(slots, r, m + 1)
  BY <1>2, <1>3, <1>9, <1>10 DEF MoveLaid
<1> QED
  BY <1>11 DEF r, s

\* What extractTests does with the steps of a workflow.
LEMMA MovesLaid ==
    ASSUME NEW slots \in Seq(AnySlot)
    PROVE  MoveLaid(slots, MoveSteps(slots), Len(slots))
<1>1. PICK w : /\ w \in [0..Len(slots) -> AnyRepair] /\ w[0] = Unchanged
               /\ \A i \in 1..Len(slots) : w[i] = MoveStep(w[i-1], slots[i])
               /\ MoveSteps(slots) = w[Len(slots)]
  BY MoveRuns
<1>2. PICK n \in Nat : n = Len(slots)
  OBVIOUS
<1> DEFINE T == {m \in Nat : m <= n => MoveLaid(slots, w[m], m)}
<1>3. 0 \in T
  <2>1. w[0] \in AnyRepair /\ Len(w[0].slots) = 0 /\ DOMAIN w[0].created = {}
    BY <1>1, <1>2 DEF Unchanged
  <2>2. MoveLaid(slots, w[0], 0)
    BY <2>1 DEF MoveLaid
  <2> QED
    BY <2>2
<1>4. ASSUME NEW m \in T \cap Nat PROVE m + 1 \in T
  <2> SUFFICES ASSUME m + 1 <= n PROVE MoveLaid(slots, w[m+1], m + 1)
    OBVIOUS
  <2>1. MoveLaid(slots, w[m], m) /\ m + 1 \in 1..n
    OBVIOUS
  <2>2. w[m+1] = MoveStep(w[m], slots[m+1])
    BY <1>1, <1>2, <2>1
  <2> QED
    BY <1>2, <2>1, <2>2, MoveLaidStep
<1>5. Nat \subseteq T
  <2> HIDE DEF T
  <2> QED
    BY <1>3, <1>4, NatInduct
<1>6. MoveLaid(slots, w[n], n)
  BY <1>5
<1> QED
  BY <1>1, <1>2, <1>6

\* A round of the workflow fixer is a turn too.
LEMMA MoveTurns ==
    ASSUME NEW slots \in Seq(AnySlot), NEW q, MoveLaid(slots, q, Len(slots))
    PROVE  Turns(slots, q.slots, q.created)
<1>1. q \in AnyRepair /\ q.slots \in Seq(AnySlot) /\ Len(q.slots) = Len(slots) /\ q.created \in Seq(Created)
  BY DEF MoveLaid, AnyRepair
<1>2. ASSUME NEW i \in 1..Len(slots), q.slots[i] # slots[i]
      PROVE  /\ slots[i].at = None /\ q.slots[i].at # None
             /\ q.slots[i].stem = slots[i].stem /\ q.slots[i].text = slots[i].text
             /\ Unheld(q.slots[i].at, slots[i].text) /\ q.slots[i].at \in Names(slots[i])
             /\ \E c \in DOMAIN q.created : q.created[c] = [path |-> q.slots[i].at, text |-> slots[i].text]
  <2>1. slots[i] \in AnySlot /\ MoveLies(q, slots[i], q.slots[i])
    BY DEF MoveLaid
  <2>2. /\ slots[i].at = None /\ Free(slots[i], {}) # {} /\ q.slots[i].at = Place(slots[i], {})
        /\ q.slots[i].stem = slots[i].stem /\ q.slots[i].text = slots[i].text
        /\ \E c \in DOMAIN q.created : q.created[c] = [path |-> q.slots[i].at, text |-> slots[i].text]
    BY <1>2, <2>1 DEF MoveLies
  <2> DEFINE s == slots[i]
  <2>3. s \in AnySlot /\ Free(s, {}) # {} /\ q.slots[i].at = Place(s, {})
    BY <2>1, <2>2
  <2> HIDE DEF s
  <2>4. Place(s, {}) # None /\ Unheld(Place(s, {}), s.text) /\ Place(s, {}) \in Names(s)
    BY <2>3, PlaceIs, PlaceNotNone
  <2>5. q.slots[i].at # None /\ Unheld(q.slots[i].at, s.text) /\ q.slots[i].at \in Names(s)
    BY <2>3, <2>4
  <2> QED
    BY <2>2, <2>5 DEF s
<1>3. \A i : Moved(slots, q, i) <=> Moved(slots, [slots |-> q.slots], i)
  BY DEF Moved
<1>4. \A c \in DOMAIN q.created : \E i \in 1..Len(slots) :
          Moved(slots, [slots |-> q.slots], i) /\ q.created[c] = [path |-> q.slots[i].at, text |-> slots[i].text]
  BY <1>3 DEF MoveLaid
<1> QED
  BY <1>1, <1>2, <1>4 DEF Turns

\* The plan of a Go file answers to the claims of the files before it.
LEMMA GoPlanLaid ==
    ASSUME Shaped, NEW C, Claims(C), NEW f \in File, NEW slots \in Seq(AnySlot)
    PROVE  Laid(slots, C[Walked(f) - 1], GoPlan(f, slots), Len(slots))
<1> DEFINE N == Taken(f, slots)
           claim == Claim(f, N)
<1>1. N \in SUBSET AnyVar
  <2>1. ASSUME NEW z \in Seq(AnySlot) PROVE Vars(z) \subseteq AnyVar
    <3>1. \A i \in DOMAIN z : z[i] \in AnySlot
      OBVIOUS
    <3>2. \A t \in AnySlot : t.var \in AnyVar
      BY DEF AnySlot
    <3> QED
      BY <3>1, <3>2 DEF Vars, Range
  <2>2. \A g \in Go : content[g] \in Seq(AnySlot)
    BY DEF Shaped, Go
  <2>3. \A g \in Go : Vars(content[g]) \subseteq AnyVar
    BY <2>1, <2>2
  <2> HIDE DEF N
  <2> QED
    BY <2>1, <2>3 DEF Taken, N
<1> HIDE DEF N
<1>2. claim \in Plan /\ claim.files = C[Walked(f) - 1]
  BY <1>1, ClaimIs
<1>3. GoPlan(f, slots) = PlanWith(slots, claim.names, claim.files)
  BY DEF GoPlan, N
<1> HIDE DEF claim
<1>4. PICK A \in SUBSET AnyVar, F \in SUBSET Path : A = claim.names /\ F = claim.files
  BY <1>2 DEF Plan
<1>5. Laid(slots, F, PlanWith(slots, A, F), Len(slots))
  BY PlanLaid
<1> QED
  BY <1>2, <1>3, <1>4, <1>5

\* A round adds what its fixer creates.
LEMMA RoundTurns ==
    ASSUME Shaped, NEW f \in File, NEW p, p.slots \in Seq(AnySlot), p.created \in Seq(Created)
    PROVE  \E new, more : /\ Turns(p.slots, new, more)
                          /\ Round(f, p) = [slots |-> new, created |-> p.created \o more]
<1> DEFINE q == IF f \in Workflow THEN MoveSteps(p.slots) ELSE GoPlan(f, p.slots)
<1>1. Round(f, p) = [slots |-> q.slots, created |-> p.created \o q.created]
  BY DEF Round
<1>2. PICK z \in Seq(AnySlot) : z = p.slots
  OBVIOUS
<1>3. CASE f \in Workflow
  <2>1. PICK r : r = MoveSteps(z)
    OBVIOUS
  <2>2. MoveLaid(z, r, Len(z))
    BY <2>1, MovesLaid
  <2>3. Turns(z, r.slots, r.created)
    BY <2>2, MoveTurns
  <2>4. q = r
    BY <1>2, <1>3, <2>1
  <2> QED
    BY <1>1, <1>2, <2>3, <2>4
<1>4. CASE f \notin Workflow
  <2>1. PICK C : Claims(C)
    BY ClaimsExist
  <2>2. PICK r : r = GoPlan(f, z)
    OBVIOUS
  <2>3. PICK F \in SUBSET Path : F = C[Walked(f) - 1]
    <3>1. Walked(f) - 1 \in 0..Len(Order)
      BY WalkedIs
    <3> QED
      BY <2>1, <3>1 DEF Claims
  <2>4. Laid(z, F, r, Len(z))
    BY <2>1, <2>2, <2>3, GoPlanLaid
  <2>5. Turns(z, r.slots, r.created)
    BY <2>4, PlanTurns
  <2>6. q = r
    BY <1>2, <1>4, <2>2
  <2> QED
    BY <1>1, <1>2, <2>5, <2>6
<1> QED
  BY <1>3, <1>4

\* Two rounds after each other.
LEMMA TurnsTurn ==
    ASSUME NEW a \in Seq(AnySlot), NEW b, NEW c, NEW x, NEW y, Turns(a, b, x), Turns(b, c, y)
    PROVE  Turns(a, c, x \o y)
<1>1. /\ b \in Seq(AnySlot) /\ c \in Seq(AnySlot) /\ Len(b) = Len(a) /\ Len(c) = Len(a)
      /\ x \in Seq(Created) /\ y \in Seq(Created)
  BY DEF Turns
<1>2. PICK z : z = x \o y
  OBVIOUS
<1>3. /\ z \in Seq(Created)
      /\ \A k \in DOMAIN x : k \in DOMAIN z /\ z[k] = x[k]
      /\ \A k \in DOMAIN y : Len(x) + k \in DOMAIN z /\ z[Len(x) + k] = y[k]
      /\ \A k \in DOMAIN z : k \in DOMAIN x \/ (k - Len(x) \in DOMAIN y /\ z[k] = y[k - Len(x)])
  <2>1. PICK m \in Nat, n \in Nat : m = Len(x) /\ n = Len(y)
    BY <1>1
  <2>2. DOMAIN x = 1..m /\ DOMAIN y = 1..n
    BY <1>1, <2>1
  <2>3. z \in Seq(Created) /\ Len(z) = Len(x) + Len(y)
    BY <1>1, <1>2, ConcatProperties
  <2>4. \A k \in 1..Len(x) + Len(y) : z[k] = IF k <= Len(x) THEN x[k] ELSE y[k - Len(x)]
    BY <1>1, <1>2, ConcatProperties
  <2>5. DOMAIN z = 1..(m + n)
    BY <2>1, <2>3
  <2>6. \A k \in 1..(m + n) : z[k] = IF k <= m THEN x[k] ELSE y[k - m]
    BY <2>1, <2>4
  <2>7. ASSUME NEW k \in 1..m PROVE k \in 1..(m + n) /\ z[k] = x[k]
    BY <2>6
  <2>8. ASSUME NEW k \in 1..n PROVE m + k \in 1..(m + n) /\ z[m + k] = y[k]
    <3>1. m + k \in 1..(m + n) /\ ~(m + k <= m) /\ (m + k) - m = k
      OBVIOUS
    <3> QED
      BY <2>6, <3>1
  <2>9. ASSUME NEW k \in 1..(m + n) PROVE k \in 1..m \/ (k - m \in 1..n /\ z[k] = y[k - m])
    <3>1. CASE k <= m
      <4>1. k \in 1..m
        BY <3>1
      <4> QED
        BY <4>1
    <3>2. CASE ~(k <= m)
      <4>1. k - m \in 1..n
        BY <3>2
      <4>2. z[k] = y[k - m]
        BY <2>6, <3>2
      <4> QED
        BY <4>1, <4>2
    <3> QED
      BY <3>1, <3>2
  <2> QED
    BY <2>1, <2>2, <2>3, <2>5, <2>7, <2>8, <2>9
<1>4. ASSUME NEW i \in 1..Len(a), c[i] # a[i]
      PROVE  /\ a[i].at = None /\ c[i].at # None /\ c[i].stem = a[i].stem /\ c[i].text = a[i].text
             /\ Unheld(c[i].at, a[i].text) /\ c[i].at \in Names(a[i])
             /\ \E k \in DOMAIN z : z[k] = [path |-> c[i].at, text |-> a[i].text]
  <2>1. CASE b[i] = a[i]
    <3>1. /\ a[i].at = None /\ c[i].at # None /\ c[i].stem = a[i].stem /\ c[i].text = a[i].text
          /\ Unheld(c[i].at, a[i].text) /\ c[i].at \in Names(a[i])
          /\ \E k \in DOMAIN y : y[k] = [path |-> c[i].at, text |-> a[i].text]
      BY <1>1, <1>4, <2>1 DEF Turns
    <3> QED
      BY <1>3, <3>1
  <2>2. CASE b[i] # a[i]
    <3>1. /\ a[i].at = None /\ b[i].at # None /\ b[i].stem = a[i].stem /\ b[i].text = a[i].text
          /\ Unheld(b[i].at, a[i].text) /\ b[i].at \in Names(a[i])
          /\ \E k \in DOMAIN x : x[k] = [path |-> b[i].at, text |-> a[i].text]
      BY <2>2 DEF Turns
    <3>2. c[i] = b[i]
      BY <1>1, <3>1 DEF Turns
    <3> QED
      BY <1>3, <3>1, <3>2
  <2> QED
    BY <2>1, <2>2
<1>5. ASSUME NEW k \in DOMAIN z
      PROVE  \E i \in 1..Len(a) : Moved(a, [slots |-> c], i) /\ z[k] = [path |-> c[i].at, text |-> a[i].text]
  <2>1. CASE k \in DOMAIN x
    <3>1. PICK i \in 1..Len(a) : Moved(a, [slots |-> b], i) /\ x[k] = [path |-> b[i].at, text |-> a[i].text]
      BY <2>1 DEF Turns
    <3>2. c[i] = b[i]
      BY <1>1, <3>1 DEF Turns, Moved
    <3> QED
      BY <1>3, <2>1, <3>1, <3>2 DEF Moved
  <2>2. CASE k - Len(x) \in DOMAIN y /\ z[k] = y[k - Len(x)]
    <3>0. \E i \in 1..Len(b) : Moved(b, [slots |-> c], i)
                               /\ y[k - Len(x)] = [path |-> c[i].at, text |-> b[i].text]
      BY <2>2 DEF Turns
    <3>1. PICK i \in 1..Len(a) : Moved(b, [slots |-> c], i) /\ z[k] = [path |-> c[i].at, text |-> b[i].text]
      BY <1>1, <2>2, <3>0
    <3>2. b[i] = a[i]
      BY <3>1 DEF Turns, Moved
    <3> QED
      BY <3>1, <3>2 DEF Moved
  <2> QED
    BY <1>3, <2>1, <2>2
<1>6. Turns(a, c, z)
  BY <1>1, <1>3, <1>4, <1>5 DEF Turns
<1> QED
  BY <1>2, <1>6

\* The rounds of a repair, by their recursion.
PassPlan == [slots : Seq(AnySlot), created : Seq(Created), holds : BOOLEAN]
Lands(created) == [i \in DOMAIN created |-> [created[i] EXCEPT !.text = Landed(created[i].path, @)]]
Passes(w, f) ==
    /\ w \in [0..FixRounds -> PassPlan]
    /\ w[0] = [slots |-> content[f], created |-> << >>, holds |-> FALSE]
    /\ \A n \in 1..FixRounds : w[n] = Pass(f, w[n-1])

\* A pass of fixText keeps the type of what it passes on.
LEMMA PassType ==
    ASSUME Shaped, NEW f \in File, NEW p \in PassPlan PROVE Pass(f, p) \in PassPlan
<1>1. CASE p.holds
  BY <1>1 DEF Pass
<1>2. CASE ~p.holds
  <2>0. p.slots \in Seq(AnySlot) /\ p.created \in Seq(Created)
    BY DEF PassPlan
  <2>1. PICK new, more : /\ Turns(p.slots, new, more)
                         /\ Round(f, p) = [slots |-> new, created |-> p.created \o more]
    BY <2>0, RoundTurns
  <2>2. new \in Seq(AnySlot) /\ more \in Seq(Created)
    BY <2>1 DEF Turns
  <2>3. p.created \o more \in Seq(Created)
    BY <2>0, <2>2, ConcatProperties
  <2>4. Pass(f, p) = [slots |-> new, created |-> p.created \o more, holds |-> new = p.slots]
    BY <1>2, <2>1 DEF Pass
  <2> QED
    BY <2>2, <2>3, <2>4 DEF PassPlan
<1> QED
  BY <1>1, <1>2

\* fixText computes the value its passes end in, each new file landed.
LEMMA PassRuns ==
    ASSUME Shaped, NEW f \in File
    PROVE  \E w : /\ Passes(w, f)
                  /\ Fixed(f) = [slots |-> w[FixRounds].slots, created |-> Lands(w[FixRounds].created)]
<1>0. PICK n \in Nat : n = FixRounds
  BY NameAssumption
<1> DEFINE a == [slots |-> content[f], created |-> << >>, holds |-> FALSE]
           step == [x \in (1..n) \X PassPlan |-> Pass(f, x[2])]
           body(g, i) == IF i = 0 THEN a ELSE Pass(f, g[i-1])
           g0 == CHOOSE g : g = [i \in 0..FixRounds |-> body(g, i)]
<1>1. a \in PassPlan
  <2>1. content[f] \in Seq(AnySlot)
    BY DEF Shaped
  <2> QED
    BY <2>1 DEF PassPlan
<1>2. step \in [(1..n) \X PassPlan -> PassPlan]
  BY PassType
<1>3. PICK h : Repeats(h, n, PassPlan, a, step)
  <2> HIDE DEF step, a
  <2> QED
    BY <1>1, <1>2, Recursion
<1> HIDE DEF a
<1>4. h \in [0..n -> PassPlan] /\ h[0] = a /\ \A i \in 1..n : h[i] = Pass(f, h[i-1])
  <2>1. \A i \in 1..n : i - 1 \in 0..n
    OBVIOUS
  <2> QED
    BY <1>3, <2>1 DEF Repeats
<1> HIDE DEF step
<1>5. h = [i \in 0..FixRounds |-> body(h, i)]
  <2>1. ASSUME NEW i \in 0..n PROVE h[i] = body(h, i)
    <3>1. CASE i = 0
      BY <1>4, <3>1
    <3>2. CASE i # 0
      <4>1. i \in 1..n
        BY <3>2
      <4> QED
        BY <1>4, <3>2, <4>1
    <3> QED
      BY <3>1, <3>2
  <2> HIDE DEF body
  <2> QED
    BY <1>0, <1>4, <2>1
<1>6. g0 = [i \in 0..FixRounds |-> body(g0, i)]
  <2> HIDE DEF body
  <2> QED
    BY <1>5
<1>7. Fixed(f) = [slots |-> g0[FixRounds].slots, created |-> Lands(g0[FixRounds].created)]
  BY Zenon DEF Fixed, Lands, a
<1> HIDE DEF g0
<1>8. g0[0] = a /\ \A i \in 1..n : g0[i] = Pass(f, g0[i-1])
  BY <1>0, <1>6
<1> HIDE DEF body
<1> DEFINE T == {i \in Nat : i <= n => g0[i] \in PassPlan}
<1>9. 0 \in T
  BY <1>1, <1>8
<1>10. ASSUME NEW i \in T \cap Nat PROVE i + 1 \in T
  <2> SUFFICES ASSUME i + 1 <= n PROVE g0[i+1] \in PassPlan
    OBVIOUS
  <2>1. g0[i] \in PassPlan /\ i + 1 \in 1..n
    OBVIOUS
  <2> QED
    BY <1>8, <2>1, PassType
<1>11. Nat \subseteq T
  <2> HIDE DEF T
  <2> QED
    BY <1>9, <1>10, NatInduct
<1>12. g0 \in [0..n -> PassPlan]
  <2> USE DEF body
  <2>1. g0 = [i \in 0..n |-> g0[i]]
    BY <1>0, <1>6
  <2> QED
    BY <1>11, <2>1
<1> QED
  BY <1>0, <1>7, <1>8, <1>12 DEF Passes, a

\* What a judgement answers, all its rounds together.
LEMMA FixedTurns ==
    ASSUME Shaped, NEW f \in File
    PROVE  \E new, created : /\ Turns(content[f], new, created)
                             /\ Fixed(f) = [slots |-> new, created |-> Lands(created)]
<1>1. PICK w : /\ Passes(w, f)
               /\ Fixed(f) = [slots |-> w[FixRounds].slots, created |-> Lands(w[FixRounds].created)]
  BY PassRuns
<1>2. PICK n \in Nat : n = FixRounds
  BY NameAssumption
<1>3. PICK a \in Seq(AnySlot) : a = content[f]
  BY DEF Shaped
<1> DEFINE T == {m \in Nat : m <= n => Turns(a, w[m].slots, w[m].created)}
<1>4. 0 \in T
  <2>1. w[0] = [slots |-> a, created |-> << >>, holds |-> FALSE]
    BY <1>1, <1>3 DEF Passes
  <2>2. << >> \in Seq(Created) /\ DOMAIN << >> = {}
    OBVIOUS
  <2>3. Turns(a, a, << >>)
    BY <2>2 DEF Turns
  <2> QED
    BY <2>1, <2>3
<1>5. ASSUME NEW m \in T \cap Nat PROVE m + 1 \in T
  <2> SUFFICES ASSUME m + 1 <= n PROVE Turns(a, w[m+1].slots, w[m+1].created)
    OBVIOUS
  <2>1. m \in 0..n /\ m + 1 \in 1..n
    OBVIOUS
  <2>2. PICK p \in PassPlan : p = w[m]
    BY <1>1, <1>2, <2>1 DEF Passes
  <2>3. Turns(a, p.slots, p.created) /\ w[m+1] = Pass(f, p)
    BY <1>1, <1>2, <2>1, <2>2 DEF Passes
  <2>4. CASE p.holds
    BY <2>3, <2>4 DEF Pass
  <2>5. CASE ~p.holds
    <3>1. p.slots \in Seq(AnySlot) /\ p.created \in Seq(Created)
      BY DEF PassPlan
    <3>2. PICK new, more : /\ Turns(p.slots, new, more)
                           /\ Round(f, p) = [slots |-> new, created |-> p.created \o more]
      BY <3>1, RoundTurns
    <3>3. w[m+1].slots = new /\ w[m+1].created = p.created \o more
      BY <2>3, <2>5, <3>2 DEF Pass
    <3>4. PICK b, x : b = p.slots /\ x = p.created
      OBVIOUS
    <3>5. Turns(a, b, x) /\ Turns(b, new, more)
      BY <2>3, <3>2, <3>4
    <3>6. Turns(a, new, x \o more)
      BY <3>5, TurnsTurn
    <3> QED
      BY <3>3, <3>4, <3>6
  <2> QED
    BY <2>4, <2>5
<1>6. Nat \subseteq T
  <2> HIDE DEF T
  <2> QED
    BY <1>4, <1>5, NatInduct
<1>7. Turns(a, w[n].slots, w[n].created)
  BY <1>6
<1> QED
  BY <1>1, <1>2, <1>3, <1>7

-----------------------------------------------------------------------------
(* No two strings go to one path.                                           *)

\* A string the Go fixer leaves has no name free on the disk: it stayed for want
\* of a name, and not because other strings claimed the names it could have had.
Room == \A f \in Go : \A s \in Range(GoPlan(f, content[f]).slots) : s.at = None => Free(s, {}) = {}

\* No string shares its names with a workflow's: unlike the Go fixer, the workflow
\* fixer does not look at what the other strings of the tree will take.
Separate == \A f \in Workflow \cap File, g \in File :
    \A i \in 1..Len(content[f]), j \in 1..Len(content[g]) :
       content[f][i].at = None /\ content[g][j].at = None /\ (f # g \/ i # j)
       => Names(content[f][i]) \cap Names(content[g][j]) = {}

\* In a package with room the first round is the last that moves anything.
LEMMA FixedOnce ==
    ASSUME Shaped, Room, NEW f \in Go
    PROVE  Fixed(f).slots = GoPlan(f, content[f]).slots
<1>0. f \in File /\ f \notin Workflow
  BY DEF Go
<1>1. PICK w : /\ Passes(w, f)
               /\ Fixed(f) = [slots |-> w[FixRounds].slots, created |-> Lands(w[FixRounds].created)]
  BY <1>0, PassRuns
<1>2. PICK n \in Nat \ {0} : n = FixRounds
  BY NameAssumption
<1>3. PICK a \in Seq(AnySlot) : a = content[f]
  BY <1>0 DEF Shaped
<1>4. PICK C : Claims(C)
  BY ClaimsExist
<1>5. PICK F \in SUBSET Path : F = C[Walked(f) - 1]
  <2>1. Walked(f) - 1 \in 0..Len(Order)
    BY <1>0, WalkedIs
  <2> QED
    BY <1>4, <2>1 DEF Claims
<1>6. PICK q : q = GoPlan(f, a)
  OBVIOUS
<1>7. Laid(a, F, q, Len(a))
  BY <1>0, <1>4, <1>5, <1>6, GoPlanLaid
<1>8. PICK b \in Seq(AnySlot) : b = q.slots
  BY <1>7 DEF Laid, Plan
<1>9. \A i \in 1..Len(b) : b[i].at = None => Free(b[i], {}) = {}
  <2>1. \A s \in Range(b) : s.at = None => Free(s, {}) = {}
    BY <1>3, <1>6, <1>8 DEF Room
  <2> QED
    BY <2>1 DEF Range
<1>10. GoPlan(f, b).slots = b
  <2>1. PICK r : r = GoPlan(f, b)
    OBVIOUS
  <2>2. Laid(b, F, r, Len(b))
    BY <1>0, <1>4, <1>5, <2>1, GoPlanLaid
  <2>3. r.slots \in Seq(AnySlot) /\ Len(r.slots) = Len(b)
    BY <2>2 DEF Laid, Plan
  <2>4. ASSUME NEW i \in 1..Len(b) PROVE r.slots[i] = b[i]
    <3>1. Lies(b, F, r, i)
      BY <2>2 DEF Laid
    <3>2. Free(b[i], F \cup Prior(b, r, i)) \subseteq Free(b[i], {})
      BY DEF Free
    <3> QED
      BY <1>9, <3>1, <3>2 DEF Lies
  <2> QED
    BY <2>1, <2>3, <2>4
<1> DEFINE T == {m \in Nat : m + 1 <= n => w[m+1].slots = b}
<1>11. \A m \in 0..n : w[m] \in PassPlan
  BY <1>1, <1>2 DEF Passes
<1>12. \A p : Round(f, p).slots = GoPlan(f, p.slots).slots
  BY <1>0 DEF Round
<1>13. 0 \in T
  <2>1. w[0] = [slots |-> a, created |-> << >>, holds |-> FALSE] /\ w[1] = Pass(f, w[0])
    <3>1. 1 \in 1..n /\ 1 - 1 = 0
      OBVIOUS
    <3> QED
      BY <1>1, <1>2, <1>3, <3>1 DEF Passes
  <2>2. w[1].slots = GoPlan(f, a).slots
    BY <1>12, <2>1 DEF Pass
  <2> QED
    BY <1>6, <1>8, <2>2
<1>14. ASSUME NEW m \in T \cap Nat PROVE m + 1 \in T
  <2> SUFFICES ASSUME (m + 1) + 1 <= n PROVE w[(m+1)+1].slots = b
    OBVIOUS
  <2>1. m + 1 \in 0..n /\ (m + 1) + 1 \in 1..n /\ ((m + 1) + 1) - 1 = m + 1
    OBVIOUS
  <2>2. PICK p \in PassPlan : p = w[m+1]
    BY <1>11, <2>1
  <2>3. p.slots = b
    BY <2>2
  <2>4. w[(m+1)+1] = Pass(f, p)
    BY <1>1, <1>2, <2>1, <2>2 DEF Passes
  <2>5. CASE p.holds
    BY <2>3, <2>4, <2>5 DEF Pass
  <2>6. CASE ~p.holds
    <3>1. w[(m+1)+1].slots = GoPlan(f, b).slots
      BY <1>12, <2>3, <2>4, <2>6 DEF Pass
    <3> QED
      BY <1>10, <3>1
  <2> QED
    BY <2>5, <2>6
<1>15. Nat \subseteq T
  <2> HIDE DEF T
  <2> QED
    BY <1>13, <1>14, NatInduct
<1>16. n - 1 \in Nat /\ (n - 1) + 1 = n
  OBVIOUS
<1>17. w[n].slots = b
  BY <1>15, <1>16
<1> QED
  BY <1>1, <1>2, <1>3, <1>6, <1>8, <1>17

\* What is claimed stays claimed.
LEMMA ClaimsGrow ==
    ASSUME Shaped, NEW C, Claims(C), NEW i \in 0..Len(Order), NEW j \in 0..Len(Order), i <= j
    PROVE  C[i] \subseteq C[j]
<1>0. PICK n \in Nat : n = Len(Order) /\ \A k \in 1..n : Order[k] \in File
  <2>1. Order \in Seq(File)
    BY NameAssumption
  <2> QED
    BY <2>1
<1>1. ASSUME NEW k \in 1..n PROVE C[k-1] \subseteq C[k]
  <2>1. CASE Order[k] \in Go
    <3>1. PICK s \in Seq(AnySlot), F \in SUBSET Path : s = content[Order[k]] /\ F = C[k-1]
      <4>1. k - 1 \in 0..n /\ Order[k] \in File
        BY <1>0
      <4> QED
        BY <1>0, <4>1 DEF Shaped, Claims
    <3>2. C[k] = PlanWith(s, {}, F).files
      BY <1>0, <2>1, <3>1 DEF Claims
    <3>3. Laid(s, F, PlanWith(s, {}, F), Len(s))
      BY PlanLaid
    <3> QED
      BY <3>1, <3>2, <3>3 DEF Laid
  <2>2. CASE Order[k] \notin Go
    BY <1>0, <2>2 DEF Claims
  <2> QED
    BY <2>1, <2>2
<1> DEFINE T == {d \in Nat : i + d <= n => C[i] \subseteq C[i+d]}
<1>2. 0 \in T
  OBVIOUS
<1>3. ASSUME NEW d \in T \cap Nat PROVE d + 1 \in T
  <2> SUFFICES ASSUME i + (d + 1) <= n PROVE C[i] \subseteq C[i + (d + 1)]
    OBVIOUS
  <2>1. C[i] \subseteq C[i + d] /\ i + (d + 1) \in 1..n /\ (i + (d + 1)) - 1 = i + d
    OBVIOUS
  <2> QED
    BY <1>1, <2>1
<1>4. Nat \subseteq T
  <2> HIDE DEF T
  <2> QED
    BY <1>2, <1>3, NatInduct
<1>5. j - i \in Nat /\ i + (j - i) = j /\ j <= n
  BY <1>0
<1>6. j - i \in T
  BY <1>4, <1>5
<1> QED
  BY <1>5, <1>6

\* A Go file's plan takes paths that are claimed from then on and were not before.
LEMMA GoTakes ==
    ASSUME Shaped, NEW C, Claims(C), NEW f \in Go, NEW i \in 1..Len(content[f]),
           Moved(content[f], GoPlan(f, content[f]), i)
    PROVE  GoPlan(f, content[f]).slots[i].at \in C[Walked(f)] \ C[Walked(f) - 1]
<1>1. PICK a \in Seq(AnySlot) : a = content[f]
  BY DEF Shaped, Go
<1>2. f \in File /\ Walked(f) \in 1..Len(Order) /\ Order[Walked(f)] = f
  BY WalkedIs DEF Go
<1>3. PICK F \in SUBSET Path : F = C[Walked(f) - 1]
  <2>1. Walked(f) - 1 \in 0..Len(Order)
    BY <1>2
  <2> QED
    BY <2>1 DEF Claims
<1>4. PICK q, r : q = GoPlan(f, a) /\ r = PlanWith(a, {}, F)
  OBVIOUS
<1>5. Laid(a, F, q, Len(a)) /\ Laid(a, F, r, Len(a))
  <2>1. Laid(a, F, q, Len(a))
    BY <1>2, <1>3, <1>4, GoPlanLaid
  <2>2. Laid(a, F, r, Len(a))
    BY <1>4, PlanLaid
  <2> QED
    BY <2>1, <2>2
<1>6. q.files = r.files
  BY <1>5, PlanSame
<1>7. C[Walked(f)] = r.files
  BY <1>1, <1>2, <1>3, <1>4 DEF Claims
<1>8. q.slots[i].at \in q.files \ F
  <2>1. \A k \in 1..Len(a) : Moved(a, q, k) => q.slots[k].at \in q.files \ F
    BY <1>5, PlanApart
  <2> QED
    BY <1>1, <1>4, <2>1
<1> QED
  BY <1>1, <1>3, <1>4, <1>6, <1>7, <1>8

\* Two strings that judgements move, move to different paths.
LEMMA Spread ==
    ASSUME Shaped, Room, Separate, NEW f \in File, NEW g \in File,
           NEW i \in 1..Len(content[f]), NEW j \in 1..Len(content[g]),
           Moved(content[f], Fixed(f), i), Moved(content[g], Fixed(g), j), f # g \/ i # j
    PROVE  Fixed(f).slots[i].at # Fixed(g).slots[j].at
<1>1. ASSUME NEW h \in File, NEW k \in 1..Len(content[h]), Moved(content[h], Fixed(h), k)
      PROVE  content[h][k].at = None /\ Fixed(h).slots[k].at \in Names(content[h][k])
  <2>1. PICK new, created : Turns(content[h], new, created) /\ Fixed(h).slots = new
    BY FixedTurns
  <2> QED
    BY <1>1, <2>1 DEF Turns, Moved
<1>2. CASE f \in Workflow \/ g \in Workflow
  <2>1. content[f][i].at = None /\ Fixed(f).slots[i].at \in Names(content[f][i])
    BY <1>1
  <2>2. content[g][j].at = None /\ Fixed(g).slots[j].at \in Names(content[g][j])
    BY <1>1
  <2>3. Names(content[f][i]) \cap Names(content[g][j]) = {}
    <3>1. CASE f \in Workflow
      BY <2>1, <2>2, <3>1 DEF Separate
    <3>2. CASE g \in Workflow
      <4>1. Names(content[g][j]) \cap Names(content[f][i]) = {}
        BY <2>1, <2>2, <3>2 DEF Separate
      <4> QED
        BY <4>1
    <3> QED
      BY <1>2, <3>1, <3>2
  <2> QED
    BY <2>1, <2>2, <2>3
<1>3. CASE f \notin Workflow /\ g \notin Workflow
  <2>1. f \in Go /\ g \in Go
    BY <1>3 DEF Go
  <2>2. Fixed(f).slots = GoPlan(f, content[f]).slots /\ Fixed(g).slots = GoPlan(g, content[g]).slots
    BY <2>1, FixedOnce
  <2>3. Moved(content[f], GoPlan(f, content[f]), i) /\ Moved(content[g], GoPlan(g, content[g]), j)
    BY <2>2 DEF Moved
  <2>4. PICK C : Claims(C)
    BY ClaimsExist
  <2>5. Fixed(f).slots[i].at \in C[Walked(f)] \ C[Walked(f) - 1]
    BY <2>1, <2>2, <2>3, <2>4, GoTakes
  <2>6. Fixed(g).slots[j].at \in C[Walked(g)] \ C[Walked(g) - 1]
    BY <2>1, <2>2, <2>3, <2>4, GoTakes
  <2>7. PICK n \in Nat : n = Len(Order)
    BY NameAssumption
  <2>8. PICK x \in 1..n, y \in 1..n : x = Walked(f) /\ y = Walked(g) /\ Order[x] = f /\ Order[y] = g
    BY <2>7, WalkedIs
  <2>9. CASE x < y
    <3>1. C[x] \subseteq C[y - 1]
      <4>1. x \in 0..Len(Order) /\ y - 1 \in 0..Len(Order) /\ x <= y - 1
        BY <2>7, <2>9
      <4> QED
        BY <2>4, <4>1, ClaimsGrow
    <3> QED
      BY <2>5, <2>6, <2>8, <3>1
  <2>10. CASE y < x
    <3>1. C[y] \subseteq C[x - 1]
      <4>1. y \in 0..Len(Order) /\ x - 1 \in 0..Len(Order) /\ y <= x - 1
        BY <2>7, <2>10
      <4> QED
        BY <2>4, <4>1, ClaimsGrow
    <3> QED
      BY <2>5, <2>6, <2>8, <3>1
  <2>11. CASE x = y
    <3>1. f = g /\ i # j
      BY <2>8, <2>11
    <3>2. PICK a \in Seq(AnySlot) : a = content[f]
      BY DEF Shaped
    <3>3. PICK F \in SUBSET Path : F = C[Walked(f) - 1]
      <4>1. Walked(f) - 1 \in 0..Len(Order)
        BY <2>7, <2>8
      <4> QED
        BY <2>4, <4>1 DEF Claims
    <3>4. PICK q : q = GoPlan(f, a)
      OBVIOUS
    <3>5. Laid(a, F, q, Len(a))
      BY <2>4, <3>3, <3>4, GoPlanLaid
    <3>6. \A u, v \in 1..Len(a) : Moved(a, q, u) /\ Moved(a, q, v) /\ u # v => q.slots[u].at # q.slots[v].at
      BY <3>5, PlanApart
    <3>7. Moved(a, q, i) /\ Moved(a, q, j) /\ i \in 1..Len(a) /\ j \in 1..Len(a)
      BY <2>3, <3>1, <3>2, <3>4
    <3>8. q.slots[i].at # q.slots[j].at
      BY <3>1, <3>6, <3>7
    <3> QED
      BY <2>2, <3>1, <3>2, <3>4, <3>8
  <2> QED
    BY <2>9, <2>10, <2>11
<1> QED
  BY <1>2, <1>3

\* A judgement depends on the files only.
LEMMA FixedSame ==
    ASSUME content' = content, held' = held PROVE \A f : Fixed(f)' = Fixed(f)
<1>1. \A s, F : Free(s, F)' = Free(s, F)
  BY DEF Free, Unheld
<1>2. \A s, F : Place(s, F)' = Place(s, F)
  BY <1>1 DEF Place
<1>3. \A p, s : Hoist(p, s)' = Hoist(p, s)
  BY <1>1, <1>2 DEF Hoist
<1>4. \A a, b, c : PlanWith(a, b, c)' = PlanWith(a, b, c)
  BY <1>3 DEF PlanWith
<1>5. \A f, a : Claim(f, a)' = Claim(f, a)
  BY <1>4 DEF Claim
<1>6. \A f, a : Taken(f, a)' = Taken(f, a)
  BY DEF Taken
<1>7. \A f, a : GoPlan(f, a)' = GoPlan(f, a)
  BY <1>4, <1>5, <1>6 DEF GoPlan
<1>8. \A p, s : MoveStep(p, s)' = MoveStep(p, s)
  BY <1>1, <1>2 DEF MoveStep
<1>9. \A a : MoveSteps(a)' = MoveSteps(a)
  BY <1>8 DEF MoveSteps
<1>10. \A f, p : Round(f, p)' = Round(f, p)
  BY <1>7, <1>9 DEF Round
<1>11. \A f, p : Pass(f, p)' = Pass(f, p)
  BY <1>10 DEF Pass
<1> DEFINE Rounds(f) ==
             LET pass[n \in 0..FixRounds] ==
                     IF n = 0 THEN [slots |-> content[f], created |-> << >>, holds |-> FALSE]
                     ELSE Pass(f, pass[n-1])
             IN  pass[FixRounds]
<1>12. \A f : Rounds(f)' = Rounds(f)
  BY <1>11
<1>13. \A f : Fixed(f) = [slots |-> Rounds(f).slots, created |-> Lands(Rounds(f).created)]
  BY Zenon DEF Fixed, Lands
<1>14. \A f : Fixed(f)' = [slots |-> Rounds(f)'.slots, created |-> Lands(Rounds(f)'.created)]
  BY Zenon DEF Fixed, Lands
<1> HIDE DEF Rounds
<1> QED
  BY <1>12, <1>13, <1>14

-----------------------------------------------------------------------------
(* Types, as far as they hold without a bound on the variables' suffixes.   *)

\* Types, the faults counted and not bounded.
Typed ==
    /\ Shaped /\ held \in [Path -> Text \cup {None}]
    /\ procs \subseteq Proc /\ adds \in [File -> SUBSET Slot] /\ \A f \in File : \A t \in adds[f] : t.at = None
    /\ st \in [Proc -> {"idle", "judging", "merging", "done"}]
    /\ judged \in [Proc -> SUBSET File] /\ repairs \in [Proc -> [File -> AnyRepair]]
    /\ next \in [Proc -> Nat \ {0}] /\ written \in [Proc -> Nat]
    /\ faulted \in [Proc -> BOOLEAN] /\ whole \in [Proc -> BOOLEAN]
    /\ faults \in Nat

\* The slots of a scenario are slots.
LEMMA SlotIsAny == Slot \subseteq AnySlot /\ Seq(Slot) \subseteq Seq(AnySlot)
<1>1. Slot \subseteq AnySlot
  BY DEF Slot, AnySlot, AnyVar
<1> QED
  BY <1>1

\* What a repair is, said of values that its writes leave alone: the strings that
\* move had no file; each has its file among those created, and nothing else is.
Turned(slots, r) ==
    /\ Len(r.slots) = Len(slots)
    /\ \A i \in 1..Len(slots) :
          \/ r.slots[i] = slots[i]
          \/ /\ Moved(slots, r, i) /\ r.slots[i].at \in Path /\ r.slots[i].text = slots[i].text
             /\ \E c \in DOMAIN r.created : r.created[c].path = r.slots[i].at
    /\ \A c \in DOMAIN r.created : \E i \in 1..Len(slots) :
          /\ Moved(slots, r, i) /\ r.created[c].path = r.slots[i].at
          /\ Settle[r.created[c].text] = Settle[slots[i].text]

\* What lands settles to what its text settles to, in a fixture as anywhere.
LEMMA LandedIs ==
    ASSUME NEW path, NEW text \in Text
    PROVE  Landed(path, text) \in Text /\ Settle[Landed(path, text)] = Settle[text]
BY SettleAssumption DEF Landed

\* A judgement is such a repair, and moves a string only where nothing stands but
\* its own text.
LEMMA FixedTurned ==
    ASSUME Shaped, NEW f \in File
    PROVE  /\ Fixed(f) \in AnyRepair /\ Turned(content[f], Fixed(f))
           /\ \A i \in 1..Len(content[f]) : Moved(content[f], Fixed(f), i) =>
                 Unheld(Fixed(f).slots[i].at, content[f][i].text)
<1>1. PICK new, created : /\ Turns(content[f], new, created)
                          /\ Fixed(f) = [slots |-> new, created |-> Lands(created)]
  BY FixedTurns
<1>2. PICK a \in Seq(AnySlot) : a = content[f]
  BY DEF Shaped
<1>3. new \in Seq(AnySlot) /\ Len(new) = Len(a) /\ created \in Seq(Created)
  BY <1>1, <1>2 DEF Turns
<1>4. PICK r : r = Fixed(f)
  OBVIOUS
<1>5. r.slots = new /\ r.created = Lands(created)
  BY <1>1, <1>4
<1>6. DOMAIN r.created = DOMAIN created
  BY <1>5 DEF Lands
<1>7. ASSUME NEW c \in DOMAIN created
      PROVE  /\ r.created[c] \in Created /\ r.created[c].path = created[c].path
             /\ Settle[r.created[c].text] = Settle[created[c].text]
  <2>1. created[c] \in Created
    BY <1>3
  <2>2. r.created[c] = [created[c] EXCEPT !.text = Landed(created[c].path, created[c].text)]
    BY <1>5 DEF Lands
  <2>3. PICK t : t = Landed(created[c].path, created[c].text)
    OBVIOUS
  <2>4. created[c].text \in Text
    BY <2>1 DEF Created
  <2>5. t \in Text /\ Settle[t] = Settle[created[c].text]
    BY <2>3, <2>4, LandedIs
  <2> QED
    BY <2>1, <2>2, <2>3, <2>5 DEF Created
<1>8. r.created \in Seq(Created)
  <2>1. PICK n \in Nat : n = Len(created)
    BY <1>3
  <2>2. r.created = [c \in 1..n |-> r.created[c]]
    BY <1>3, <1>5, <2>1 DEF Lands
  <2>3. \A c \in 1..n : r.created[c] \in Created
    BY <1>3, <1>7, <2>1
  <2>4. r.created \in [1..n -> Created]
    BY <2>2, <2>3
  <2> QED
    BY <2>4
<1>9. r \in AnyRepair
  BY <1>1, <1>3, <1>4, <1>5, <1>8 DEF AnyRepair
<1>10. ASSUME NEW i \in 1..Len(a), new[i] # a[i]
       PROVE  /\ Moved(a, r, i) /\ new[i].at \in Path /\ new[i].text = a[i].text /\ Unheld(new[i].at, a[i].text)
              /\ \E c \in DOMAIN r.created : r.created[c].path = new[i].at
  <2>1. /\ a[i].at = None /\ new[i].at # None /\ new[i].text = a[i].text /\ Unheld(new[i].at, a[i].text)
        /\ \E c \in DOMAIN created : created[c] = [path |-> new[i].at, text |-> a[i].text]
    BY <1>1, <1>2, <1>10 DEF Turns
  <2>2. new[i] \in AnySlot
    BY <1>3
  <2>3. new[i].at \in Path
    BY <2>1, <2>2 DEF AnySlot
  <2> QED
    BY <1>5, <1>6, <1>7, <2>1, <2>3 DEF Moved
<1>11. ASSUME NEW c \in DOMAIN r.created
       PROVE  \E i \in 1..Len(a) : /\ Moved(a, r, i) /\ r.created[c].path = new[i].at
                                   /\ Settle[r.created[c].text] = Settle[a[i].text]
  <2>1. PICK i \in 1..Len(a) : Moved(a, [slots |-> new], i) /\ created[c] = [path |-> new[i].at, text |-> a[i].text]
    BY <1>1, <1>2, <1>6 DEF Turns
  <2> QED
    BY <1>5, <1>6, <1>7, <2>1 DEF Moved
<1>12. Turned(a, r)
  BY <1>3, <1>5, <1>10, <1>11 DEF Turned
<1>13. \A i \in 1..Len(a) : Moved(a, r, i) => Unheld(r.slots[i].at, a[i].text)
  BY <1>5, <1>10 DEF Moved
<1> QED
  BY <1>2, <1>4, <1>9, <1>12, <1>13

\* The disk and the processes are those of a scenario.
Scene(s) == content = s.content /\ held = s.held /\ procs = s.procs /\ adds = s.adds

\* A merge is at a file of the walk, and writes the repair of that file.
LEMMA CurrentIs ==
    ASSUME Typed, NEW p \in Proc, Merging(p)
    PROVE  /\ next[p] \in 1..Len(Order) /\ Order[next[p]] \in File /\ Walked(Order[next[p]]) = next[p]
           /\ Current(p) \in AnyRepair /\ Current(p) = repairs[p][Order[next[p]]]
<1>1. PICK n \in Nat : n = Len(Order) /\ \A k \in 1..n : Order[k] \in File
  <2>1. Order \in Seq(File)
    BY NameAssumption
  <2> QED
    BY <2>1
<1>2. next[p] \in 1..n
  BY <1>1 DEF Merging, Typed
<1>3. Order[next[p]] \in File
  BY <1>1, <1>2
<1>4. Walked(Order[next[p]]) = next[p]
  BY <1>1, <1>2, <1>3, WalkedIs
<1> QED
  BY <1>1, <1>2, <1>3, <1>4 DEF Current, Typed

\* The types hold at the start, whichever scenario it is.
LEMMA TypedInit == Init => Typed
<1> SUFFICES ASSUME Init PROVE Typed
  OBVIOUS
<1>1. PICK s \in Scenarios : Scene(s)
  BY DEF Init, Scene
<1>2. /\ s.content \in [File -> Seq(Slot)] /\ s.held \in [Path -> Text \cup {None}]
      /\ s.procs \subseteq Proc /\ s.adds \in [File -> SUBSET Slot]
      /\ \A f \in File : \A t \in s.adds[f] : t.at = None
  BY ScenarioAssumption
<1>3. Shaped
  BY <1>1, <1>2, SlotIsAny DEF Shaped, Scene
<1>4. Unchanged \in AnyRepair
  BY DEF Unchanged, AnyRepair
<1>5. /\ st = [p \in Proc |-> "idle"] /\ judged = [p \in Proc |-> {}]
      /\ repairs = [p \in Proc |-> [f \in File |-> Unchanged]]
      /\ next = [p \in Proc |-> 1] /\ written = [p \in Proc |-> 0]
      /\ faulted = [p \in Proc |-> FALSE] /\ whole = [p \in Proc |-> FALSE]
      /\ faults = 0
  BY DEF Init
<1>6. repairs \in [Proc -> [File -> AnyRepair]]
  BY <1>4, <1>5
<1> QED
  BY <1>1, <1>2, <1>3, <1>5, <1>6 DEF Typed, Scene

\* Every step keeps them, a failed write and a kill too.
LEMMA TypedStep == ASSUME Typed, [Next]_vars PROVE Typed'
<1>1. ASSUME NEW p \in Proc, Start(p) PROVE Typed'
  <2>1. Unchanged \in AnyRepair
    BY DEF Unchanged, AnyRepair
  <2>2. /\ UNCHANGED << content, held, procs, adds, faults >>
        /\ st' \in [Proc -> {"idle", "judging", "merging", "done"}]
        /\ next' \in [Proc -> Nat \ {0}] /\ written' \in [Proc -> Nat]
        /\ faulted' \in [Proc -> BOOLEAN]
    BY <1>1 DEF Start, Typed, disk, scenario
  <2>3. repairs' \in [Proc -> [File -> AnyRepair]]
    BY <1>1, <2>1 DEF Start, Typed
  <2>4. judged' \in [Proc -> SUBSET File] /\ whole' \in [Proc -> BOOLEAN]
    <3>1. PICK some : /\ judged' = [judged EXCEPT ![p] = File \ some]
                      /\ whole' = [whole EXCEPT ![p] = (some = File)]
      BY <1>1 DEF Start
    <3> QED
      BY <3>1 DEF Typed
  <2> QED
    BY <2>2, <2>3, <2>4 DEF Typed, Shaped
<1>2. ASSUME NEW p \in Proc, NEW f \in File, Judge(p, f) PROVE Typed'
  <2>1. PICK r : /\ r \in {Unchanged, Fixed(f)}
                 /\ repairs' = [repairs EXCEPT ![p][f] = r]
    BY <1>2 DEF Judge
  <2>2. r \in AnyRepair
    <3>1. Fixed(f) \in AnyRepair
      BY FixedTurned DEF Typed
    <3>2. Unchanged \in AnyRepair
      BY DEF Unchanged, AnyRepair
    <3> QED
      BY <2>1, <3>1, <3>2
  <2>3. repairs' \in [Proc -> [File -> AnyRepair]]
    BY <2>1, <2>2 DEF Typed
  <2> QED
    BY <1>2, <2>3 DEF Judge, Typed, Shaped, disk, scenario
<1>3. ASSUME NEW p \in Proc, Merge(p) \/ Finish(p) \/ Crash(p) PROVE Typed'
  <2>1. /\ UNCHANGED << content, held, procs, adds, judged, repairs, next, written, faulted, whole >>
        /\ \E x \in {"idle", "merging", "done"} : st' = [st EXCEPT ![p] = x]
        /\ faults' \in {faults, faults + 1}
    BY <1>3 DEF Merge, Finish, Crash, disk, scenario
  <2>2. st' \in [Proc -> {"idle", "judging", "merging", "done"}] /\ faults' \in Nat
    BY <2>1 DEF Typed
  <2> QED
    BY <2>1, <2>2 DEF Typed, Shaped
<1>4. ASSUME NEW p \in Proc, Skip(p) \/ WriteFails(p) PROVE Typed'
  <2>1. /\ UNCHANGED << content, held, procs, adds, st, judged, repairs, whole >>
        /\ next' = [next EXCEPT ![p] = @ + 1] /\ written' = [written EXCEPT ![p] = 0]
        /\ \E x \in BOOLEAN : faulted' = [faulted EXCEPT ![p] = x] \/ faulted' = faulted
        /\ faults' \in {faults, faults + 1}
    BY <1>4 DEF Skip, WriteFails, NextFile, disk, scenario
  <2>2. /\ next' \in [Proc -> Nat \ {0}] /\ written' \in [Proc -> Nat]
        /\ faulted' \in [Proc -> BOOLEAN] /\ faults' \in Nat
    BY <2>1 DEF Typed
  <2> QED
    BY <2>1, <2>2 DEF Typed, Shaped
<1>5. ASSUME NEW p \in Proc, WriteCreated(p) PROVE Typed'
  <2>1. PICK c : /\ c = Current(p).created[written[p] + 1] /\ held' = [held EXCEPT ![c.path] = c.text]
                 /\ written' = [written EXCEPT ![p] = @ + 1]
    BY <1>5 DEF WriteCreated
  <2>2. c \in Created
    <3>1. Current(p).created \in Seq(Created) /\ written[p] \in Nat /\ written[p] < Len(Current(p).created)
      BY <1>5, CurrentIs DEF WriteCreated, Pending, Typed, AnyRepair
    <3>2. written[p] + 1 \in 1..Len(Current(p).created)
      BY <3>1
    <3> QED
      BY <2>1, <3>1, <3>2
  <2>3. c.path \in Path /\ c.text \in Text
    BY <2>2 DEF Created
  <2>4. held' \in [Path -> Text \cup {None}]
    BY <2>1, <2>3 DEF Typed
  <2> QED
    BY <1>5, <2>1, <2>4 DEF WriteCreated, Typed, Shaped, disk, scenario
<1>6. ASSUME NEW p \in Proc, WriteFile(p) PROVE Typed'
  <2>1. Merging(p) /\ content' = [content EXCEPT ![Order[next[p]]] = Current(p).slots]
    BY <1>6 DEF WriteFile
  <2>2. Order[next[p]] \in File /\ Current(p).slots \in Seq(AnySlot)
    BY <2>1, CurrentIs DEF AnyRepair
  <2>3. Shaped'
    BY <2>1, <2>2 DEF Shaped, Typed
  <2> QED
    BY <1>6, <2>3 DEF WriteFile, NextFile, Typed, scenario
<1>7. ASSUME NEW f \in File, Author(f) PROVE Typed'
  <2>1. PICK s \in adds[f] : content' = [content EXCEPT ![f] = Append(@, s)]
    BY <1>7 DEF Author
  <2>2. s \in AnySlot
    BY SlotIsAny DEF Typed
  <2>3. content[f] \in Seq(AnySlot)
    BY DEF Typed, Shaped
  <2>4. Append(content[f], s) \in Seq(AnySlot)
    BY <2>2, <2>3
  <2>5. Shaped'
    BY <2>1, <2>4 DEF Typed, Shaped
  <2> QED
    BY <1>7, <2>5 DEF Author, Typed, scenario
<1>8. CASE UNCHANGED vars
  BY <1>8 DEF vars, disk, scenario, run, Typed, Shaped
<1> QED
  BY <1>1, <1>2, <1>3, <1>4, <1>5, <1>6, <1>7, <1>8 DEF Next

\* Every variable keeps its type; the names of the moved variables are those of the
\* model as long as the suffixes suffice (goembed/repair.go, whose suffixes have no
\* end).
THEOREM TypesHold == Spec => []Typed
<1>1. Init => Typed
  BY TypedInit
<1>2. Typed /\ [Next]_vars => Typed'
  BY TypedStep
<1> QED
  BY <1>1, <1>2, PTL DEF Spec

-----------------------------------------------------------------------------
(* One process at a time.                                                   *)

\* No two runs at a time.  While a run judges, each package has room and each
\* workflow its own names.
OneAtATime == \A p, q \in Proc : ~Resting(p) /\ ~Resting(q) => p = q
Judging == \E p \in Proc : st[p] = "judging"
Roomy == Judging => Room
Apart == Judging => Separate

\* The repairs a merge has still to write, and the strings they move.
Due(p, f) == Walked(f) >= next[p] /\ repairs[p][f] # Unchanged
Goes(p, f, i) == Due(p, f) /\ Moved(content[f], repairs[p][f], i)
To(p, f, i) == repairs[p][f].slots[i].at

\* A repair still answers to its file; where its strings go there is nothing or
\* their text; no two of them go to one path; and what is written of the current
\* repair is there.
Turning(p) == \A f \in File : Due(p, f) => Turned(content[f], repairs[p][f])
Fitting(p) == \A f \in File : \A i \in 1..Len(content[f]) : Goes(p, f, i) =>
    held[To(p, f, i)] = None \/ Settle[held[To(p, f, i)]] = Settle[content[f][i].text]
Spreading(p) == \A f, g \in File : \A i \in 1..Len(content[f]), j \in 1..Len(content[g]) :
    Goes(p, f, i) /\ Goes(p, g, j) /\ (f # g \/ i # j) => To(p, f, i) # To(p, g, j)
Standing(p) == \A f \in File : Due(p, f) /\ Walked(f) = next[p] =>
    \A k \in DOMAIN repairs[p][f].created : k <= written[p] =>
       /\ held[repairs[p][f].created[k].path] # None
       /\ Settle[held[repairs[p][f].created[k].path]] = Settle[repairs[p][f].created[k].text]
MergeInv(p) == Turning(p) /\ Fitting(p) /\ Spreading(p) /\ Standing(p)
JudgeInv(p) == next[p] = 1 /\ written[p] = 0 /\ \A f \in File : repairs[p][f] \in {Unchanged, Fixed(f)}
RunInv(p) == (st[p] = "judging" => JudgeInv(p)) /\ (st[p] = "merging" => MergeInv(p))
SafeInv == Typed /\ NamesItsOwnText /\ \A p \in Proc : RunInv(p)

\* What a process has judged can be merged.
LEMMA JudgedMerges ==
    ASSUME Typed, Room, Separate, NEW p \in Proc, JudgeInv(p) PROVE MergeInv(p)
<1>1. \A f \in File : Due(p, f) => repairs[p][f] = Fixed(f)
  BY DEF JudgeInv, Due
<1>2. Shaped
  BY DEF Typed
<1>3. Turning(p)
  BY <1>1, <1>2, FixedTurned DEF Turning
<1>4. Fitting(p)
  <2> SUFFICES ASSUME NEW f \in File, NEW i \in 1..Len(content[f]), Goes(p, f, i)
               PROVE  held[To(p, f, i)] = None \/ Settle[held[To(p, f, i)]] = Settle[content[f][i].text]
    BY DEF Fitting
  <2>1. repairs[p][f] = Fixed(f)
    BY <1>1 DEF Goes
  <2>2. Unheld(Fixed(f).slots[i].at, content[f][i].text)
    BY <1>2, <2>1, FixedTurned DEF Goes
  <2> QED
    BY <2>1, <2>2 DEF Unheld, To
<1>5. Spreading(p)
  <2> SUFFICES ASSUME NEW f \in File, NEW g \in File, NEW i \in 1..Len(content[f]), NEW j \in 1..Len(content[g]),
                      Goes(p, f, i), Goes(p, g, j), f # g \/ i # j
               PROVE  To(p, f, i) # To(p, g, j)
    BY DEF Spreading
  <2>1. repairs[p][f] = Fixed(f) /\ repairs[p][g] = Fixed(g)
    BY <1>1 DEF Goes
  <2>2. Moved(content[f], Fixed(f), i) /\ Moved(content[g], Fixed(g), j)
    BY <2>1 DEF Goes
  <2>3. Fixed(f).slots[i].at # Fixed(g).slots[j].at
    BY <1>2, <2>2, Spread
  <2> QED
    BY <2>1, <2>3 DEF To
<1>6. Standing(p)
  <2>1. ASSUME NEW f \in File, NEW k \in DOMAIN repairs[p][f].created PROVE ~(k <= written[p])
    <3>1. repairs[p][f].created \in Seq(Created) /\ written[p] = 0
      BY DEF Typed, JudgeInv, AnyRepair
    <3> QED
      BY <3>1
  <2> QED
    BY <2>1 DEF Standing
<1> QED
  BY <1>3, <1>4, <1>5, <1>6 DEF MergeInv

\* The string for which a merge writes its next file.
LEMMA WrittenFor ==
    ASSUME Typed, NEW p \in Proc, MergeInv(p), WriteCreated(p)
    PROVE  \E f \in File, i \in Nat, c \in Created, k \in Nat :
              /\ i \in 1..Len(content[f]) /\ f = Order[next[p]] /\ Walked(f) = next[p] /\ Due(p, f) /\ k = written[p] + 1
              /\ k \in DOMAIN repairs[p][f].created /\ c = repairs[p][f].created[k]
              /\ held' = [held EXCEPT ![c.path] = c.text]
              /\ Goes(p, f, i) /\ c.path = To(p, f, i) /\ Settle[c.text] = Settle[content[f][i].text]
<1>1. PICK f \in File : f = Order[next[p]] /\ Walked(f) = next[p] /\ Current(p) = repairs[p][f] /\ Current(p) \in AnyRepair
  BY CurrentIs DEF WriteCreated
<1>2. next[p] \in Nat /\ written[p] \in Nat
  BY DEF Typed
<1>3. Due(p, f)
  BY <1>1, <1>2 DEF Due, WriteCreated, Changed
<1>4. repairs[p][f].created \in Seq(Created) /\ written[p] + 1 \in DOMAIN repairs[p][f].created
  <2>1. repairs[p][f].created \in Seq(Created) /\ written[p] < Len(repairs[p][f].created)
    BY <1>1 DEF WriteCreated, Pending, AnyRepair
  <2> QED
    BY <1>2, <2>1
<1>5. PICK k \in Nat, c \in Created : k = written[p] + 1 /\ c = repairs[p][f].created[k]
  BY <1>2, <1>4
<1>6. held' = [held EXCEPT ![c.path] = c.text]
  BY <1>1, <1>5 DEF WriteCreated
<1>7. PICK i \in 1..Len(content[f]) :
          /\ Moved(content[f], repairs[p][f], i) /\ c.path = repairs[p][f].slots[i].at
          /\ Settle[c.text] = Settle[content[f][i].text]
  BY <1>3, <1>4, <1>5 DEF MergeInv, Turning, Turned
<1>8. i \in Nat /\ Goes(p, f, i) /\ c.path = To(p, f, i)
  BY <1>3, <1>7 DEF Goes, To
<1> QED
  BY <1>1, <1>3, <1>4, <1>5, <1>6, <1>7, <1>8

\* A new file is written where there is nothing, or the same text.
LEMMA WriteCreatedSafe ==
    ASSUME Typed, NamesItsOwnText, NEW p \in Proc, MergeInv(p), WriteCreated(p)
    PROVE  /\ MergeInv(p)' /\ NamesItsOwnText'
           /\ \A x \in Path : held[x] # None => held'[x] # None /\ Settle[held'[x]] = Settle[held[x]]
<1>1. PICK f \in File, i \in Nat, c \in Created, k \in Nat :
              /\ i \in 1..Len(content[f]) /\ f = Order[next[p]] /\ Walked(f) = next[p] /\ Due(p, f) /\ k = written[p] + 1
              /\ k \in DOMAIN repairs[p][f].created /\ c = repairs[p][f].created[k]
              /\ held' = [held EXCEPT ![c.path] = c.text]
              /\ Goes(p, f, i) /\ c.path = To(p, f, i) /\ Settle[c.text] = Settle[content[f][i].text]
  BY WrittenFor
<1>2. /\ content' = content /\ repairs' = repairs /\ next' = next
      /\ written' = [written EXCEPT ![p] = @ + 1]
  BY DEF WriteCreated
<1>3. c.path \in Path /\ c.text \in Text /\ c.text # None
  BY NameAssumption DEF Created
<1>4. held \in [Path -> Text \cup {None}]
  BY DEF Typed
<1>5. held'[c.path] = c.text /\ \A x \in Path : x # c.path => held'[x] = held[x]
  BY <1>1, <1>3, <1>4
<1>6. held[c.path] = None \/ Settle[held[c.path]] = Settle[c.text]
  <2>1. held[To(p, f, i)] = None \/ Settle[held[To(p, f, i)]] = Settle[content[f][i].text]
    BY <1>1 DEF MergeInv, Fitting
  <2> QED
    BY <1>1, <2>1
<1>7. \A x \in Path : held[x] # None => held'[x] # None /\ Settle[held'[x]] = Settle[held[x]]
  BY <1>3, <1>5, <1>6
<1>8. \A g \in File : Due(p, g)' <=> Due(p, g)
  BY <1>2 DEF Due
<1>9. \A g \in File : \A j : (Goes(p, g, j)' <=> Goes(p, g, j)) /\ To(p, g, j)' = To(p, g, j)
  BY <1>2, <1>8 DEF Goes, To, Moved
<1>10. \A g \in File : \A j \in 1..Len(content[g]) : Goes(p, g, j) => To(p, g, j) \in Path
  BY DEF MergeInv, Turning, Turned, Goes, To, Moved
<1>11. NamesItsOwnText'
  <2> SUFFICES ASSUME NEW g \in File, NEW s \in Range(content[g]), s.at # None
               PROVE  held'[s.at] # None /\ Settle[held'[s.at]] = Settle[s.text]
    BY <1>2 DEF NamesItsOwnText
  <2>1. held[s.at] # None /\ Settle[held[s.at]] = Settle[s.text]
    BY DEF NamesItsOwnText
  <2>2. s.at \in Path
    <3>1. s \in AnySlot
      BY DEF Typed, Shaped, Range
    <3> QED
      BY <3>1 DEF AnySlot
  <2> QED
    BY <1>7, <2>1, <2>2
<1>12. Turning(p)'
  BY <1>2, <1>8 DEF MergeInv, Turning, Turned, Moved
<1>13. Fitting(p)'
  <2> SUFFICES ASSUME NEW g \in File, NEW j \in 1..Len(content[g]), Goes(p, g, j)
               PROVE  held'[To(p, g, j)] = None \/ Settle[held'[To(p, g, j)]] = Settle[content[g][j].text]
    BY <1>2, <1>9 DEF Fitting
  <2>1. held[To(p, g, j)] = None \/ Settle[held[To(p, g, j)]] = Settle[content[g][j].text]
    BY DEF MergeInv, Fitting
  <2>2. To(p, g, j) \in Path
    BY <1>10
  <2>3. CASE To(p, g, j) # c.path
    BY <1>5, <2>1, <2>2, <2>3
  <2>4. CASE To(p, g, j) = c.path
    <3>1. f = g /\ i = j
      BY <1>1, <2>4 DEF MergeInv, Spreading
    <3> QED
      BY <1>1, <1>5, <2>4, <3>1
  <2> QED
    BY <2>3, <2>4
<1>14. Spreading(p)'
  BY <1>2, <1>9 DEF MergeInv, Spreading
<1>15. Standing(p)'
  <2> SUFFICES ASSUME NEW g \in File, Due(p, g), Walked(g) = next[p],
                      NEW l \in DOMAIN repairs[p][g].created, l <= written[p] + 1
               PROVE  /\ held'[repairs[p][g].created[l].path] # None
                      /\ Settle[held'[repairs[p][g].created[l].path]] = Settle[repairs[p][g].created[l].text]
    BY <1>2, <1>8 DEF Standing, Typed
  <2>1. g = f
    BY <1>1, WalkedIs
  <2>2. repairs[p][f].created \in Seq(Created) /\ written[p] \in Nat
    BY DEF Typed, AnyRepair
  <2>3. PICK d \in Created : d = repairs[p][g].created[l]
    BY <2>1, <2>2
  <2>4. CASE l = k
    BY <1>1, <1>5, <1>3, <2>1, <2>4
  <2>5. CASE l # k
    <3>1. l <= written[p]
      <4>1. l \in Nat
        BY <2>1, <2>2
      <4> QED
        BY <1>1, <2>2, <2>5, <4>1
    <3>2. held[d.path] # None /\ Settle[held[d.path]] = Settle[d.text]
      BY <2>3, <3>1 DEF MergeInv, Standing
    <3>3. d.path \in Path
      BY DEF Created
    <3> QED
      BY <1>7, <2>3, <3>2, <3>3
  <2> QED
    BY <2>4, <2>5
<1> QED
  BY <1>7, <1>11, <1>12, <1>13, <1>14, <1>15 DEF MergeInv

\* What is still to write when a merge goes on to the next file was so before, and
\* is of other files.
LEMMA NextDue ==
    ASSUME Typed, NEW p \in Proc, Merging(p), NextFile(p), NEW f \in File, Due(p, f)'
    PROVE  /\ Due(p, f) /\ f # Order[next[p]] /\ repairs'[p][f] = repairs[p][f]
           /\ next'[p] = next[p] + 1 /\ written'[p] = 0
<1>1. repairs' = repairs /\ next' = [next EXCEPT ![p] = @ + 1] /\ written' = [written EXCEPT ![p] = 0]
  BY DEF NextFile
<1>2. next'[p] = next[p] + 1 /\ next[p] \in Nat /\ written'[p] = 0
  BY <1>1 DEF Typed
<1>3. Walked(f) >= next[p] + 1 /\ repairs[p][f] # Unchanged
  BY <1>1, <1>2 DEF Due
<1>4. Walked(f) \in Nat /\ Walked(Order[next[p]]) = next[p]
  BY WalkedIs, CurrentIs
<1>5. Walked(f) >= next[p] /\ Walked(f) # next[p]
  BY <1>2, <1>3, <1>4
<1> QED
  BY <1>1, <1>2, <1>3, <1>4, <1>5 DEF Due

\* The repairs after the current one do not mind what becomes of it, as long as no
\* file that is moved to changes.
LEMMA NextMerge ==
    ASSUME Typed, NEW p \in Proc, Merging(p), NextFile(p), MergeInv(p), held' = held,
           \A f \in File : f # Order[next[p]] => content'[f] = content[f]
    PROVE  MergeInv(p)'
<1>1. \A f \in File : Due(p, f)' =>
         /\ Due(p, f) /\ content'[f] = content[f] /\ repairs'[p][f] = repairs[p][f] /\ written'[p] = 0
  BY NextDue
<1>2. \A f \in File : \A i : Goes(p, f, i)' =>
         Goes(p, f, i) /\ To(p, f, i)' = To(p, f, i) /\ content'[f] = content[f]
  <2> SUFFICES ASSUME NEW f \in File, NEW i, Goes(p, f, i)'
               PROVE  Goes(p, f, i) /\ To(p, f, i)' = To(p, f, i) /\ content'[f] = content[f]
    OBVIOUS
  <2>1. Due(p, f)'
    BY DEF Goes
  <2> QED
    BY <1>1, <2>1 DEF Goes, To, Moved
<1>3. Turning(p)'
  <2> SUFFICES ASSUME NEW f \in File, Due(p, f)' PROVE Turned(content[f], repairs[p][f])'
    BY DEF Turning
  <2>1. Turned(content[f], repairs[p][f]) /\ content'[f] = content[f] /\ repairs'[p][f] = repairs[p][f]
    BY <1>1 DEF MergeInv, Turning
  <2> QED
    BY <2>1 DEF Turned, Moved
<1>4. Fitting(p)'
  BY <1>2 DEF MergeInv, Fitting
<1>5. Spreading(p)'
  BY <1>2 DEF MergeInv, Spreading
<1>6. Standing(p)'
  <2> SUFFICES ASSUME NEW f \in File, Due(p, f)', NEW k \in DOMAIN repairs'[p][f].created PROVE ~(k <= written'[p])
    BY DEF Standing
  <2>1. written'[p] = 0 /\ repairs'[p][f] = repairs[p][f]
    BY <1>1
  <2>2. repairs[p][f].created \in Seq(Created)
    BY DEF Typed, AnyRepair
  <2>3. k \in Nat \ {0}
    BY <2>1, <2>2
  <2> QED
    BY <2>1, <2>3
<1> QED
  BY <1>3, <1>4, <1>5, <1>6 DEF MergeInv

\* A file is written when everything it comes to name is there.
LEMMA WriteFileSafe ==
    ASSUME Typed, NamesItsOwnText, NEW p \in Proc, MergeInv(p), WriteFile(p)
    PROVE  MergeInv(p)' /\ NamesItsOwnText'
<1>1. PICK f \in File : /\ f = Order[next[p]] /\ Walked(f) = next[p] /\ Current(p) = repairs[p][f]
                        /\ Current(p) \in AnyRepair
  BY CurrentIs DEF WriteFile
<1>2. /\ Merging(p) /\ NextFile(p) /\ held' = held
      /\ content' = [content EXCEPT ![f] = repairs[p][f].slots]
  BY <1>1 DEF WriteFile
<1>3. content \in [File -> Seq(AnySlot)]
  BY DEF Typed, Shaped
<1>4. content'[f] = repairs[p][f].slots /\ \A g \in File : g # f => content'[g] = content[g]
  BY <1>2, <1>3
<1>5. MergeInv(p)'
  BY <1>1, <1>2, <1>4, NextMerge
<1>6. Due(p, f)
  <2>1. next[p] \in Nat
    BY DEF Typed
  <2> QED
    BY <1>1, <2>1 DEF Due, WriteFile, Changed
<1>7. Turned(content[f], repairs[p][f])
  BY <1>6 DEF MergeInv, Turning
<1>8. PICK r \in AnyRepair : r = repairs[p][f]
  BY <1>1
<1>9. \A k \in DOMAIN r.created : k <= written[p]
  <2>1. written[p] \in Nat /\ ~(written[p] < Len(r.created))
    BY <1>1, <1>8 DEF WriteFile, Ready, Pending, Typed
  <2>2. r.created \in Seq(Created)
    BY DEF AnyRepair
  <2> QED
    BY <2>1, <2>2
<1>10. ASSUME NEW i \in 1..Len(content[f]), r.slots[i].at # None
       PROVE  held[r.slots[i].at] # None /\ Settle[held[r.slots[i].at]] = Settle[r.slots[i].text]
  <2>1. CASE r.slots[i] = content[f][i]
    <3>1. r.slots[i] \in Range(content[f])
      BY <1>3, <2>1 DEF Range
    <3> QED
      BY <1>10, <3>1 DEF NamesItsOwnText
  <2>2. CASE r.slots[i] # content[f][i]
    <3>1. /\ Moved(content[f], r, i) /\ r.slots[i].text = content[f][i].text
          /\ \E c \in DOMAIN r.created : r.created[c].path = r.slots[i].at
      BY <1>7, <1>8, <2>2 DEF Turned
    <3>2. PICK c \in DOMAIN r.created : r.created[c].path = r.slots[i].at
      BY <3>1
    <3>3. held[r.slots[i].at] # None /\ Settle[held[r.slots[i].at]] = Settle[r.created[c].text]
      BY <1>1, <1>6, <1>8, <1>9, <3>2 DEF MergeInv, Standing
    <3>4. PICK j \in 1..Len(content[f]) : /\ Moved(content[f], r, j) /\ r.created[c].path = r.slots[j].at
                                          /\ Settle[r.created[c].text] = Settle[content[f][j].text]
      BY <1>7, <1>8 DEF Turned
    <3>5. Goes(p, f, i) /\ Goes(p, f, j) /\ To(p, f, i) = To(p, f, j)
      BY <1>6, <1>8, <3>1, <3>2, <3>4 DEF Goes, To
    <3>6. i = j
      BY <3>5 DEF MergeInv, Spreading
    <3> QED
      BY <3>1, <3>3, <3>4, <3>6
  <2> QED
    BY <2>1, <2>2
<1>11. r.slots \in Seq(AnySlot) /\ Len(r.slots) = Len(content[f])
  BY <1>7, <1>8 DEF Turned, AnyRepair
<1>12. NamesItsOwnText'
  <2> SUFFICES ASSUME NEW g \in File, NEW s \in Range(content'[g]), s.at # None
               PROVE  held[s.at] # None /\ Settle[held[s.at]] = Settle[s.text]
    BY <1>2 DEF NamesItsOwnText
  <2>1. CASE g = f
    <3>1. PICK i \in 1..Len(content[f]) : s = r.slots[i]
      BY <1>4, <1>8, <1>11, <2>1 DEF Range
    <3> QED
      BY <1>10, <3>1
  <2>2. CASE g # f
    <3>1. s \in Range(content[g])
      BY <1>4, <2>2
    <3> QED
      BY <3>1 DEF NamesItsOwnText
  <2> QED
    BY <2>1, <2>2
<1> QED
  BY <1>5, <1>12

\* A string an author adds is not moved.
LEMMA AuthorSafe ==
    ASSUME Typed, NamesItsOwnText, NEW f \in File, Author(f)
    PROVE  NamesItsOwnText' /\ \A p \in Proc : st'[p] = "idle"
<1>1. PICK t \in adds[f] : content' = [content EXCEPT ![f] = Append(@, t)]
  BY DEF Author
<1>2. held' = held /\ st' = [p \in Proc |-> "idle"] /\ t.at = None
  BY DEF Author, Typed
<1>3. content \in [File -> Seq(AnySlot)] /\ t \in AnySlot
  BY SlotIsAny DEF Typed, Shaped
<1>4. PICK a \in Seq(AnySlot) : a = content[f]
  BY <1>3
<1>5. content'[f] = Append(a, t) /\ \A g \in File : g # f => content'[g] = content[g]
  BY <1>1, <1>3, <1>4
<1>6. \A s \in Range(Append(a, t)) : s \in Range(a) \/ s = t
  <2>1. \A i \in DOMAIN Append(a, t) : (i \in DOMAIN a /\ Append(a, t)[i] = a[i]) \/ Append(a, t)[i] = t
    BY <1>3, <1>4
  <2> QED
    BY <2>1 DEF Range
<1>7. NamesItsOwnText'
  <2> SUFFICES ASSUME NEW g \in File, NEW s \in Range(content'[g]), s.at # None
               PROVE  held[s.at] # None /\ Settle[held[s.at]] = Settle[s.text]
    BY <1>2 DEF NamesItsOwnText
  <2>1. s \in Range(content[g])
    BY <1>2, <1>4, <1>5, <1>6
  <2> QED
    BY <2>1 DEF NamesItsOwnText
<1> QED
  BY <1>2, <1>7

\* A scenario starts safe: what is moved has its file.
LEMMA SafeInit == Init => SafeInv
<1> SUFFICES ASSUME Init PROVE SafeInv
  OBVIOUS
<1>1. PICK s \in Scenarios : Scene(s)
  BY DEF Init, Scene
<1>2. NamesItsOwnText
  BY <1>1, ScenarioAssumption DEF NamesItsOwnText, Scene
<1>3. \A p \in Proc : st[p] = "idle"
  BY DEF Init
<1> QED
  BY <1>2, <1>3, TypedInit DEF SafeInv, RunInv

\* A step that writes nothing and judges nothing leaves a merge safe.
LEMMA MergeSame ==
    ASSUME NEW p \in Proc, MergeInv(p), content' = content, held' = held, repairs' = repairs,
           next' = next, written' = written
    PROVE  MergeInv(p)'
<1>1. \A f : Due(p, f)' <=> Due(p, f)
  BY DEF Due
<1>2. \A f, i : (Goes(p, f, i)' <=> Goes(p, f, i)) /\ To(p, f, i)' = To(p, f, i)
  BY <1>1 DEF Goes, To, Moved
<1>3. \A f : Turned(content[f], repairs[p][f])' <=> Turned(content[f], repairs[p][f])
  BY DEF Turned, Moved
<1>4. Turning(p)' /\ Standing(p)'
  BY <1>1, <1>3 DEF MergeInv, Turning, Standing
<1>5. Fitting(p)' /\ Spreading(p)'
  BY <1>2 DEF MergeInv, Fitting, Spreading
<1> QED
  BY <1>4, <1>5 DEF MergeInv

\* No step changes what a file names, or what is held, except by writing a
\* repair in its order.
HeldKept == \A x \in Path : held[x] # None => held'[x] # None /\ Settle[held'[x]] = Settle[held[x]]

\* Every step keeps the invariant and what is held: no process judges while another
\* writes, and what is judged is judged with room and apart.
LEMMA SafeStep ==
    ASSUME SafeInv, OneAtATime, OneAtATime', Roomy, Apart, [Next]_vars
    PROVE  SafeInv' /\ HeldKept
<1> DEFINE Good == NamesItsOwnText' /\ HeldKept /\ \A q \in Proc : RunInv(q)'
<1>0. Typed /\ NamesItsOwnText /\ (\A q \in Proc : RunInv(q)) /\ Typed'
  BY TypedStep DEF SafeInv
<1>1. ASSUME content' = content, held' = held PROVE NamesItsOwnText' /\ HeldKept
  BY <1>0, <1>1 DEF NamesItsOwnText, HeldKept
<1>2. ASSUME NEW p \in Proc, NEW q \in Proc, ~Resting(p), q # p, st'[q] = st[q] PROVE RunInv(q)'
  <2>1. st[q] \in {"idle", "done"}
    BY <1>2 DEF OneAtATime, Resting
  <2> QED
    BY <1>2, <2>1 DEF RunInv
<1>3. ASSUME NEW p \in Proc, Start(p) PROVE Good
  <2>1. /\ content' = content /\ held' = held
        /\ st' = [st EXCEPT ![p] = "judging"] /\ next' = [next EXCEPT ![p] = 1] /\ written' = [written EXCEPT ![p] = 0]
        /\ repairs' = [repairs EXCEPT ![p] = [f \in File |-> Unchanged]]
    BY <1>3 DEF Start, disk
  <2>2. JudgeInv(p)'
    BY <1>0, <2>1 DEF Typed, JudgeInv
  <2>3. st'[p] = "judging" /\ \A q \in Proc : q # p => st'[q] = st[q]
    BY <1>0, <2>1 DEF Typed
  <2>4. ASSUME NEW q \in Proc, q # p PROVE RunInv(q)'
    <3>1. st'[q] \in {"idle", "done"}
      BY <2>3, <2>4 DEF OneAtATime, Resting
    <3> QED
      BY <3>1 DEF RunInv
  <2>5. RunInv(p)'
    BY <2>2, <2>3 DEF RunInv
  <2> QED
    BY <1>1, <2>1, <2>4, <2>5
<1>4. ASSUME NEW p \in Proc, NEW f \in File, Judge(p, f) PROVE Good
  <2>1. /\ content' = content /\ held' = held /\ st' = st /\ next' = next /\ written' = written
        /\ st[p] = "judging"
    BY <1>4 DEF Judge, disk
  <2>2. PICK r : r \in {Unchanged, Fixed(f)} /\ repairs' = [repairs EXCEPT ![p][f] = r]
    BY <1>4 DEF Judge
  <2>3. \A g : Fixed(g)' = Fixed(g)
    BY <2>1, FixedSame
  <2>4. JudgeInv(p)
    BY <1>0, <2>1 DEF RunInv
  <2>5. JudgeInv(p)'
    <3>1. \A g \in File : repairs'[p][g] = IF g = f THEN r ELSE repairs[p][g]
      BY <1>0, <2>2 DEF Typed
    <3>2. \A g \in File : repairs'[p][g] \in {Unchanged, Fixed(g)'}
      BY <2>2, <2>3, <2>4, <3>1 DEF JudgeInv
    <3> QED
      BY <2>1, <2>4, <3>2 DEF JudgeInv
  <2>6. ~Resting(p)
    BY <2>1 DEF Resting
  <2>7. \A q \in Proc : q # p => RunInv(q)'
    BY <1>2, <2>1, <2>6
  <2>8. RunInv(p)'
    BY <2>1, <2>5 DEF RunInv
  <2> QED
    BY <1>1, <2>1, <2>7, <2>8
<1>5. ASSUME NEW p \in Proc, Merge(p) PROVE Good
  <2>1. /\ content' = content /\ held' = held /\ next' = next /\ written' = written /\ repairs' = repairs
        /\ st[p] = "judging" /\ st' = [st EXCEPT ![p] = "merging"]
    BY <1>5 DEF Merge, disk
  <2>2. JudgeInv(p)
    BY <1>0, <2>1 DEF RunInv
  <2>3. Room /\ Separate
    BY <2>1 DEF Roomy, Apart, Judging
  <2>4. MergeInv(p)
    BY <1>0, <2>2, <2>3, JudgedMerges
  <2>5. MergeInv(p)'
    BY <2>1, <2>4, MergeSame
  <2>6. ~Resting(p) /\ st'[p] = "merging" /\ \A q \in Proc : q # p => st'[q] = st[q]
    BY <1>0, <2>1 DEF Resting, Typed
  <2>7. \A q \in Proc : q # p => RunInv(q)'
    BY <1>2, <2>6
  <2>8. RunInv(p)'
    BY <2>5, <2>6 DEF RunInv
  <2> QED
    BY <1>1, <2>1, <2>7, <2>8
<1>6. ASSUME NEW p \in Proc, Merging(p), NextFile(p), content' = content, held' = held PROVE Good
  <2>1. MergeInv(p) /\ st[p] = "merging" /\ st' = st
    BY <1>0, <1>6 DEF RunInv, Merging, NextFile
  <2>2. MergeInv(p)'
    BY <1>0, <1>6, <2>1, NextMerge
  <2>3. ~Resting(p)
    BY <2>1 DEF Resting
  <2>4. \A q \in Proc : q # p => RunInv(q)'
    BY <1>2, <2>1, <2>3
  <2>5. RunInv(p)'
    BY <2>1, <2>2 DEF RunInv
  <2> QED
    BY <1>1, <1>6, <2>4, <2>5
<1>7. ASSUME NEW p \in Proc, Skip(p) \/ WriteFails(p) PROVE Good
  <2>1. Merging(p) /\ NextFile(p) /\ content' = content /\ held' = held
    BY <1>7 DEF Skip, WriteFails, disk
  <2> QED
    BY <1>6, <2>1
<1>8. ASSUME NEW p \in Proc, WriteCreated(p) PROVE Good
  <2>1. st[p] = "merging" /\ st' = st
    BY <1>8 DEF WriteCreated, Merging
  <2>2. MergeInv(p)
    BY <1>0, <2>1 DEF RunInv
  <2>3. MergeInv(p)' /\ NamesItsOwnText' /\ HeldKept
    BY <1>0, <1>8, <2>2, WriteCreatedSafe DEF HeldKept
  <2>4. ~Resting(p)
    BY <2>1 DEF Resting
  <2>5. \A q \in Proc : q # p => RunInv(q)'
    BY <1>2, <2>1, <2>4
  <2>6. RunInv(p)'
    BY <2>1, <2>3 DEF RunInv
  <2> QED
    BY <2>3, <2>5, <2>6
<1>9. ASSUME NEW p \in Proc, WriteFile(p) PROVE Good
  <2>1. st[p] = "merging" /\ st' = st /\ held' = held
    BY <1>9 DEF WriteFile, Merging, NextFile
  <2>2. MergeInv(p)
    BY <1>0, <2>1 DEF RunInv
  <2>3. MergeInv(p)' /\ NamesItsOwnText'
    BY <1>0, <1>9, <2>2, WriteFileSafe
  <2>4. ~Resting(p)
    BY <2>1 DEF Resting
  <2>5. \A q \in Proc : q # p => RunInv(q)'
    BY <1>2, <2>1, <2>4
  <2>6. RunInv(p)'
    BY <2>1, <2>3 DEF RunInv
  <2>7. HeldKept
    BY <2>1 DEF HeldKept
  <2> QED
    BY <2>3, <2>5, <2>6, <2>7
<1>10. ASSUME NEW p \in Proc, Finish(p) \/ Crash(p) PROVE Good
  <2>1. /\ content' = content /\ held' = held /\ ~Resting(p)
        /\ \E x \in {"idle", "done"} : st' = [st EXCEPT ![p] = x]
    BY <1>10 DEF Finish, Crash, disk, Resting
  <2>2. st'[p] \in {"idle", "done"} /\ \A q \in Proc : q # p => st'[q] = st[q]
    BY <1>0, <2>1 DEF Typed
  <2>3. \A q \in Proc : q # p => RunInv(q)'
    BY <1>2, <2>1, <2>2
  <2>4. RunInv(p)'
    BY <2>2 DEF RunInv
  <2> QED
    BY <1>1, <2>1, <2>3, <2>4
<1>11. ASSUME NEW f \in File, Author(f) PROVE Good
  <2>1. NamesItsOwnText' /\ \A q \in Proc : st'[q] = "idle"
    BY <1>0, <1>11, AuthorSafe
  <2>2. held' = held
    BY <1>11 DEF Author
  <2> QED
    BY <2>1, <2>2 DEF HeldKept, RunInv
<1>12. ASSUME UNCHANGED vars PROVE Good
  <2>1. /\ content' = content /\ held' = held /\ st' = st /\ next' = next /\ written' = written
        /\ repairs' = repairs
    BY <1>12 DEF vars, disk, run
  <2>2. \A g : Fixed(g)' = Fixed(g)
    BY <2>1, FixedSame
  <2>3. ASSUME NEW q \in Proc, JudgeInv(q) PROVE JudgeInv(q)'
    BY <2>1, <2>2, <2>3 DEF JudgeInv
  <2>4. ASSUME NEW q \in Proc, MergeInv(q) PROVE MergeInv(q)'
    BY <2>1, <2>4, MergeSame
  <2>5. \A q \in Proc : RunInv(q)'
    BY <1>0, <2>1, <2>3, <2>4 DEF RunInv
  <2> QED
    BY <1>1, <2>1, <2>5
<1>13. Good
  BY <1>3, <1>4, <1>5, <1>7, <1>8, <1>9, <1>10, <1>11, <1>12 DEF Next
<1> QED
  BY <1>0, <1>13 DEF SafeInv

\* At every moment, after a failed write or a kill as well, what a file names holds
\* that file's own text: for every tree and every number of runs, if the runs follow
\* one another, each package has room for its strings and a workflow's names are its
\* own (goembed/repair.go's claim and fix.go's order of writing).
THEOREM NamesItsOwnTextHolds == Spec /\ [](OneAtATime /\ Roomy /\ Apart) => []NamesItsOwnText
<1>1. Init => SafeInv
  BY SafeInit
<1>2. SafeInv /\ OneAtATime /\ OneAtATime' /\ Roomy /\ Apart /\ [Next]_vars => SafeInv'
  BY SafeStep
<1>3. SafeInv => NamesItsOwnText
  BY DEF SafeInv
<1> QED
  BY <1>1, <1>2, <1>3, PTL DEF Spec

\* Under the same conditions no step writes another text over a file that stands
\* there, whoever wrote it (unheld, goembed/repair.go).
THEOREM HeldStaysHolds == Spec /\ [](OneAtATime /\ Roomy /\ Apart) => HeldStays
<1>1. Init => SafeInv
  BY SafeInit
<1>2. SafeInv /\ OneAtATime /\ OneAtATime' /\ Roomy /\ Apart /\ [Next]_vars =>
         SafeInv' /\ [\A p \in Path : held[p] # None => held'[p] # None /\ Settle[held'[p]] = Settle[held[p]]]_vars
  BY SafeStep DEF HeldKept
<1> QED
  BY <1>1, <1>2, PTL DEF Spec, HeldStays

-----------------------------------------------------------------------------
(* Nothing that is created is left unnamed.                                 *)

\* One process may run.  A path is named by a file; a path is of the repair that is
\* being written.
Alone == \E p \in Proc : procs = {p}
Named(m) == \E f \in File : \E s \in Range(content[f]) : s.at = m
OnTheWay(m) == \E p \in Proc : /\ Merging(p) /\ Changed(p)
                               /\ \E k \in DOMAIN Current(p).created :
                                     k <= written[p] /\ m = Current(p).created[k].path

\* While one process runs and nothing fails, its repairs answer to their files,
\* and what it created is named or belongs to the repair it is writing.
StrandInv ==
    /\ Typed /\ made \subseteq Path /\ \A p \in Proc : ~Resting(p) => p \in procs
    /\ faults = 0 /\ Alone =>
          /\ \A p \in Proc : ~Resting(p) => Turning(p)
          /\ \A p \in Proc : st[p] = "judging" => next[p] = 1
          /\ \A m \in made : Named(m) \/ OnTheWay(m)

\* At the start nothing is made and nobody runs.
LEMMA StrandInit == Init => StrandInv
<1> SUFFICES ASSUME Init PROVE StrandInv
  OBVIOUS
<1>1. Typed
  BY TypedInit
<1>2. made = {} /\ \A p \in Proc : Resting(p) /\ st[p] = "idle"
  BY DEF Init, Resting
<1> QED
  BY <1>1, <1>2 DEF StrandInv

\* A step that touches neither the files that are still to write nor the repairs.
LEMMA TurningSame ==
    ASSUME NEW p, Turning(p), content' = content, repairs' = repairs, next' = next
    PROVE  Turning(p)'
<1>1. \A f : Due(p, f)' <=> Due(p, f)
  BY DEF Due
<1>2. \A f : Turned(content[f], repairs[p][f])' <=> Turned(content[f], repairs[p][f])
  BY DEF Turned, Moved
<1> QED
  BY <1>1, <1>2 DEF Turning

\* When a merge goes on to the next file, the repairs that are left still answer to
\* their files.
LEMMA TurningNext ==
    ASSUME Typed, NEW p \in Proc, Merging(p), NextFile(p), Turning(p),
           \A f \in File : f # Order[next[p]] => content'[f] = content[f]
    PROVE  Turning(p)'
<1> SUFFICES ASSUME NEW f \in File, Due(p, f)' PROVE Turned(content[f], repairs[p][f])'
  BY DEF Turning
<1>1. Due(p, f) /\ content'[f] = content[f] /\ repairs'[p][f] = repairs[p][f]
  BY NextDue
<1>2. Turned(content[f], repairs[p][f])
  BY <1>1 DEF Turning
<1> QED
  BY <1>1, <1>2 DEF Turned, Moved

\* Every step keeps it: what WriteCreated makes belongs to the repair being written,
\* and WriteFile names all that its repair made.
LEMMA StrandStep == ASSUME StrandInv, [Next]_vars PROVE StrandInv'
<1> DEFINE Active == \A p \in Proc : ~Resting(p) => p \in procs
           Calm == /\ \A p \in Proc : ~Resting(p) => Turning(p)
                   /\ \A p \in Proc : st[p] = "judging" => next[p] = 1
                   /\ \A m \in made : Named(m) \/ OnTheWay(m)
           Good == made' \subseteq Path /\ Active' /\ (faults' = 0 /\ Alone' => Calm')
<1>0. Typed /\ made \subseteq Path /\ Active /\ (faults = 0 /\ Alone => Calm) /\ Typed'
  BY TypedStep DEF StrandInv
<1>1. ASSUME NEW p \in procs, Alone, NEW q \in Proc, ~Resting(q) PROVE q = p
  BY <1>0, <1>1 DEF Alone
<1>2. ASSUME NEW p \in Proc, Start(p) PROVE Good
  <2>1. /\ content' = content /\ held' = held /\ procs' = procs /\ made' = made /\ faults' = faults
        /\ p \in procs /\ Resting(p)
        /\ st' = [st EXCEPT ![p] = "judging"] /\ next' = [next EXCEPT ![p] = 1]
        /\ repairs' = [repairs EXCEPT ![p] = [f \in File |-> Unchanged]]
    BY <1>2 DEF Start, disk, scenario
  <2>2. /\ st'[p] = "judging" /\ next'[p] = 1 /\ (\A f \in File : repairs'[p][f] = Unchanged)
        /\ \A q \in Proc : q # p => st'[q] = st[q]
    BY <1>0, <2>1 DEF Typed
  <2>3. Active'
    BY <1>0, <2>1, <2>2 DEF Resting
  <2>4. ASSUME faults' = 0, Alone' PROVE Calm'
    <3>1. faults = 0 /\ Alone /\ Calm
      BY <1>0, <2>1, <2>4 DEF Alone
    <3>2. \A q \in Proc : Resting(q)
      BY <1>1, <2>1, <3>1
    <3>3. \A q \in Proc : q # p => Resting(q)' /\ st'[q] # "judging"
      BY <2>2, <3>2 DEF Resting
    <3>4. Turning(p)'
      BY <2>2 DEF Turning, Due
    <3>5. \A m \in made : ~OnTheWay(m)
      BY <3>2 DEF OnTheWay, Merging, Resting
    <3>6. \A m \in made : Named(m)'
      BY <2>1, <3>1, <3>5 DEF Named
    <3> QED
      BY <2>1, <2>2, <3>3, <3>4, <3>6
  <2> QED
    BY <1>0, <2>1, <2>3, <2>4
<1>3. ASSUME NEW p \in Proc, NEW f \in File, Judge(p, f) PROVE Good
  <2>1. /\ content' = content /\ held' = held /\ procs' = procs /\ made' = made /\ faults' = faults
        /\ st[p] = "judging" /\ st' = st /\ next' = next
    BY <1>3 DEF Judge, disk, scenario
  <2>2. PICK r : r \in {Unchanged, Fixed(f)} /\ repairs' = [repairs EXCEPT ![p][f] = r]
    BY <1>3 DEF Judge
  <2>3. ~Resting(p) /\ p \in procs
    BY <1>0, <2>1 DEF Resting
  <2>4. ASSUME faults' = 0, Alone' PROVE Calm'
    <3>1. faults = 0 /\ Alone /\ Calm
      BY <1>0, <2>1, <2>4 DEF Alone
    <3>2. \A q \in Proc : q # p => Resting(q)
      BY <1>1, <2>3, <3>1
    <3>3. \A m \in made : ~OnTheWay(m)
      BY <2>1, <3>2 DEF OnTheWay, Merging, Resting
    <3>4. \A m \in made : Named(m)'
      BY <2>1, <3>1, <3>3 DEF Named
    <3>5. \A g \in File : repairs'[p][g] = IF g = f THEN r ELSE repairs[p][g]
      BY <1>0, <2>2 DEF Typed
    <3>6. \A g \in File : Due(p, g)' => Turned(content[g], repairs'[p][g])
      <4> SUFFICES ASSUME NEW g \in File, Due(p, g)' PROVE Turned(content[g], repairs'[p][g])
        OBVIOUS
      <4>1. CASE g = f
        <5>1. repairs'[p][g] # Unchanged
          BY DEF Due
        <5>2. repairs'[p][g] = Fixed(f)
          BY <2>2, <3>5, <4>1, <5>1
        <5>3. Turned(content[f], Fixed(f))
          BY <1>0, FixedTurned DEF Typed
        <5> QED
          BY <4>1, <5>2, <5>3
      <4>2. CASE g # f
        <5>1. repairs'[p][g] = repairs[p][g]
          BY <3>5, <4>2
        <5>2. Due(p, g)
          BY <2>1, <5>1 DEF Due
        <5> QED
          BY <2>3, <3>1, <5>1, <5>2 DEF Turning
      <4> QED
        BY <4>1, <4>2
    <3>7. Turning(p)'
      BY <2>1, <3>6 DEF Turning, Turned, Moved
    <3>8. \A q \in Proc : ~Resting(q)' => q = p
      BY <2>1, <3>2 DEF Resting
    <3> QED
      BY <2>1, <3>1, <3>4, <3>7, <3>8
  <2>5. Active'
    BY <1>0, <2>1 DEF Resting
  <2> QED
    BY <1>0, <2>1, <2>4, <2>5
<1>4. ASSUME NEW p \in Proc, Merge(p) PROVE Good
  <2>1. /\ content' = content /\ held' = held /\ procs' = procs /\ made' = made /\ faults' = faults
        /\ st[p] = "judging" /\ st' = [st EXCEPT ![p] = "merging"] /\ next' = next /\ repairs' = repairs
    BY <1>4 DEF Merge, disk, scenario
  <2>2. ~Resting(p) /\ p \in procs
    BY <1>0, <2>1 DEF Resting
  <2>3. st'[p] = "merging" /\ \A q \in Proc : q # p => st'[q] = st[q]
    BY <1>0, <2>1 DEF Typed
  <2>4. ASSUME faults' = 0, Alone' PROVE Calm'
    <3>1. faults = 0 /\ Alone /\ Calm
      BY <1>0, <2>1, <2>4 DEF Alone
    <3>2. \A q \in Proc : q # p => Resting(q)
      BY <1>1, <2>2, <3>1
    <3>3. \A m \in made : ~OnTheWay(m)
      BY <2>1, <3>2 DEF OnTheWay, Merging, Resting
    <3>4. \A m \in made : Named(m)'
      BY <2>1, <3>1, <3>3 DEF Named
    <3>5. Turning(p)
      BY <2>2, <3>1
    <3>6. Turning(p)'
      BY <2>1, <3>5, TurningSame
    <3>7. \A q \in Proc : (~Resting(q)' => q = p) /\ st'[q] # "judging"
      BY <2>3, <3>2 DEF Resting
    <3> QED
      BY <2>1, <3>4, <3>6, <3>7
  <2>5. Active'
    BY <1>0, <2>1, <2>2, <2>3 DEF Resting
  <2> QED
    BY <1>0, <2>1, <2>4, <2>5
<1>5. ASSUME NEW p \in Proc, Skip(p) PROVE Good
  <2>1. /\ content' = content /\ held' = held /\ procs' = procs /\ made' = made /\ faults' = faults
        /\ Merging(p) /\ ~Changed(p) /\ NextFile(p) /\ st[p] = "merging" /\ st' = st
    BY <1>5 DEF Skip, disk, scenario, NextFile, Merging
  <2>2. ~Resting(p) /\ p \in procs
    BY <1>0, <2>1 DEF Resting
  <2>3. ASSUME faults' = 0, Alone' PROVE Calm'
    <3>1. faults = 0 /\ Alone /\ Calm
      BY <1>0, <2>1, <2>3 DEF Alone
    <3>2. \A q \in Proc : q # p => Resting(q)
      BY <1>1, <2>2, <3>1
    <3>3. \A m \in made : ~OnTheWay(m)
      BY <2>1, <3>2 DEF OnTheWay, Merging, Resting
    <3>4. \A m \in made : Named(m)'
      BY <2>1, <3>1, <3>3 DEF Named
    <3>5. Turning(p)'
      BY <1>0, <2>1, <2>2, <3>1, TurningNext
    <3>6. \A q \in Proc : (~Resting(q)' => q = p) /\ st'[q] # "judging"
      BY <2>1, <3>2 DEF Resting
    <3> QED
      BY <2>1, <3>4, <3>5, <3>6
  <2>4. Active'
    BY <1>0, <2>1 DEF Resting
  <2> QED
    BY <1>0, <2>1, <2>3, <2>4
<1>6. ASSUME NEW p \in Proc, WriteCreated(p) PROVE Good
  <2>1. /\ content' = content /\ procs' = procs /\ faults' = faults /\ st' = st /\ st[p] = "merging"
        /\ repairs' = repairs /\ next' = next /\ written' = [written EXCEPT ![p] = @ + 1]
        /\ Merging(p) /\ Changed(p) /\ Pending(p)
        /\ made' = made \cup {Current(p).created[written[p] + 1].path}
    BY <1>6 DEF WriteCreated, scenario, Merging
  <2>2. ~Resting(p) /\ p \in procs
    BY <1>0, <2>1 DEF Resting
  <2>3. PICK cs \in Seq(Created) : cs = Current(p).created
    BY <1>0, <2>1, CurrentIs DEF AnyRepair
  <2>4. written[p] \in Nat /\ written'[p] = written[p] + 1 /\ written[p] + 1 \in DOMAIN cs
    BY <1>0, <2>1, <2>3 DEF Pending, Typed
  <2>5. made' \subseteq Path
    <3>1. cs[written[p] + 1] \in Created
      BY <2>4
    <3> QED
      BY <1>0, <2>1, <2>3, <3>1 DEF Created
  <2>6. Merging(p)' /\ Changed(p)' /\ Current(p)' = Current(p)
    BY <2>1 DEF Merging, Changed, Current
  <2>7. ASSUME faults' = 0, Alone' PROVE Calm'
    <3>1. faults = 0 /\ Alone /\ Calm
      BY <1>0, <2>1, <2>7 DEF Alone
    <3>2. \A q \in Proc : q # p => Resting(q)
      BY <1>1, <2>2, <3>1
    <3>3. ASSUME NEW m \in made' PROVE (Named(m) \/ OnTheWay(m))'
      <4>1. CASE m = cs[written[p] + 1].path
        <5>1. OnTheWay(m)'
          BY <2>3, <2>4, <2>6, <4>1 DEF OnTheWay
        <5> QED
          BY <5>1
      <4>2. CASE m \in made /\ Named(m)
        <5>1. Named(m)'
          BY <2>1, <4>2 DEF Named
        <5> QED
          BY <5>1
      <4>3. CASE m \in made /\ OnTheWay(m)
        <5>1. PICK q \in Proc : Merging(q) /\ \E k \in DOMAIN Current(q).created :
                                   k <= written[q] /\ m = Current(q).created[k].path
          BY <4>3 DEF OnTheWay
        <5>2. q = p
          BY <3>2, <5>1 DEF Merging, Resting
        <5>3. PICK k \in DOMAIN cs : k <= written[p] /\ m = cs[k].path
          BY <2>3, <5>1, <5>2
        <5>4. k <= written'[p]
          BY <2>4, <5>3
        <5>5. OnTheWay(m)'
          BY <2>3, <2>6, <5>3, <5>4 DEF OnTheWay
        <5> QED
          BY <5>5
      <4> QED
        BY <2>1, <2>3, <3>1, <4>1, <4>2, <4>3
    <3>4. Turning(p)'
      BY <2>1, <2>2, <3>1, TurningSame
    <3>5. \A q \in Proc : (~Resting(q)' => q = p) /\ st'[q] # "judging"
      BY <2>1, <3>2 DEF Resting
    <3> QED
      BY <3>3, <3>4, <3>5
  <2>8. Active'
    BY <1>0, <2>1 DEF Resting
  <2> QED
    BY <2>5, <2>7, <2>8
<1>7. ASSUME NEW p \in Proc, WriteFile(p) PROVE Good
  <2>1. PICK f \in File : /\ f = Order[next[p]] /\ Walked(f) = next[p] /\ Current(p) = repairs[p][f]
                          /\ Current(p) \in AnyRepair
    BY <1>0, <1>7, CurrentIs DEF WriteFile
  <2>2. /\ procs' = procs /\ made' = made /\ faults' = faults /\ st' = st /\ st[p] = "merging"
        /\ Merging(p) /\ Changed(p) /\ NextFile(p) /\ content' = [content EXCEPT ![f] = repairs[p][f].slots]
    BY <1>7, <2>1 DEF WriteFile, NextFile, scenario, Merging
  <2>3. ~Resting(p) /\ p \in procs
    BY <1>0, <2>2 DEF Resting
  <2>4. content'[f] = repairs[p][f].slots /\ \A g \in File : g # f => content'[g] = content[g]
    BY <1>0, <2>2 DEF Typed, Shaped
  <2>5. PICK r \in AnyRepair : r = repairs[p][f]
    BY <2>1
  <2>6. Due(p, f)
    <3>1. next[p] \in Nat
      BY <1>0 DEF Typed
    <3> QED
      BY <2>1, <2>2, <3>1 DEF Due, Changed
  <2>7. ASSUME faults' = 0, Alone' PROVE Calm'
    <3>1. faults = 0 /\ Alone /\ Calm
      BY <1>0, <2>2, <2>7 DEF Alone
    <3>2. \A q \in Proc : q # p => Resting(q)
      BY <1>1, <2>3, <3>1
    <3>3. Turned(content[f], r)
      BY <2>3, <2>5, <2>6, <3>1 DEF Turning
    <3>4. r.slots \in Seq(AnySlot) /\ Len(r.slots) = Len(content[f]) /\ content[f] \in Seq(AnySlot)
      BY <1>0, <3>3 DEF Turned, AnyRepair, Typed, Shaped
    <3>5. \A i \in 1..Len(content[f]) : r.slots[i] \in Range(content'[f])
      BY <2>4, <2>5, <3>4 DEF Range
    <3>6. ASSUME NEW m \in made PROVE Named(m)'
      <4>0. m \in Path /\ m # None
        BY <1>0, NameAssumption
      <4>1. CASE Named(m)
        <5>0. PICK g \in File : \E s \in Range(content[g]) : s.at = m
          BY <4>1 DEF Named
        <5>1. PICK s \in Range(content[g]) : s.at = m
          BY <5>0
        <5>2. CASE g # f
          BY <2>4, <5>1, <5>2 DEF Named
        <5>3. CASE g = f
          <6>1. PICK i \in 1..Len(content[f]) : s = content[f][i]
            BY <3>4, <5>1, <5>3 DEF Range
          <6>2. r.slots[i] = content[f][i]
            BY <3>3, <4>0, <5>1, <6>1 DEF Turned, Moved
          <6> QED
            BY <3>5, <5>1, <6>1, <6>2 DEF Named
        <5> QED
          BY <5>2, <5>3
      <4>2. CASE OnTheWay(m)
        <5>1. PICK q \in Proc : Merging(q) /\ \E k \in DOMAIN Current(q).created : m = Current(q).created[k].path
          BY <4>2 DEF OnTheWay
        <5>2. q = p
          BY <3>2, <5>1 DEF Merging, Resting
        <5>3. PICK k \in DOMAIN r.created : m = r.created[k].path
          BY <2>1, <2>5, <5>1, <5>2
        <5>4. PICK i \in 1..Len(content[f]) : r.created[k].path = r.slots[i].at
          BY <3>3 DEF Turned
        <5> QED
          BY <3>5, <5>3, <5>4 DEF Named
      <4> QED
        BY <3>1, <4>1, <4>2
    <3>7. Turning(p)'
      BY <1>0, <2>1, <2>2, <2>3, <2>4, <3>1, TurningNext
    <3>8. \A q \in Proc : (~Resting(q)' => q = p) /\ st'[q] # "judging"
      BY <2>2, <3>2 DEF Resting
    <3> QED
      BY <2>2, <3>6, <3>7, <3>8
  <2>8. Active'
    BY <1>0, <2>2 DEF Resting
  <2> QED
    BY <1>0, <2>2, <2>7, <2>8
<1>8. ASSUME NEW p \in Proc, WriteFails(p) \/ Crash(p) PROVE Good
  <2>1. /\ faults' = faults + 1 /\ made' = made /\ procs' = procs
        /\ st' = st \/ st' = [st EXCEPT ![p] = "idle"]
    BY <1>8 DEF WriteFails, Crash, NextFile, disk, scenario
  <2>2. faults' # 0
    BY <1>0, <2>1 DEF Typed
  <2>3. \A q \in Proc : st'[q] = st[q] \/ st'[q] = "idle"
    BY <1>0, <2>1 DEF Typed
  <2>4. Active'
    BY <1>0, <2>1, <2>3 DEF Resting
  <2> QED
    BY <1>0, <2>1, <2>2, <2>4
<1>9. ASSUME NEW p \in Proc, Finish(p) PROVE Good
  <2>1. /\ content' = content /\ procs' = procs /\ made' = made /\ faults' = faults
        /\ st[p] = "merging" /\ next[p] > Len(Order) /\ st' = [st EXCEPT ![p] = "done"]
    BY <1>9 DEF Finish, disk, scenario
  <2>2. ~Resting(p) /\ p \in procs /\ ~Merging(p)
    <3>1. next[p] \in Nat /\ Len(Order) \in Nat
      BY <1>0, NameAssumption DEF Typed
    <3> QED
      BY <1>0, <2>1, <3>1 DEF Resting, Merging
  <2>3. st'[p] = "done" /\ \A q \in Proc : q # p => st'[q] = st[q]
    BY <1>0, <2>1 DEF Typed
  <2>4. ASSUME faults' = 0, Alone' PROVE Calm'
    <3>1. faults = 0 /\ Alone /\ Calm
      BY <1>0, <2>1, <2>4 DEF Alone
    <3>2. \A q \in Proc : q # p => Resting(q)
      BY <1>1, <2>2, <3>1
    <3>3. \A m \in made : ~OnTheWay(m)
      BY <2>2, <3>2 DEF OnTheWay, Merging, Resting
    <3>4. \A m \in made : Named(m)'
      BY <2>1, <3>1, <3>3 DEF Named
    <3>5. \A q \in Proc : Resting(q)' /\ st'[q] # "judging"
      BY <2>3, <3>2 DEF Resting
    <3> QED
      BY <2>1, <3>4, <3>5
  <2>5. Active'
    BY <1>0, <2>1, <2>3 DEF Resting
  <2> QED
    BY <1>0, <2>1, <2>4, <2>5
<1>10. ASSUME NEW f \in File, Author(f) PROVE Good
  <2>1. PICK t : content' = [content EXCEPT ![f] = Append(@, t)]
    BY <1>10 DEF Author
  <2>2. /\ procs' = procs /\ made' = made /\ faults' = faults /\ st' = [q \in Proc |-> "idle"]
        /\ \A q \in Proc : Resting(q)
    BY <1>10 DEF Author, scenario
  <2>3. \A q \in Proc : Resting(q)' /\ st'[q] # "judging"
    BY <2>2 DEF Resting
  <2>4. PICK a \in Seq(AnySlot) : a = content[f]
    BY <1>0 DEF Typed, Shaped
  <2>5. content'[f] = Append(a, t) /\ \A g \in File : g # f => content'[g] = content[g]
    BY <1>0, <2>1, <2>4 DEF Typed, Shaped
  <2>6. \A s \in Range(a) : s \in Range(Append(a, t))
    <3>1. \A i \in DOMAIN a : i \in DOMAIN Append(a, t) /\ Append(a, t)[i] = a[i]
      BY <2>4
    <3> QED
      BY <3>1 DEF Range
  <2>7. \A m : Named(m) => Named(m)'
    BY <2>4, <2>5, <2>6 DEF Named
  <2>8. \A m : ~OnTheWay(m)
    BY <2>2 DEF OnTheWay, Merging, Resting
  <2>9. faults' = 0 /\ Alone' => Calm'
    BY <1>0, <2>2, <2>3, <2>7, <2>8 DEF Alone
  <2>10. Active'
    BY <2>3
  <2> QED
    BY <1>0, <2>2, <2>9, <2>10
<1>11. ASSUME UNCHANGED vars PROVE Good
  <2>1. /\ content' = content /\ held' = held /\ procs' = procs /\ st' = st /\ repairs' = repairs /\ next' = next
        /\ written' = written /\ made' = made /\ faults' = faults
    BY <1>11 DEF vars, disk, scenario, run
  <2>2. Active'
    BY <1>0, <2>1 DEF Resting
  <2>3. \A m : (Named(m)' <=> Named(m)) /\ (OnTheWay(m)' <=> OnTheWay(m))
    BY <2>1 DEF Named, OnTheWay, Merging, Changed, Current
  <2>4. \A p \in Proc : Turning(p) => Turning(p)'
    BY <2>1, TurningSame
  <2>5. faults' = 0 /\ Alone' => Calm'
    BY <1>0, <2>1, <2>3, <2>4 DEF Alone, Resting
  <2> QED
    BY <1>0, <2>1, <2>2, <2>5
<1>12. Good
  BY <1>2, <1>3, <1>4, <1>5, <1>6, <1>7, <1>8, <1>9, <1>10, <1>11 DEF Next
<1> QED
  BY <1>0, <1>12 DEF StrandInv

\* With one process, no failed write and no kill, every file that a run creates is
\* named by some file once the runs rest (writeCreated and FixFileWith), with no
\* condition on the tree, its names or what authors add between the runs.
THEOREM NothingStrandedHolds == Spec => []NothingStranded
<1>1. Init => StrandInv
  BY StrandInit
<1>2. StrandInv /\ [Next]_vars => StrandInv'
  BY StrandStep
<1>3. StrandInv => NothingStranded
  <2> SUFFICES ASSUME StrandInv, faults = 0, Alone, \A p \in Proc : Resting(p), NEW m \in made
               PROVE  Named(m)
    BY DEF NothingStranded, Named, Alone
  <2>1. ~OnTheWay(m)
    BY DEF OnTheWay, Merging, Resting
  <2> QED
    BY <2>1 DEF StrandInv
<1> QED
  BY <1>1, <1>2, <1>3, PTL DEF Spec

-----------------------------------------------------------------------------
(* A tree run leaves nothing for the next.                                  *)

\* Every string has a name on the disk that is free for its text.
Open == \A f \in File : \A s \in Range(content[f]) : s.at = None => Free(s, {}) # {}
Opened == Judging => Open

\* Nothing of a file is left to move.
AllMoved(slots) == \A i \in 1..Len(slots) : slots[i].at # None

\* Where every string has a name and room for it, a judgement moves them all.
LEMMA FixedMovesAll ==
    ASSUME Shaped, Room, Open, NEW f \in File
    PROVE  Len(Fixed(f).slots) = Len(content[f]) /\ AllMoved(Fixed(f).slots)
<1>1. PICK w : /\ Passes(w, f)
               /\ Fixed(f) = [slots |-> w[FixRounds].slots, created |-> Lands(w[FixRounds].created)]
  BY PassRuns
<1>2. PICK n \in Nat \ {0} : n = FixRounds
  BY NameAssumption
<1>3. PICK a \in Seq(AnySlot) : a = content[f]
  BY DEF Shaped
<1>4. \A i \in 1..Len(a) : a[i] \in AnySlot /\ (a[i].at = None => Free(a[i], {}) # {})
  BY <1>3 DEF Open, Range
<1> DEFINE q == IF f \in Workflow THEN MoveSteps(a) ELSE GoPlan(f, a)
<1>5. q.slots \in Seq(AnySlot) /\ Len(q.slots) = Len(a) /\ AllMoved(q.slots)
  <2>1. CASE f \in Workflow
    <3>1. PICK r : r = MoveSteps(a)
      OBVIOUS
    <3>2. MoveLaid(a, r, Len(a))
      BY <3>1, MovesLaid
    <3>3. r.slots \in Seq(AnySlot) /\ Len(r.slots) = Len(a)
      BY <3>2 DEF MoveLaid, AnyRepair
    <3>4. ASSUME NEW i \in 1..Len(a) PROVE r.slots[i].at # None
      <4>1. MoveLies(r, a[i], r.slots[i])
        BY <3>2 DEF MoveLaid
      <4>2. PICK s \in AnySlot : s = a[i]
        BY <1>4
      <4>3. Free(s, {}) # {} => Place(s, {}) # None
        BY PlaceNotNone
      <4> QED
        BY <1>4, <4>1, <4>2, <4>3 DEF MoveLies
    <3> QED
      BY <2>1, <3>1, <3>3, <3>4 DEF AllMoved
  <2>2. CASE f \notin Workflow
    <3>1. f \in Go
      BY <2>2 DEF Go
    <3>2. PICK C : Claims(C)
      BY ClaimsExist
    <3>3. PICK F \in SUBSET Path : F = C[Walked(f) - 1]
      <4>1. Walked(f) - 1 \in 0..Len(Order)
        BY WalkedIs
      <4> QED
        BY <3>2, <4>1 DEF Claims
    <3>4. PICK r : r = GoPlan(f, a)
      OBVIOUS
    <3>5. Laid(a, F, r, Len(a))
      BY <3>2, <3>3, <3>4, GoPlanLaid
    <3>6. r.slots \in Seq(AnySlot) /\ Len(r.slots) = Len(a)
      BY <3>5 DEF Laid, Plan
    <3>7. ASSUME NEW i \in 1..Len(a), r.slots[i].at = None PROVE FALSE
      <4>1. Lies(a, F, r, i)
        BY <3>5 DEF Laid
      <4>2. PICK s \in AnySlot : s = a[i]
        BY <1>4
      <4> DEFINE G == F \cup Prior(a, r, i)
      <4> HIDE DEF G
      <4>3. Free(s, G) # {} => Place(s, G) # None
        BY PlaceNotNone
      <4>4. r.slots[i] = a[i]
        BY <3>7, <4>1, <4>2, <4>3 DEF Lies, G
      <4>5. r.slots[i] \in Range(r.slots)
        BY <3>6 DEF Range
      <4>6. Free(r.slots[i], {}) = {}
        BY <1>3, <3>1, <3>4, <3>7, <4>5 DEF Room
      <4> QED
        BY <1>4, <3>7, <4>4, <4>6
    <3> QED
      BY <2>2, <3>4, <3>6, <3>7 DEF AllMoved
  <2> QED
    BY <2>1, <2>2
<1>6. \A p : p.slots = a => Round(f, p).slots = q.slots
  BY DEF Round
<1> HIDE DEF q
<1> DEFINE T == {m \in Nat : m + 1 <= n => Len(w[m+1].slots) = Len(a) /\ AllMoved(w[m+1].slots)}
<1>7. \A m \in 0..n : w[m] \in PassPlan
  BY <1>1, <1>2 DEF Passes
<1>8. 0 \in T
  <2>1. w[0] = [slots |-> a, created |-> << >>, holds |-> FALSE] /\ w[1] = Pass(f, w[0])
    <3>1. 1 \in 1..n /\ 1 - 1 = 0
      OBVIOUS
    <3> QED
      BY <1>1, <1>2, <1>3, <3>1 DEF Passes
  <2>2. w[1].slots = q.slots
    BY <1>6, <2>1 DEF Pass
  <2> QED
    BY <1>5, <2>2
<1>9. ASSUME NEW m \in T \cap Nat PROVE m + 1 \in T
  <2> SUFFICES ASSUME (m + 1) + 1 <= n
               PROVE  Len(w[(m+1)+1].slots) = Len(a) /\ AllMoved(w[(m+1)+1].slots)
    OBVIOUS
  <2>1. m + 1 \in 0..n /\ (m + 1) + 1 \in 1..n /\ ((m + 1) + 1) - 1 = m + 1
    OBVIOUS
  <2>2. PICK p \in PassPlan : p = w[m+1]
    BY <1>7, <2>1
  <2>3. Len(p.slots) = Len(a) /\ AllMoved(p.slots)
    BY <2>2
  <2>4. w[(m+1)+1] = Pass(f, p)
    BY <1>1, <1>2, <2>1, <2>2 DEF Passes
  <2>5. CASE p.holds
    BY <2>3, <2>4, <2>5 DEF Pass
  <2>6. CASE ~p.holds
    <3>1. p.slots \in Seq(AnySlot) /\ p.created \in Seq(Created)
      BY DEF PassPlan
    <3>2. PICK new, more : /\ Turns(p.slots, new, more)
                           /\ Round(f, p) = [slots |-> new, created |-> p.created \o more]
      BY <3>1, RoundTurns
    <3>3. w[(m+1)+1].slots = new
      BY <2>4, <2>6, <3>2 DEF Pass
    <3>4. Len(new) = Len(a) /\ AllMoved(new)
      BY <2>3, <3>2 DEF Turns, AllMoved
    <3> QED
      BY <3>3, <3>4
  <2> QED
    BY <2>5, <2>6
<1>10. Nat \subseteq T
  <2> HIDE DEF T
  <2> QED
    BY <1>8, <1>9, NatInduct
<1>11. n - 1 \in Nat /\ (n - 1) + 1 = n
  OBVIOUS
<1>12. Len(w[n].slots) = Len(a) /\ AllMoved(w[n].slots)
  <2>1. n - 1 \in T
    BY <1>10, <1>11
  <2>2. Len(w[(n-1)+1].slots) = Len(a) /\ AllMoved(w[(n-1)+1].slots)
    BY <1>11, <2>1
  <2> QED
    BY <1>11, <2>2
<1> QED
  BY <1>1, <1>2, <1>3, <1>12

\* Every repair moves all strings of its file.  While a whole run goes well, a file
\* it has judged is moved already or has its repair to come, and a file it has
\* passed is moved.
Settles(p, f) == AllMoved(content[f]) \/ Due(p, f)
EmptyInv ==
    /\ Typed
    /\ \A p \in Proc, f \in File : repairs[p][f] # Unchanged => AllMoved(repairs[p][f].slots)
    /\ \A p \in Proc : st[p] = "judging" => next[p] = 1
    /\ \A p \in Proc : whole[p] /\ ~faulted[p] => \A f \in File \ Exempt :
          /\ st[p] = "judging" /\ f \in judged[p] => Settles(p, f)
          /\ st[p] = "merging" => Settles(p, f)
          /\ st[p] = "done" => AllMoved(content[f])

\* At the start nothing is judged.
LEMMA EmptyInit == Init => EmptyInv
<1> SUFFICES ASSUME Init PROVE EmptyInv
  OBVIOUS
<1>1. Typed
  BY TypedInit
<1>2. /\ \A p \in Proc : st[p] = "idle" /\ next[p] = 1
      /\ \A p \in Proc, f \in File : repairs[p][f] = Unchanged
  BY DEF Init
<1> QED
  BY <1>1, <1>2 DEF EmptyInv

\* Every step keeps it, with any number of processes, failures and kills.
LEMMA EmptyStep == ASSUME EmptyInv, Roomy, Opened, [Next]_vars PROVE EmptyInv'
<1> DEFINE Whole == \A p \in Proc : whole[p] /\ ~faulted[p] => \A f \in File \ Exempt :
                       /\ st[p] = "judging" /\ f \in judged[p] => Settles(p, f)
                       /\ st[p] = "merging" => Settles(p, f)
                       /\ st[p] = "done" => AllMoved(content[f])
           All == \A p \in Proc, f \in File : repairs[p][f] # Unchanged => AllMoved(repairs[p][f].slots)
           First == \A p \in Proc : st[p] = "judging" => next[p] = 1
           Good == All' /\ First' /\ Whole'
<1>0. Typed /\ All /\ First /\ Whole /\ Typed'
  BY TypedStep DEF EmptyInv
<1>1. ASSUME NEW p \in Proc, Start(p) PROVE Good
  <2>1. /\ content' = content
        /\ st' = [st EXCEPT ![p] = "judging"] /\ next' = [next EXCEPT ![p] = 1]
        /\ repairs' = [repairs EXCEPT ![p] = [f \in File |-> Unchanged]]
        /\ faulted' = [faulted EXCEPT ![p] = FALSE]
    BY <1>1 DEF Start, disk
  <2>2. PICK some \in {File} \cup {{f} : f \in File} :
           /\ judged' = [judged EXCEPT ![p] = File \ some]
           /\ whole' = [whole EXCEPT ![p] = (some = File)]
    BY <1>1 DEF Start
  <2>3. /\ st'[p] = "judging" /\ next'[p] = 1 /\ (\A f \in File : repairs'[p][f] = Unchanged)
        /\ (whole'[p] => judged'[p] = {})
        /\ \A q \in Proc : q # p => /\ st'[q] = st[q] /\ next'[q] = next[q] /\ repairs'[q] = repairs[q]
                                    /\ judged'[q] = judged[q] /\ whole'[q] = whole[q] /\ faulted'[q] = faulted[q]
    BY <1>0, <2>1, <2>2 DEF Typed
  <2>4. All' /\ First'
    BY <1>0, <2>3
  <2>5. \A q \in Proc : q # p => \A f \in File : Settles(q, f) => Settles(q, f)'
    BY <2>1, <2>3 DEF Settles, Due, AllMoved
  <2>6. Whole'
    BY <1>0, <2>1, <2>3, <2>5 DEF AllMoved
  <2> QED
    BY <2>4, <2>6
<1>2. ASSUME NEW p \in Proc, NEW f \in File, Judge(p, f) PROVE Good
  <2>1. /\ content' = content /\ held' = held /\ st' = st /\ next' = next /\ whole' = whole /\ faulted' = faulted
        /\ st[p] = "judging" /\ judged' = [judged EXCEPT ![p] = @ \cup {f}]
    BY <1>2 DEF Judge, disk
  <2>2. PICK r : /\ r = IF f \in Exempt \/ Fixed(f).slots = content[f] THEN Unchanged ELSE Fixed(f)
                 /\ repairs' = [repairs EXCEPT ![p][f] = r]
    BY <1>2 DEF Judge
  <2>3. Shaped /\ Room /\ Open
    BY <1>0, <2>1 DEF Typed, Roomy, Opened, Judging
  <2>4. Len(Fixed(f).slots) = Len(content[f]) /\ AllMoved(Fixed(f).slots)
    BY <2>3, FixedMovesAll
  <2>5. \A q \in Proc, g \in File : repairs'[q][g] = IF q = p /\ g = f THEN r ELSE repairs[q][g]
    BY <1>0, <2>2 DEF Typed
  <2>6. r # Unchanged => AllMoved(r.slots)
    BY <2>2, <2>4
  <2>7. All'
    BY <1>0, <2>5, <2>6 DEF AllMoved
  <2>8. First'
    BY <1>0, <2>1
  <2>9. f \notin Exempt => AllMoved(content[f]) \/ r # Unchanged
    <3>1. Fixed(f) = Unchanged => AllMoved(content[f])
      BY <2>4 DEF Unchanged, AllMoved
    <3> QED
      BY <2>2, <2>4, <3>1
  <2>10. \A q \in Proc, g \in File : q # p \/ g # f => (Settles(q, g) => Settles(q, g)')
    BY <2>1, <2>5 DEF Settles, Due, AllMoved
  <2>11. f \notin Exempt => Settles(p, f)'
    <3>1. Walked(f) >= next'[p]
      <4>1. Walked(f) \in Nat \ {0}
        <5>1. Len(Order) \in Nat
          BY NameAssumption
        <5> QED
          BY <5>1, WalkedIs
      <4>2. next'[p] = 1
        BY <1>0, <2>1
      <4> QED
        BY <4>1, <4>2
    <3> QED
      BY <2>1, <2>5, <2>9, <3>1 DEF Settles, Due, AllMoved
  <2>12. /\ judged'[p] = judged[p] \cup {f}
         /\ \A q \in Proc : q # p => judged'[q] = judged[q]
    BY <1>0, <2>1 DEF Typed
  <2>13. Whole'
    <3> SUFFICES ASSUME NEW q \in Proc, whole'[q], ~faulted'[q], NEW g \in File \ Exempt
                 PROVE  /\ st'[q] = "judging" /\ g \in judged'[q] => Settles(q, g)'
                        /\ st'[q] = "merging" => Settles(q, g)'
                        /\ st'[q] = "done" => AllMoved(content'[g])
      BY DEF AllMoved
    <3>1. CASE q = p /\ g = f
      BY <2>1, <2>11, <3>1
    <3>2. CASE q # p \/ g # f
      <4>1. /\ st[q] = "judging" /\ g \in judged[q] => Settles(q, g)
            /\ st[q] = "merging" => Settles(q, g)
            /\ st[q] = "done" => AllMoved(content[g])
        BY <1>0, <2>1
      <4>2. g \in judged'[q] => g \in judged[q]
        BY <2>12, <3>2
      <4> QED
        BY <2>1, <2>10, <3>2, <4>1, <4>2
    <3> QED
      BY <3>1, <3>2
  <2> QED
    BY <2>7, <2>8, <2>13
<1>3. ASSUME NEW p \in Proc, Merge(p) \/ Crash(p) PROVE Good
  <2>1. /\ content' = content /\ next' = next /\ whole' = whole /\ faulted' = faulted /\ repairs' = repairs
        /\ judged' = judged /\ \E x \in {"idle", "merging"} : st' = [st EXCEPT ![p] = x]
        /\ st'[p] = "merging" => st[p] = "judging" /\ judged[p] = File
    BY <1>0, <1>3 DEF Merge, Crash, disk, Typed
  <2>2. st'[p] \in {"idle", "merging"} /\ \A q \in Proc : q # p => st'[q] = st[q]
    BY <1>0, <2>1 DEF Typed
  <2>3. \A q \in Proc, g \in File : Settles(q, g) => Settles(q, g)'
    BY <2>1 DEF Settles, Due, AllMoved
  <2>4. All' /\ First'
    BY <1>0, <2>1, <2>2
  <2>5. Whole'
    BY <1>0, <2>1, <2>2, <2>3 DEF AllMoved
  <2> QED
    BY <2>4, <2>5
<1>4. ASSUME NEW p \in Proc, Merging(p), NextFile(p),
             \A g \in File : AllMoved(content[g]) => AllMoved(content'[g]),
             faulted'[p] \/ AllMoved(content'[Order[next[p]]]) \/ Order[next[p]] \in Exempt,
             \A q \in Proc : q # p => faulted'[q] = faulted[q], faulted[p] => faulted'[p]
      PROVE  Good
  <2>1. /\ st[p] = "merging" /\ st' = st /\ judged' = judged /\ repairs' = repairs /\ whole' = whole
        /\ next' = [next EXCEPT ![p] = @ + 1]
    BY <1>4 DEF NextFile, Merging
  <2>2. next'[p] = next[p] + 1 /\ \A q \in Proc : q # p => next'[q] = next[q]
    BY <1>0, <2>1 DEF Typed
  <2>3. All' /\ First'
    BY <1>0, <2>1, <2>2
  <2>4. \A q \in Proc, g \in File : q # p => (Settles(q, g) => Settles(q, g)')
    BY <1>4, <2>1, <2>2 DEF Settles, Due
  <2>5. ASSUME ~faulted'[p], NEW g \in File \ Exempt, Settles(p, g) PROVE Settles(p, g)'
    <3>1. Walked(g) \in Nat /\ next[p] \in Nat
      BY <1>0, WalkedIs DEF Typed
    <3>2. CASE AllMoved(content[g])
      BY <1>4, <3>2 DEF Settles
    <3>3. CASE Due(p, g) /\ Walked(g) # next[p]
      BY <2>1, <2>2, <3>1, <3>3 DEF Settles, Due
    <3>4. CASE Walked(g) = next[p]
      <4>1. g = Order[next[p]]
        BY <3>4, WalkedIs
      <4> QED
        BY <1>4, <2>5, <4>1 DEF Settles
    <3> QED
      BY <2>5, <3>2, <3>3, <3>4 DEF Settles
  <2>6. Whole'
    <3> SUFFICES ASSUME NEW q \in Proc, whole'[q], ~faulted'[q], NEW g \in File \ Exempt
                 PROVE  /\ st'[q] = "judging" /\ g \in judged'[q] => Settles(q, g)'
                        /\ st'[q] = "merging" => Settles(q, g)'
                        /\ st'[q] = "done" => AllMoved(content'[g])
      BY DEF AllMoved
    <3>1. /\ st[q] = "judging" /\ g \in judged[q] => Settles(q, g)
          /\ st[q] = "merging" => Settles(q, g)
          /\ st[q] = "done" => AllMoved(content[g])
      BY <1>0, <1>4, <2>1
    <3> QED
      BY <1>4, <2>1, <2>4, <2>5, <3>1
  <2> QED
    BY <2>3, <2>6
<1>5. ASSUME NEW p \in Proc, Skip(p) PROVE Good
  <2>1. Merging(p) /\ NextFile(p) /\ content' = content /\ faulted' = faulted /\ ~Changed(p) /\ st[p] = "merging"
    BY <1>5 DEF Skip, disk, Merging
  <2>2. PICK f \in File : f = Order[next[p]] /\ Current(p) = repairs[p][f]
    BY <1>0, <2>1, CurrentIs
  <2>3. ~Due(p, f)
    BY <2>1, <2>2 DEF Due, Changed
  <2>4. CASE whole[p]
    <3>1. faulted'[p] \/ AllMoved(content'[f]) \/ f \in Exempt
      BY <1>0, <2>1, <2>3, <2>4 DEF Settles
    <3> QED
      BY <1>4, <2>1, <2>2, <3>1
  <2>5. CASE ~whole[p]
    <3>1. /\ st' = st /\ judged' = judged /\ repairs' = repairs /\ whole' = whole
          /\ next' = [next EXCEPT ![p] = @ + 1]
      BY <2>1 DEF NextFile
    <3>2. \A q \in Proc : q # p => next'[q] = next[q]
      BY <1>0, <3>1 DEF Typed
    <3>3. \A q \in Proc, g \in File : q # p => (Settles(q, g) => Settles(q, g)')
      BY <2>1, <3>1, <3>2 DEF Settles, Due, AllMoved
    <3>4. All' /\ First'
      BY <1>0, <2>1, <3>1, <3>2
    <3>5. Whole'
      BY <1>0, <2>1, <2>5, <3>1, <3>3 DEF AllMoved
    <3> QED
      BY <3>4, <3>5
  <2> QED
    BY <2>4, <2>5
<1>6. ASSUME NEW p \in Proc, WriteFails(p) PROVE Good
  <2>1. Merging(p) /\ NextFile(p) /\ content' = content /\ faulted' = [faulted EXCEPT ![p] = TRUE]
    BY <1>6 DEF WriteFails, disk
  <2>2. faulted'[p] /\ \A q \in Proc : q # p => faulted'[q] = faulted[q]
    BY <1>0, <2>1 DEF Typed
  <2> QED
    BY <1>4, <2>1, <2>2
<1>7. ASSUME NEW p \in Proc, WriteFile(p) PROVE Good
  <2>1. Merging(p) /\ NextFile(p) /\ faulted' = faulted /\ Changed(p)
        /\ content' = [content EXCEPT ![Order[next[p]]] = Current(p).slots]
    BY <1>7 DEF WriteFile
  <2>2. PICK f \in File : f = Order[next[p]] /\ Current(p) = repairs[p][f]
    BY <1>0, <2>1, CurrentIs
  <2>3. content'[f] = repairs[p][f].slots /\ \A g \in File : g # f => content'[g] = content[g]
    BY <1>0, <2>1, <2>2 DEF Typed, Shaped
  <2>4. AllMoved(repairs[p][f].slots)
    BY <1>0, <2>1, <2>2 DEF Changed
  <2>5. AllMoved(content'[f])
    BY <2>3, <2>4
  <2>6. \A g \in File : AllMoved(content[g]) => AllMoved(content'[g])
    BY <2>3, <2>5
  <2> QED
    BY <1>4, <2>1, <2>2, <2>5, <2>6
<1>8. ASSUME NEW p \in Proc, WriteCreated(p) PROVE Good
  <2>1. /\ content' = content /\ next' = next /\ whole' = whole /\ faulted' = faulted /\ repairs' = repairs
        /\ judged' = judged /\ st' = st
    BY <1>8 DEF WriteCreated
  <2>2. \A q \in Proc, g \in File : Settles(q, g) => Settles(q, g)'
    BY <2>1 DEF Settles, Due, AllMoved
  <2> QED
    BY <1>0, <2>1, <2>2 DEF AllMoved
<1>9. ASSUME NEW p \in Proc, Finish(p) PROVE Good
  <2>1. /\ content' = content /\ next' = next /\ whole' = whole /\ faulted' = faulted /\ repairs' = repairs
        /\ judged' = judged /\ st' = [st EXCEPT ![p] = "done"] /\ st[p] = "merging" /\ next[p] > Len(Order)
    BY <1>9 DEF Finish, disk
  <2>2. st'[p] = "done" /\ \A q \in Proc : q # p => st'[q] = st[q]
    BY <1>0, <2>1 DEF Typed
  <2>3. \A q \in Proc, g \in File : Settles(q, g) => Settles(q, g)'
    BY <2>1 DEF Settles, Due, AllMoved
  <2>4. \A g \in File : ~Due(p, g)
    <3>1. next[p] \in Nat /\ Len(Order) \in Nat
      BY <1>0, NameAssumption DEF Typed
    <3>2. \A g \in File : Walked(g) \in 1..Len(Order)
      BY WalkedIs
    <3> QED
      BY <2>1, <3>1, <3>2 DEF Due
  <2>5. All' /\ First'
    BY <1>0, <2>1, <2>2
  <2>6. \A g \in File \ Exempt : whole[p] /\ ~faulted[p] => AllMoved(content[g])
    BY <1>0, <2>1, <2>4 DEF Settles
  <2>7. Whole'
    BY <1>0, <2>1, <2>2, <2>3, <2>6 DEF AllMoved
  <2> QED
    BY <2>5, <2>7
<1>10. ASSUME NEW f \in File, Author(f) PROVE Good
  <2>1. /\ st' = [q \in Proc |-> "idle"] /\ repairs' = repairs
    BY <1>10 DEF Author
  <2>2. \A q \in Proc : st'[q] = "idle"
    BY <2>1
  <2> QED
    BY <1>0, <2>1, <2>2
<1>11. ASSUME UNCHANGED vars PROVE Good
  <2>1. /\ content' = content /\ next' = next /\ whole' = whole /\ faulted' = faulted /\ repairs' = repairs
        /\ judged' = judged /\ st' = st
    BY <1>11 DEF vars, disk, run
  <2>2. \A q \in Proc, g \in File : Settles(q, g) => Settles(q, g)'
    BY <2>1 DEF Settles, Due, AllMoved
  <2> QED
    BY <1>0, <2>1, <2>2 DEF AllMoved
<1>12. Good
  BY <1>1, <1>2, <1>3, <1>5, <1>6, <1>7, <1>8, <1>9, <1>10, <1>11 DEF Next
<1> QED
  BY <1>0, <1>12 DEF EmptyInv

\* A run over the whole tree that met no failure leaves no string to move outside
\* exempt files, with any number of processes beside it, if every string has a free
\* name and its package room whenever somebody judges (treeRun).
THEOREM LeavesNothingHolds == Spec /\ [](Roomy /\ Opened) => []LeavesNothing
<1>1. Init => EmptyInv
  BY EmptyInit
<1>2. EmptyInv /\ Roomy /\ Opened /\ [Next]_vars => EmptyInv'
  BY EmptyStep
<1>3. EmptyInv => LeavesNothing
  <2> SUFFICES ASSUME EmptyInv, NEW p \in Proc, st[p] = "done", whole[p], ~faulted[p],
                      NEW f \in File \ Exempt, NEW s \in Range(content[f])
               PROVE  s.at # None
    BY DEF LeavesNothing
  <2>1. AllMoved(content[f]) /\ content[f] \in Seq(AnySlot)
    BY DEF EmptyInv, Typed, Shaped
  <2> QED
    BY <2>1 DEF AllMoved, Range
<1> QED
  BY <1>1, <1>2, <1>3, PTL DEF Spec

-----------------------------------------------------------------------------
(* Room, by counting names.                                                 *)

\* The Go strings that are not moved, and the names a string may take.
HomelessOf(f) == {f} \X {j \in 1..Len(content[f]) : content[f][j].at = None}
Homeless == UNION {HomelessOf(f) : f \in Go}
FreeNames(s) == {Name[<< s.stem, n >>] : n \in Free(s, {})}
Enough == \A f \in Go : \A i \in 1..Len(content[f]) :
    content[f][i].at = None => Cardinality(FreeNames(content[f][i])) >= Cardinality(Homeless)

\* A tree has finitely many strings to move.
LEMMA HomelessFinite == ASSUME Shaped PROVE IsFiniteSet(Homeless)
<1>1. IsFiniteSet(Go)
  <2>1. Len(Order) \in Nat /\ DOMAIN Order = 1..Len(Order)
    BY NameAssumption
  <2>2. IsFiniteSet(1..Len(Order))
    BY <2>1, FS_Interval
  <2>3. Order \in Surjection(1..Len(Order), File)
    BY <2>1, NameAssumption DEF Surjection, File, Range
  <2>4. IsFiniteSet(File)
    BY <2>2, <2>3, FS_Surjection
  <2>5. Go \in SUBSET File
    BY DEF Go
  <2> QED
    BY <2>4, <2>5, FS_Subset
<1> DEFINE h == [f \in Go |-> HomelessOf(f)]
           T == {HomelessOf(f) : f \in Go}
<1>2. h \in Surjection(Go, T)
  BY DEF Surjection
<1>3. IsFiniteSet(T)
  <2> HIDE DEF h, T
  <2> QED
    BY <1>1, <1>2, FS_Surjection
<1>4. ASSUME NEW f \in Go PROVE IsFiniteSet(HomelessOf(f))
  <2>1. PICK n \in Nat : n = Len(content[f])
    BY DEF Shaped, Go
  <2> DEFINE S == {j \in 1..Len(content[f]) : content[f][j].at = None}
  <2>2. IsFiniteSet(1..n) /\ S \in SUBSET (1..n)
    BY <2>1, FS_Interval
  <2>3. IsFiniteSet(S)
    <3> HIDE DEF S
    <3> QED
      BY <2>2, FS_Subset
  <2>4. IsFiniteSet({f})
    BY FS_Singleton
  <2>5. IsFiniteSet({f} \X S)
    <3> HIDE DEF S
    <3> QED
      BY <2>3, <2>4, FS_Product
  <2> QED
    BY <2>5 DEF HomelessOf
<1>5. \A t \in T : IsFiniteSet(t)
  BY <1>4
<1>6. IsFiniteSet(UNION T)
  <2> HIDE DEF T
  <2> QED
    BY <1>3, <1>5, FS_UNION
<1> QED
  BY <1>6 DEF Homeless

\* What is claimed are the places of strings of the files so far.
Spot(g, j) == GoPlan(g, content[g]).slots[j].at
ClaimedBy(path, k) == \E g \in Go : Walked(g) <= k /\ \E j \in 1..Len(content[g]) :
    content[g][j].at = None /\ path = Spot(g, j)

\* Nothing else is claimed: the claims of the first k files are places that their
\* own plans give their strings.
LEMMA ClaimsAreSpots ==
    ASSUME Shaped, NEW C, Claims(C), NEW k \in 0..Len(Order)
    PROVE  \A path \in C[k] : ClaimedBy(path, k)
<1>0. PICK n \in Nat : n = Len(Order) /\ \A i \in 1..n : Order[i] \in File
  <2>1. Order \in Seq(File)
    BY NameAssumption
  <2> QED
    BY <2>1
<1> DEFINE T == {m \in Nat : m <= n => \A path \in C[m] : ClaimedBy(path, m)}
<1>1. 0 \in T
  BY DEF Claims
<1>2. ASSUME NEW m \in T \cap Nat PROVE m + 1 \in T
  <2> SUFFICES ASSUME m + 1 <= n, NEW path \in C[m+1] PROVE ClaimedBy(path, m + 1)
    OBVIOUS
  <2>1. m + 1 \in 1..n /\ (m + 1) - 1 = m /\ m \in 0..n /\ \A x \in C[m] : ClaimedBy(x, m)
    OBVIOUS
  <2>2. \A x : ClaimedBy(x, m) => ClaimedBy(x, m + 1)
    <3>1. \A g \in Go : Walked(g) \in Nat
      BY WalkedIs, <1>0 DEF Go
    <3>2. \A g \in Go : Walked(g) <= m => Walked(g) <= m + 1
      BY <3>1
    <3> QED
      BY <3>2 DEF ClaimedBy
  <2>3. CASE Order[m+1] \notin Go
    <3>1. C[m+1] = C[m]
      BY <1>0, <2>1, <2>3 DEF Claims
    <3> QED
      BY <2>1, <2>2, <3>1
  <2>4. CASE Order[m+1] \in Go
    <3>1. PICK g \in Go : g = Order[m+1]
      BY <2>4
    <3>2. g \in File /\ Walked(g) = m + 1
      BY <1>0, <2>1, <3>1, WalkedIs DEF Go
    <3>3. PICK a \in Seq(AnySlot) : a = content[g]
      BY <3>2 DEF Shaped
    <3>4. PICK F \in SUBSET Path : F = C[m]
      BY <1>0, <2>1 DEF Claims
    <3>5. PICK q, r : q = GoPlan(g, a) /\ r = PlanWith(a, {}, F)
      OBVIOUS
    <3>6. C[m+1] = r.files
      BY <1>0, <2>1, <2>4, <3>1, <3>3, <3>4, <3>5 DEF Claims
    <3>7. Laid(a, F, q, Len(a))
      <4>1. F = C[Walked(g) - 1]
        BY <2>1, <3>2, <3>4
      <4> QED
        BY <3>2, <3>5, <4>1, GoPlanLaid
    <3>8. Laid(a, F, r, Len(a))
      BY <3>5, PlanLaid
    <3>9. \A i \in 1..Len(a) : q.slots[i].at = r.slots[i].at
      BY <3>7, <3>8, PlanSame
    <3>10. path \in F \/ path \in Prior(a, r, Len(a) + 1)
      BY <3>6, <3>8 DEF Laid
    <3>11. CASE path \in F
      BY <2>1, <2>2, <3>4, <3>11
    <3>12. CASE path \in Prior(a, r, Len(a) + 1)
      <4>1. PICK j \in 1..((Len(a) + 1) - 1) : Moved(a, r, j) /\ path = r.slots[j].at
        BY <3>12 DEF Prior
      <4>2. j \in 1..Len(a) /\ a[j].at = None
        BY <4>1 DEF Moved
      <4>3. path = Spot(g, j)
        BY <3>3, <3>5, <3>9, <4>1, <4>2 DEF Spot
      <4> QED
        BY <3>2, <3>3, <4>2, <4>3 DEF ClaimedBy
    <3> QED
      BY <3>10, <3>11, <3>12
  <2> QED
    BY <2>3, <2>4
<1>3. Nat \subseteq T
  <2> HIDE DEF T
  <2> QED
    BY <1>1, <1>2, NatInduct
<1>4. k \in Nat /\ k <= n
  BY <1>0
<1>5. k \in T
  BY <1>3, <1>4
<1> QED
  BY <1>4, <1>5

\* The other strings cannot take all names of one that has as many as there are
\* strings to move.
LEMMA RoomLeft ==
    ASSUME Shaped, Enough, NEW C, Claims(C), NEW f \in Go, NEW i \in 1..Len(content[f]), content[f][i].at = None
    PROVE  Free(content[f][i], C[Walked(f) - 1] \cup Prior(content[f], GoPlan(f, content[f]), i)) # {}
<1> DEFINE s == content[f][i]
           claimed == C[Walked(f) - 1] \cup Prior(content[f], GoPlan(f, content[f]), i)
           Others == Homeless \ {<< f, i >>}
           h == [x \in Others |-> Spot(x[1], x[2])]
           Image == {Spot(x[1], x[2]) : x \in Others}
<1>1. IsFiniteSet(Homeless) /\ << f, i >> \in Homeless
  BY HomelessFinite DEF Homeless, HomelessOf
<1>2. PICK n \in Nat : n = Cardinality(Homeless)
  BY <1>1, FS_CardinalityType
<1>3. IsFiniteSet(Others) /\ Cardinality(Others) = n - 1
  BY <1>1, <1>2, FS_RemoveElement
<1>4. h \in Surjection(Others, Image)
  BY DEF Surjection
<1>5. IsFiniteSet(Image) /\ Cardinality(Image) <= n - 1
  <2> HIDE DEF h, Image, Others
  <2> QED
    BY <1>3, <1>4, FS_Surjection
<1>6. claimed \subseteq Image
  <2>1. ASSUME NEW path \in C[Walked(f) - 1] PROVE path \in Image
    <3>1. PICK w \in 1..Len(Order) : w = Walked(f)
      BY WalkedIs DEF Go
    <3>2. ClaimedBy(path, w - 1)
      <4>1. w - 1 \in 0..Len(Order)
        BY NameAssumption
      <4> QED
        BY <2>1, <3>1, <4>1, ClaimsAreSpots
    <3>3. PICK g \in Go : Walked(g) <= w - 1 /\ \E j \in 1..Len(content[g]) :
                             content[g][j].at = None /\ path = Spot(g, j)
      BY <3>2 DEF ClaimedBy
    <3>4. PICK j \in 1..Len(content[g]) : content[g][j].at = None /\ path = Spot(g, j)
      BY <3>3
    <3>5. g # f
      <4>1. Len(Order) \in Nat
        BY NameAssumption
      <4> QED
        BY <3>1, <3>3, <4>1
    <3>6. << g, j >> \in Others
      BY <3>4, <3>5 DEF Homeless, HomelessOf
    <3> QED
      BY <3>4, <3>6
  <2>2. ASSUME NEW path \in Prior(content[f], GoPlan(f, content[f]), i) PROVE path \in Image
    <3>1. PICK j \in 1..(i-1) : Moved(content[f], GoPlan(f, content[f]), j) /\ path = GoPlan(f, content[f]).slots[j].at
      BY <2>2 DEF Prior
    <3>2. content[f][j].at = None /\ path = Spot(f, j)
      BY <3>1 DEF Moved, Spot
    <3>3. j \in 1..Len(content[f]) /\ j # i
      <4>1. Len(content[f]) \in Nat
        BY DEF Shaped, Go
      <4> QED
        BY <4>1
    <3>4. << f, j >> \in Others
      BY <3>2, <3>3 DEF Homeless, HomelessOf
    <3> QED
      BY <3>2, <3>4
  <2> HIDE DEF Image
  <2> QED
    BY <2>1, <2>2
<1>7. Cardinality(FreeNames(s)) >= n
  BY <1>2 DEF Enough
<1>8. ~(FreeNames(s) \subseteq Image)
  <2> SUFFICES ASSUME FreeNames(s) \in SUBSET Image PROVE FALSE
    OBVIOUS
  <2> HIDE DEF Image, s
  <2>1. Cardinality(FreeNames(s)) <= Cardinality(Image) /\ IsFiniteSet(FreeNames(s))
    BY <1>5, FS_Subset
  <2>2. Cardinality(FreeNames(s)) \in Nat /\ Cardinality(Image) \in Nat
    BY <1>5, <2>1, FS_CardinalityType
  <2> QED
    BY <1>5, <1>7, <2>1, <2>2
<1> HIDE DEF Image, s, claimed
<1>9. PICK m \in Free(s, {}) : Name[<< s.stem, m >>] \notin claimed
  BY <1>6, <1>8 DEF FreeNames
<1>10. m \in Free(s, claimed)
  BY <1>9 DEF Free
<1> QED
  BY <1>10 DEF s, claimed

\* Room by counting (place, goembed/repair.go): where every Go string that is not
\* moved has as many free names as there are such strings, none stays for want of a
\* name that another took.
THEOREM EnoughNames == Shaped /\ Enough => Room
<1> SUFFICES ASSUME Shaped, Enough, NEW f \in Go, NEW t \in Range(GoPlan(f, content[f]).slots)
             PROVE  t.at # None
  BY DEF Room
<1>1. PICK C : Claims(C)
  BY ClaimsExist
<1>2. PICK a \in Seq(AnySlot) : a = content[f]
  BY DEF Shaped, Go
<1>3. PICK F \in SUBSET Path : F = C[Walked(f) - 1]
  <2>1. Walked(f) - 1 \in 0..Len(Order)
    BY WalkedIs DEF Go
  <2> QED
    BY <1>1, <2>1 DEF Claims
<1>4. PICK q : q = GoPlan(f, a)
  OBVIOUS
<1>5. Laid(a, F, q, Len(a))
  BY <1>1, <1>3, <1>4, GoPlanLaid DEF Go
<1>6. q.slots \in Seq(AnySlot) /\ Len(q.slots) = Len(a)
  BY <1>5 DEF Laid, Plan
<1>7. PICK i \in 1..Len(a) : t = q.slots[i]
  BY <1>2, <1>4, <1>6 DEF Range
<1> DEFINE G == F \cup Prior(a, q, i)
<1>8. a[i].at = None => Free(a[i], G) # {}
  BY <1>1, <1>2, <1>3, <1>4, RoomLeft
<1>9. Lies(a, F, q, i)
  BY <1>5 DEF Laid
<1>10. Free(a[i], G) # {} => Place(a[i], G) # None
  <2> HIDE DEF G
  <2>1. PICK s \in AnySlot : s = a[i]
    OBVIOUS
  <2> QED
    BY <2>1, PlaceNotNone
<1> QED
  BY <1>7, <1>8, <1>9, <1>10 DEF Lies

-----------------------------------------------------------------------------
(* Where every string goes, whatever has been moved already.                *)

\* Free and the path a judgement gives, of any disk h.
FreeAt(h, s, Z) == {n \in 1..Tries : Name[<< s.stem, n >>] \notin Z /\ h[Name[<< s.stem, n >>]] \in {None, s.text}}
AimAt(h, s, Z) ==
    IF s.at # None \/ FreeAt(h, s, Z) = {} THEN s.at ELSE Name[<< s.stem, Least(FreeAt(h, s, Z)) >>]

\* What the first i - 1 strings of f take, of the files c, when string j of g goes
\* to T[g][j]; and all of it: C[k] is claimed by the first k files of the walk.
Takes(c, T, f, i) == {T[f][j] : j \in {k \in 1..(i-1) : c[f][k].at = None /\ T[f][k] # None}}
Before(c, T, C, f, i) == IF f \in Go THEN C[Walked(f) - 1] \cup Takes(c, T, f, i) ELSE {}
Layout(c, h, T, C) ==
    /\ c \in [File -> Seq(AnySlot)] /\ h \in [Path -> Text \cup {None}]
    /\ C \in [0..Len(Order) -> SUBSET Path] /\ C[0] = {}
    /\ \A k \in 1..Len(Order) :
          C[k] = IF Order[k] \in Go THEN C[k-1] \cup Takes(c, T, Order[k], Len(c[Order[k]]) + 1) ELSE C[k-1]
    /\ \A f \in File : \A i \in 1..Len(c[f]) : T[f][i] = AimAt(h, c[f][i], Before(c, T, C, f, i))

\* A string that is still to move, and has a place.
Bound(c, T, f, i) == i \in 1..Len(c[f]) /\ c[f][i].at = None /\ T[f][i] # None

\* No two strings that move go to one path; two Go strings that may take one name
\* hold different texts.
Diverse(c, T) == \A f, g \in File : \A i \in 1..Len(c[f]), j \in 1..Len(c[g]) :
    Bound(c, T, f, i) /\ Bound(c, T, g, j) /\ (f # g \/ i # j) => T[f][i] # T[g][j]
Differing(c) == \A f, g \in Go : \A i \in 1..Len(c[f]), j \in 1..Len(c[g]) :
    /\ c[f][i].at = None /\ c[g][j].at = None /\ (f # g \/ i # j)
    /\ Names(c[f][i]) \cap Names(c[g][j]) # {}
    => c[f][i].text # c[g][j].text

\* From c and h to d and g: strings are moved to where they go when it holds their
\* text, and their text is written to where they go when nothing stands there.
Advance(c, h, T, d, g) ==
    /\ \A f \in File : Len(d[f]) = Len(c[f]) /\ \A i \in 1..Len(c[f]) :
          /\ d[f][i].stem = c[f][i].stem /\ d[f][i].text = c[f][i].text
          /\ d[f][i].at = c[f][i].at \/ (/\ Bound(c, T, f, i) /\ d[f][i].at = T[f][i]
                                         /\ h[T[f][i]] = c[f][i].text)
    /\ \A x \in Path : g[x] # h[x] =>
          h[x] = None /\ \E f \in File : \E i \in 1..Len(c[f]) :
              Bound(c, T, f, i) /\ T[f][i] = x /\ g[x] = c[f][i].text

\* Of Z, Y leaves out paths the string may not take: they hold another text.
Foreign(h, s, Z, Y) == Y \subseteq Z /\ \A x \in Z \ Y :
    x \in Names(s) /\ s.at = None => h[x] \notin {None, s.text}

\* The least free suffix is that of a smaller set that still holds it.
LEMMA LeastSame ==
    ASSUME NEW S \in SUBSET Nat, NEW R, R \subseteq S, S # {}, Least(S) \in R
    PROVE  Least(R) = Least(S)
<1>1. R \in SUBSET Nat /\ R # {}
  OBVIOUS
<1>2. Least(S) \in S /\ (\A n \in S : Least(S) <= n) /\ Least(R) \in R /\ (\A n \in R : Least(R) <= n)
  BY <1>1, LeastIs
<1> HIDE DEF Least
<1>3. PICK a \in Nat, b \in Nat : a = Least(S) /\ b = Least(R)
  BY <1>2
<1>4. a <= b /\ b <= a
  BY <1>2, <1>3
<1> QED
  BY <1>3, <1>4

\* s becomes t, and the disk h becomes g, where x is the path s goes to: s stays or
\* moves to x, and what stands there is kept or, at x, was missing and is its text.
Follows(h, g, s, t, x) ==
    /\ t.stem = s.stem /\ t.text = s.text
    /\ t.at = s.at \/ (s.at = None /\ x # None /\ t.at = x)
    /\ \A y \in Path : g[y] = h[y] \/ h[y] = None
    /\ s.at = None /\ x \in Path => g[x] = h[x] \/ g[x] = s.text

\* One string: what is claimed shrinks by the paths of strings that have moved and
\* hold another text, so its place stays the least free one.
LEMMA AimSame ==
    ASSUME NEW h, NEW g, NEW s \in AnySlot, NEW t, NEW Y, NEW Z,
           Follows(h, g, s, t, AimAt(h, s, Z)), Foreign(h, s, Z, Y)
    PROVE  AimAt(g, t, Y) = AimAt(h, s, Z)
<1>1. PICK x : x = AimAt(h, s, Z)
  OBVIOUS
<1>2. /\ t.stem = s.stem /\ t.text = s.text
      /\ t.at = s.at \/ (s.at = None /\ x # None /\ t.at = x)
      /\ \A y \in Path : g[y] = h[y] \/ h[y] = None
      /\ s.at = None /\ x \in Path => g[x] = h[x] \/ g[x] = s.text
  BY <1>1 DEF Follows
<1>3. CASE t.at # None
  <2>1. AimAt(g, t, Y) = t.at
    BY <1>3 DEF AimAt
  <2>2. s.at # None => x = s.at
    BY <1>1 DEF AimAt
  <2> QED
    BY <1>1, <1>2, <1>3, <2>1, <2>2
<1>4. CASE t.at = None
  <2>1. s.at = None
    BY <1>2, <1>4
  <2>2. \A n \in 1..Tries : Name[<< s.stem, n >>] \in Path /\ Name[<< s.stem, n >>] \in Names(s)
    BY NameAssumption DEF Names, AnySlot
  <2>3. FreeAt(g, t, Y) \subseteq FreeAt(h, s, Z)
    <3> SUFFICES ASSUME NEW n \in FreeAt(g, t, Y) PROVE n \in FreeAt(h, s, Z)
      OBVIOUS
    <3>1. PICK y : y = Name[<< s.stem, n >>]
      OBVIOUS
    <3>2. n \in 1..Tries /\ y \notin Y /\ g[y] \in {None, s.text} /\ y \in Path /\ y \in Names(s)
      BY <1>2, <2>2, <3>1 DEF FreeAt
    <3>3. h[y] \in {None, s.text}
      BY <1>2, <3>2
    <3>4. y \notin Z
      BY <2>1, <3>2, <3>3 DEF Foreign
    <3> QED
      BY <3>1, <3>2, <3>3, <3>4 DEF FreeAt
  <2>4. CASE FreeAt(h, s, Z) = {}
    <3>1. FreeAt(g, t, Y) = {}
      BY <2>3, <2>4
    <3> QED
      BY <1>4, <2>1, <2>4, <3>1 DEF AimAt
  <2>5. CASE FreeAt(h, s, Z) # {}
    <3>1. FreeAt(h, s, Z) \in SUBSET Nat
      BY NameAssumption DEF FreeAt
    <3>2. PICK n \in FreeAt(h, s, Z) : n = Least(FreeAt(h, s, Z))
      BY <2>5, <3>1, LeastIs
    <3>3. x = Name[<< s.stem, n >>]
      BY <1>1, <2>1, <2>5, <3>2 DEF AimAt
    <3>4. x \in Path /\ x \notin Z /\ h[x] \in {None, s.text} /\ n \in 1..Tries
      BY <2>2, <3>3 DEF FreeAt
    <3>5. g[x] \in {None, s.text} /\ x \notin Y
      BY <1>2, <2>1, <3>4 DEF Foreign
    <3>6. n \in FreeAt(g, t, Y)
      BY <1>2, <3>3, <3>4, <3>5 DEF FreeAt
    <3>7. Least(FreeAt(g, t, Y)) = n
      BY <2>3, <2>5, <3>1, <3>2, <3>6, LeastSame
    <3>8. AimAt(g, t, Y) = Name[<< t.stem, n >>]
      BY <1>4, <3>6, <3>7 DEF AimAt
    <3> QED
      BY <1>1, <1>2, <3>3, <3>8
  <2> QED
    BY <2>4, <2>5
<1> QED
  BY <1>3, <1>4

\* A string that advances follows its path.
LEMMA AdvanceFollows ==
    ASSUME NEW c, NEW h, NEW T, NEW d, NEW g, Advance(c, h, T, d, g), Diverse(c, T), None \notin Path,
           NEW f \in File, NEW i \in 1..Len(c[f])
    PROVE  Follows(h, g, c[f][i], d[f][i], T[f][i])
<1>1. PICK s, t, x : s = c[f][i] /\ t = d[f][i] /\ x = T[f][i]
  OBVIOUS
<1>2. /\ t.stem = s.stem /\ t.text = s.text
      /\ t.at = s.at \/ (Bound(c, T, f, i) /\ t.at = x)
  BY <1>1 DEF Advance
<1>3. \A y \in Path : g[y] = h[y] \/ h[y] = None
  BY DEF Advance
<1>4. ASSUME s.at = None, x \in Path, g[x] # h[x] PROVE g[x] = s.text
  <2>1. PICK e \in File : \E j \in 1..Len(c[e]) : Bound(c, T, e, j) /\ T[e][j] = x /\ g[x] = c[e][j].text
    BY <1>4 DEF Advance
  <2>2. PICK j \in 1..Len(c[e]) : Bound(c, T, e, j) /\ T[e][j] = x /\ g[x] = c[e][j].text
    BY <2>1
  <2>3. Bound(c, T, f, i)
    BY <1>1, <1>4 DEF Bound
  <2>4. e = f /\ j = i
    BY <1>1, <2>2, <2>3 DEF Diverse
  <2> QED
    BY <1>1, <2>2, <2>4
<1>5. Bound(c, T, f, i) => s.at = None /\ x # None
  BY <1>1 DEF Bound
<1>6. Follows(h, g, s, t, x)
  BY <1>2, <1>3, <1>4, <1>5 DEF Follows
<1> QED
  BY <1>1, <1>6

\* A path that was claimed by the first k files and is the file of a moved string.
Settled(c, h, T, x, k) == \E f \in Go : Walked(f) <= k /\ \E j \in 1..Len(c[f]) :
    Bound(c, T, f, j) /\ x = T[f][j] /\ h[x] = c[f][j].text

\* What a string takes is one of its names.
LEMMA TakesItsName ==
    ASSUME NEW c, NEW h, NEW T, NEW C, Layout(c, h, T, C),
           NEW f \in File, NEW i \in 1..Len(c[f]), Bound(c, T, f, i)
    PROVE  T[f][i] \in Names(c[f][i]) /\ T[f][i] \in Path
<1>1. PICK s \in AnySlot : s = c[f][i]
  BY DEF Layout
<1>2. PICK Z : T[f][i] = AimAt(h, s, Z)
  BY <1>1 DEF Layout
<1>3. FreeAt(h, s, Z) # {} /\ T[f][i] = Name[<< s.stem, Least(FreeAt(h, s, Z)) >>]
  BY <1>1, <1>2 DEF Bound, AimAt
<1>4. FreeAt(h, s, Z) \in SUBSET Nat
  BY NameAssumption DEF FreeAt
<1>5. PICK n \in FreeAt(h, s, Z) : n = Least(FreeAt(h, s, Z))
  BY <1>3, <1>4, LeastIs
<1>6. n \in 1..Tries
  BY DEF FreeAt
<1>7. Name[<< s.stem, n >>] \in Path
  BY <1>6, NameAssumption DEF AnySlot
<1> QED
  BY <1>1, <1>3, <1>5, <1>6, <1>7 DEF Names

\* The first k strings of f go to the same paths; what is taken shrinks by what has
\* moved, and nothing else.
Same(T, U, f, k) == \A j \in 1..k : U[f][j] = T[f][j]
Shrinks(c, h, T, f, k, X, Y) == Y \subseteq X /\ \A x \in X \ Y : \E j \in 1..k :
    Bound(c, T, f, j) /\ x = T[f][j] /\ h[x] = c[f][j].text

\* What a file's strings take loses what has moved, and nothing else.
LEMMA TakesShrink ==
    ASSUME NEW c, NEW h, NEW T, NEW d, NEW g, NEW U, Advance(c, h, T, d, g),
           NEW f \in File, NEW i \in Nat, i <= Len(c[f]) + 1, Len(c[f]) \in Nat,
           Same(T, U, f, i - 1)
    PROVE  Shrinks(c, h, T, f, i - 1, Takes(c, T, f, i), Takes(d, U, f, i))
<1>1. \A j \in 1..(i-1) : j \in 1..Len(c[f])
  OBVIOUS
<1>2. \A j \in 1..(i-1) : d[f][j].at = c[f][j].at \/ (/\ Bound(c, T, f, j) /\ d[f][j].at = T[f][j]
                                                        /\ h[T[f][j]] = c[f][j].text)
  BY <1>1 DEF Advance
<1>3. ASSUME NEW x \in Takes(d, U, f, i) PROVE x \in Takes(c, T, f, i)
  <2>1. PICK j \in 1..(i-1) : x = U[f][j] /\ d[f][j].at = None /\ U[f][j] # None
    BY DEF Takes
  <2>2. c[f][j].at = None /\ T[f][j] # None /\ x = T[f][j]
    BY <1>2, <2>1 DEF Bound, Same
  <2> QED
    BY <2>2 DEF Takes
<1>4. ASSUME NEW x \in Takes(c, T, f, i), x \notin Takes(d, U, f, i)
      PROVE  \E j \in 1..(i-1) : Bound(c, T, f, j) /\ x = T[f][j] /\ h[x] = c[f][j].text
  <2>1. PICK j \in 1..(i-1) : x = T[f][j] /\ c[f][j].at = None /\ T[f][j] # None
    BY DEF Takes
  <2>2. d[f][j].at # None
    BY <1>4, <2>1 DEF Takes, Same
  <2>3. Bound(c, T, f, j) /\ h[T[f][j]] = c[f][j].text
    BY <1>2, <2>1, <2>2
  <2> QED
    BY <2>1, <2>3
<1> QED
  BY <1>3, <1>4 DEF Shrinks

\* One Go file, when the files before it claim what they did but for what has moved.
LEMMA FileSame ==
    ASSUME NEW c, NEW h, NEW T, NEW C, NEW d, NEW g, NEW U, NEW D,
           Layout(c, h, T, C), Layout(d, g, U, D), Advance(c, h, T, d, g), Diverse(c, T), Differing(c),
           NEW f \in Go, D[Walked(f) - 1] \subseteq C[Walked(f) - 1],
           \A x \in C[Walked(f) - 1] \ D[Walked(f) - 1] : Settled(c, h, T, x, Walked(f) - 1)
    PROVE  \A i \in 1..Len(c[f]) : U[f][i] = T[f][i]
<1>0. f \in File /\ c[f] \in Seq(AnySlot) /\ d[f] \in Seq(AnySlot) /\ Len(d[f]) = Len(c[f])
  BY DEF Go, Layout, Advance
<1>1. PICK n \in Nat : n = Len(c[f])
  BY <1>0
<1>6. ASSUME NEW i \in 1..Len(c[f]), NEW Y, NEW Z, T[f][i] = AimAt(h, c[f][i], Z), Foreign(h, c[f][i], Z, Y)
      PROVE  AimAt(g, d[f][i], Y) = T[f][i]
  <2>1. PICK s, t : s \in AnySlot /\ s = c[f][i] /\ t = d[f][i]
    BY <1>0
  <2>2. Follows(h, g, s, t, T[f][i])
    BY <1>0, <2>1, AdvanceFollows, NameAssumption
  <2> QED
    BY <1>6, <2>1, <2>2, AimSame
<1> DEFINE S == {m \in Nat : m <= n => \A j \in 1..m : U[f][j] = T[f][j]}
<1>2. 0 \in S
  OBVIOUS
<1>3. ASSUME NEW m \in S \cap Nat PROVE m + 1 \in S
  <2> SUFFICES ASSUME m + 1 <= n PROVE U[f][m+1] = T[f][m+1]
    <3>1. \A j \in 1..(m+1) : j \in 1..m \/ j = m + 1
      OBVIOUS
    <3>2. m <= n \/ ~(m + 1 <= n)
      OBVIOUS
    <3> QED
      BY <3>1, <3>2
  <2>1. PICK i \in 1..Len(c[f]) : i = m + 1
    BY <1>1
  <2>2. Same(T, U, f, i - 1)
    <3>1. m <= n /\ i - 1 = m
      BY <2>1
    <3> QED
      BY <3>1 DEF Same
  <2>3. PICK Y, Z : Y = Before(d, U, D, f, i) /\ Z = Before(c, T, C, f, i)
    OBVIOUS
  <2>4. Y = D[Walked(f) - 1] \cup Takes(d, U, f, i) /\ Z = C[Walked(f) - 1] \cup Takes(c, T, f, i)
    BY <2>3 DEF Before
  <2>5. Shrinks(c, h, T, f, i - 1, Takes(c, T, f, i), Takes(d, U, f, i))
    <3>1. i \in Nat /\ i <= Len(c[f]) + 1 /\ Len(c[f]) \in Nat
      BY <1>1
    <3> QED
      BY <1>0, <2>2, <3>1, TakesShrink
  <2>6. T[f][i] = AimAt(h, c[f][i], Z)
    BY <1>0, <2>3 DEF Layout
  <2>7. U[f][i] = AimAt(g, d[f][i], Y)
    BY <1>0, <2>3 DEF Layout
  <2>8. ASSUME NEW x \in Z \ Y, x \in Names(c[f][i]), c[f][i].at = None PROVE h[x] \notin {None, c[f][i].text}
    <3>1. \E e \in Go : \E j \in 1..Len(c[e]) :
             (e # f \/ i # j) /\ Bound(c, T, e, j) /\ x = T[e][j] /\ h[x] = c[e][j].text
      <4>1. CASE x \in C[Walked(f) - 1] \ D[Walked(f) - 1]
        <5>1. PICK e \in Go : Walked(e) <= Walked(f) - 1 /\ \E j \in 1..Len(c[e]) :
                 Bound(c, T, e, j) /\ x = T[e][j] /\ h[x] = c[e][j].text
          BY <4>1 DEF Settled
        <5>2. Walked(f) \in Nat
          BY <1>0, WalkedIs, NameAssumption
        <5>3. e # f
          BY <5>1, <5>2
        <5> QED
          BY <5>1, <5>3
      <4>2. CASE x \in Takes(c, T, f, i) \ Takes(d, U, f, i)
        <5>1. PICK j \in 1..(i-1) : Bound(c, T, f, j) /\ x = T[f][j] /\ h[x] = c[f][j].text
          BY <2>5, <4>2 DEF Shrinks
        <5>2. j # i /\ j \in 1..Len(c[f])
          BY <1>1
        <5> QED
          BY <5>1, <5>2
      <4> QED
        BY <2>4, <4>1, <4>2
    <3>2. PICK e \in Go : \E j \in 1..Len(c[e]) :
             (e # f \/ i # j) /\ Bound(c, T, e, j) /\ x = T[e][j] /\ h[x] = c[e][j].text
      BY <3>1
    <3>3. PICK j \in 1..Len(c[e]) : (e # f \/ i # j) /\ Bound(c, T, e, j) /\ x = T[e][j] /\ h[x] = c[e][j].text
      BY <3>2
    <3>4. e \in File
      BY DEF Go
    <3>5. x \in Names(c[e][j]) /\ c[e][j].at = None
      BY <3>3, <3>4, TakesItsName DEF Bound
    <3>6. Names(c[f][i]) \cap Names(c[e][j]) # {}
      BY <2>8, <3>5
    <3>7. c[f][i].text # c[e][j].text
      <4>1. f # e \/ i # j
        BY <3>3
      <4> QED
        BY <2>8, <3>5, <3>6, <4>1 DEF Differing
    <3>8. c[e][j].text # None
      <4>1. c[e][j] \in AnySlot
        BY <3>4 DEF Layout
      <4> QED
        BY <4>1, NameAssumption DEF AnySlot
    <3> QED
      BY <3>3, <3>7, <3>8
  <2>9. Y \subseteq Z
    BY <2>4, <2>5 DEF Shrinks
  <2>10. AimAt(g, d[f][i], Y) = T[f][i]
    <3>1. Foreign(h, c[f][i], Z, Y)
      BY <2>8, <2>9 DEF Foreign
    <3> QED
      BY <1>6, <2>6, <3>1
  <2> QED
    BY <2>1, <2>7, <2>10
<1>4. Nat \subseteq S
  <2> HIDE DEF S
  <2> QED
    BY <1>2, <1>3, NatInduct
<1>5. n \in S
  BY <1>4
<1> QED
  BY <1>1, <1>5

\* Every string goes where it went.
LEMMA LayoutSame ==
    ASSUME NEW c, NEW h, NEW T, NEW C, NEW d, NEW g, NEW U, NEW D,
           Layout(c, h, T, C), Layout(d, g, U, D), Advance(c, h, T, d, g), Diverse(c, T), Differing(c)
    PROVE  \A f \in File : \A i \in 1..Len(c[f]) : U[f][i] = T[f][i]
<1>0. PICK n \in Nat : n = Len(Order) /\ \A k \in 1..n : Order[k] \in File
  <2>1. Order \in Seq(File)
    BY NameAssumption
  <2> QED
    BY <2>1
<1> DEFINE S == {k \in Nat : k <= n => /\ D[k] \subseteq C[k]
                                       /\ \A x \in C[k] \ D[k] : Settled(c, h, T, x, k)}
<1>1. 0 \in S
  <2>1. C[0] = {} /\ D[0] = {}
    BY DEF Layout
  <2> QED
    BY <2>1
<1>2. ASSUME NEW k \in S \cap Nat PROVE k + 1 \in S
  <2> SUFFICES ASSUME k + 1 <= n
               PROVE  D[k+1] \subseteq C[k+1] /\ \A x \in C[k+1] \ D[k+1] : Settled(c, h, T, x, k + 1)
    OBVIOUS
  <2>1. D[k] \subseteq C[k] /\ \A x \in C[k] \ D[k] : Settled(c, h, T, x, k)
    <3>1. k <= n
      OBVIOUS
    <3> QED
      BY <3>1
  <2>2. PICK f \in File : f = Order[k+1]
    BY <1>0
  <2>3. k + 1 \in 1..Len(Order) /\ (k + 1) - 1 = k
    BY <1>0
  <2>4. Walked(f) = k + 1
    BY <2>2, <2>3, WalkedIs
  <2>5. \A x : Settled(c, h, T, x, k) => Settled(c, h, T, x, k + 1)
    <3> SUFFICES ASSUME NEW x, Settled(c, h, T, x, k) PROVE Settled(c, h, T, x, k + 1)
      OBVIOUS
    <3>1. PICK e \in Go : Walked(e) <= k /\ \E j \in 1..Len(c[e]) :
              Bound(c, T, e, j) /\ x = T[e][j] /\ h[x] = c[e][j].text
      BY DEF Settled
    <3>2. Walked(e) \in Nat
      BY WalkedIs, NameAssumption DEF Go
    <3>3. Walked(e) <= k + 1
      BY <3>1, <3>2
    <3> QED
      BY <3>1, <3>3 DEF Settled
  <2>6. CASE f \notin Go
    <3>1. C[k+1] = C[k]
      BY <2>2, <2>3, <2>6 DEF Layout
    <3>2. D[k+1] = D[k]
      BY <2>2, <2>3, <2>6 DEF Layout
    <3> QED
      BY <2>1, <2>5, <3>1, <3>2
  <2>7. CASE f \in Go
    <3>1. \A i \in 1..Len(c[f]) : U[f][i] = T[f][i]
      BY <2>1, <2>3, <2>4, <2>7, FileSame
    <3>2. PICK m \in Nat : m = Len(c[f]) /\ m = Len(d[f])
      BY DEF Layout, Advance
    <3>3. C[k+1] = C[k] \cup Takes(c, T, f, m + 1)
      BY <2>2, <2>3, <2>7, <3>2 DEF Layout
    <3>4. D[k+1] = D[k] \cup Takes(d, U, f, m + 1)
      BY <2>2, <2>3, <2>7, <3>2 DEF Layout
    <3>5. m + 1 \in Nat /\ m + 1 <= Len(c[f]) + 1 /\ Len(c[f]) \in Nat /\ (m + 1) - 1 = m
      BY <3>2
    <3>6. Same(T, U, f, (m + 1) - 1)
      BY <3>1, <3>2, <3>5 DEF Same
    <3>7. Shrinks(c, h, T, f, (m + 1) - 1, Takes(c, T, f, m + 1), Takes(d, U, f, m + 1))
      BY <3>5, <3>6, TakesShrink
    <3>8. Walked(f) <= k + 1
      BY <2>4
    <3>9. ASSUME NEW x \in Takes(c, T, f, m + 1), x \notin Takes(d, U, f, m + 1)
          PROVE  Settled(c, h, T, x, k + 1)
      <4>1. PICK j \in 1..m : Bound(c, T, f, j) /\ x = T[f][j] /\ h[x] = c[f][j].text
        BY <3>5, <3>7, <3>9 DEF Shrinks
      <4>2. j \in 1..Len(c[f])
        BY <3>2
      <4> QED
        BY <2>7, <3>8, <4>1, <4>2 DEF Settled
    <3>10. Takes(d, U, f, m + 1) \subseteq Takes(c, T, f, m + 1)
      BY <3>7 DEF Shrinks
    <3> QED
      BY <2>1, <2>5, <3>3, <3>4, <3>9, <3>10
  <2> QED
    BY <2>6, <2>7
<1>3. Nat \subseteq S
  <2> HIDE DEF S
  <2> QED
    BY <1>1, <1>2, NatInduct
<1>4. ASSUME NEW f \in File PROVE \A i \in 1..Len(c[f]) : U[f][i] = T[f][i]
  <2>1. CASE f \in Go
    <3>1. PICK k \in Nat : k = Walked(f) - 1 /\ k <= n
      BY <1>0, WalkedIs
    <3>2. k \in S
      BY <1>3
    <3>3. D[k] \subseteq C[k] /\ \A x \in C[k] \ D[k] : Settled(c, h, T, x, k)
      BY <3>1, <3>2
    <3> QED
      BY <2>1, <3>1, <3>3, FileSame
  <2>2. CASE f \notin Go
    <3> SUFFICES ASSUME NEW i \in 1..Len(c[f]) PROVE U[f][i] = T[f][i]
      OBVIOUS
    <3>1. i \in 1..Len(d[f])
      BY DEF Advance
    <3>2. T[f][i] = AimAt(h, c[f][i], {}) /\ U[f][i] = AimAt(g, d[f][i], {})
      BY <2>2, <3>1 DEF Layout, Before
    <3> QED
      <4>1. PICK s, t : s \in AnySlot /\ s = c[f][i] /\ t = d[f][i]
        BY DEF Layout
      <4>2. Foreign(h, s, {}, {})
        BY DEF Foreign
      <4>3. Follows(h, g, s, t, T[f][i])
        BY <4>1, AdvanceFollows, NameAssumption
      <4> QED
        BY <3>2, <4>1, <4>2, <4>3, AimSame
  <2> QED
    BY <2>1, <2>2
<1> QED
  BY <1>4

\* Where the judgements move the strings of the files as they are.
Targets == [f \in File |-> [i \in 1..Len(content[f]) |-> Fixed(f).slots[i].at]]
Placed == \E C : Layout(content, held, Targets, C)

\* The first round is the last that moves a workflow's steps.
LEMMA WorkflowOnce ==
    ASSUME Shaped, NEW f \in File, f \in Workflow
    PROVE  Fixed(f).slots = MoveSteps(content[f]).slots
<1>1. PICK w : /\ Passes(w, f)
               /\ Fixed(f) = [slots |-> w[FixRounds].slots, created |-> Lands(w[FixRounds].created)]
  BY PassRuns
<1>2. PICK n \in Nat \ {0} : n = FixRounds
  BY NameAssumption
<1>3. PICK a \in Seq(AnySlot) : a = content[f]
  BY DEF Shaped
<1>4. PICK q : q = MoveSteps(a)
  OBVIOUS
<1>5. MoveLaid(a, q, Len(a))
  BY <1>4, MovesLaid
<1>6. PICK b \in Seq(AnySlot) : b = q.slots
  BY <1>5 DEF MoveLaid, AnyRepair
<1>7. \A i \in 1..Len(b) : b[i].at = None => Free(b[i], {}) = {}
  <2> SUFFICES ASSUME NEW i \in 1..Len(b), b[i].at = None PROVE Free(b[i], {}) = {}
    OBVIOUS
  <2>1. MoveLies(q, a[i], b[i]) /\ a[i] \in AnySlot
    BY <1>5, <1>6 DEF MoveLaid
  <2>2. Free(a[i], {}) # {} => Place(a[i], {}) # None
    BY <2>1, PlaceNotNone
  <2> QED
    BY <2>1, <2>2 DEF MoveLies
<1>8. MoveSteps(b).slots = b
  <2>1. PICK r : r = MoveSteps(b)
    OBVIOUS
  <2>2. MoveLaid(b, r, Len(b))
    BY <2>1, MovesLaid
  <2>3. r.slots \in Seq(AnySlot) /\ Len(r.slots) = Len(b)
    BY <2>2 DEF MoveLaid, AnyRepair
  <2>4. \A i \in 1..Len(b) : r.slots[i] = b[i]
    BY <1>7, <2>2 DEF MoveLaid, MoveLies
  <2> QED
    BY <2>1, <2>3, <2>4
<1> DEFINE T == {m \in Nat : m + 1 <= n => w[m+1].slots = b}
<1>9. \A m \in 0..n : w[m] \in PassPlan
  BY <1>1, <1>2 DEF Passes
<1>10. \A p : Round(f, p).slots = MoveSteps(p.slots).slots
  BY DEF Round
<1>11. 0 \in T
  <2>1. w[0] = [slots |-> a, created |-> << >>, holds |-> FALSE] /\ w[1] = Pass(f, w[0])
    <3>1. 1 \in 1..n /\ 1 - 1 = 0
      OBVIOUS
    <3> QED
      BY <1>1, <1>2, <1>3, <3>1 DEF Passes
  <2>2. w[1].slots = MoveSteps(a).slots
    BY <1>10, <2>1 DEF Pass
  <2> QED
    BY <1>4, <1>6, <2>2
<1>12. ASSUME NEW m \in T \cap Nat PROVE m + 1 \in T
  <2> SUFFICES ASSUME (m + 1) + 1 <= n PROVE w[(m+1)+1].slots = b
    OBVIOUS
  <2>1. m + 1 \in 0..n /\ (m + 1) + 1 \in 1..n /\ ((m + 1) + 1) - 1 = m + 1
    OBVIOUS
  <2>2. PICK p \in PassPlan : p = w[m+1]
    BY <1>9, <2>1
  <2>3. p.slots = b
    BY <2>2
  <2>4. w[(m+1)+1] = Pass(f, p)
    BY <1>1, <1>2, <2>1, <2>2 DEF Passes
  <2>5. CASE p.holds
    BY <2>3, <2>4, <2>5 DEF Pass
  <2>6. CASE ~p.holds
    <3>1. w[(m+1)+1].slots = MoveSteps(b).slots
      BY <1>10, <2>3, <2>4, <2>6 DEF Pass
    <3> QED
      BY <1>8, <3>1
  <2> QED
    BY <2>5, <2>6
<1>13. Nat \subseteq T
  <2> HIDE DEF T
  <2> QED
    BY <1>11, <1>12, NatInduct
<1>14. n - 1 \in Nat /\ (n - 1) + 1 = n
  OBVIOUS
<1>15. w[n].slots = b
  BY <1>13, <1>14
<1> QED
  BY <1>1, <1>2, <1>3, <1>4, <1>6, <1>15

\* Free and Place are those of the disk as it is.
LEMMA FreeHere ==
    /\ \A s, Z : Free(s, Z) = FreeAt(held, s, Z)
    /\ \A s, Z : s.at = None /\ Free(s, Z) # {} => AimAt(held, s, Z) = Place(s, Z)
    /\ \A s, Z : s.at # None \/ Free(s, Z) = {} => AimAt(held, s, Z) = s.at
<1>1. \A s, Z : Free(s, Z) = FreeAt(held, s, Z)
  BY DEF Free, FreeAt, Unheld
<1> QED
  BY <1>1 DEF AimAt, Place

\* In a package with room the judgements are such a layout.
LEMMA LayoutExists == Typed /\ Room => Placed
<1> SUFFICES ASSUME Typed, Room PROVE Placed
  OBVIOUS
<1>0. Shaped /\ content \in [File -> Seq(AnySlot)] /\ held \in [Path -> Text \cup {None}]
  BY DEF Typed, Shaped
<1>1. PICK C : Claims(C)
  BY <1>0, ClaimsExist
<1>2. PICK T : T = Targets
  OBVIOUS
<1>3. \A f \in File : \A i \in 1..Len(content[f]) : T[f][i] = Fixed(f).slots[i].at
  BY <1>2 DEF Targets
<1>4. ASSUME NEW f \in Go
      PROVE  /\ C[Walked(f)] = C[Walked(f) - 1] \cup Takes(content, T, f, Len(content[f]) + 1)
             /\ \A i \in 1..Len(content[f]) : T[f][i] = AimAt(held, content[f][i], Before(content, T, C, f, i))
  <2>1. f \in File /\ Walked(f) \in 1..Len(Order) /\ Order[Walked(f)] = f
    BY WalkedIs DEF Go
  <2>2. PICK a \in Seq(AnySlot) : a = content[f]
    BY <1>0, <2>1
  <2>3. PICK F \in SUBSET Path : F = C[Walked(f) - 1]
    <3>1. Walked(f) - 1 \in 0..Len(Order)
      BY <2>1
    <3> QED
      BY <1>1, <3>1 DEF Claims
  <2>4. PICK q, r : q = GoPlan(f, a) /\ r = PlanWith(a, {}, F)
    OBVIOUS
  <2>5. Laid(a, F, q, Len(a))
    BY <1>0, <1>1, <2>1, <2>3, <2>4, GoPlanLaid
  <2>6. Laid(a, F, r, Len(a))
    BY <2>4, PlanLaid
  <2>7. q.files = r.files
    BY <2>5, <2>6, PlanSame
  <2>8. C[Walked(f)] = r.files
    BY <1>1, <2>1, <2>2, <2>3, <2>4 DEF Claims
  <2>9. \A i \in 1..Len(a) : T[f][i] = q.slots[i].at
    <3>1. Fixed(f).slots = q.slots
      BY <1>0, <2>2, <2>4, FixedOnce
    <3> QED
      BY <1>3, <2>1, <2>2, <3>1
  <2>10. PICK n \in Nat : n = Len(a)
    OBVIOUS
  <2>11. ASSUME NEW i \in 1..(n+1) PROVE Takes(content, T, f, i) = Prior(a, q, i)
    <3>1. \A k \in 1..(i-1) : k \in 1..Len(a)
      BY <2>10
    <3>2. \A k \in 1..(i-1) : T[f][k] = q.slots[k].at
      BY <2>9, <3>1
    <3> QED
      BY <2>2, <3>2 DEF Takes, Prior, Moved
  <2>12. q.files = F \cup Prior(a, q, n + 1)
    BY <2>5, <2>10 DEF Laid
  <2>13. C[Walked(f)] = F \cup Takes(content, T, f, n + 1)
    BY <2>7, <2>8, <2>11, <2>12
  <2>14. ASSUME NEW i \in 1..Len(a) PROVE T[f][i] = AimAt(held, a[i], F \cup Takes(content, T, f, i))
    <3>1. Lies(a, F, q, i)
      BY <2>5 DEF Laid
    <3>2. Takes(content, T, f, i) = Prior(a, q, i)
      BY <2>10, <2>11
    <3>3. T[f][i] = q.slots[i].at
      BY <2>9
    <3> QED
      BY <3>1, <3>2, <3>3, FreeHere DEF Lies
  <2> QED
    BY <2>2, <2>3, <2>10, <2>13, <2>14 DEF Before
<1>5. ASSUME NEW f \in File, f \notin Go, NEW i \in 1..Len(content[f])
      PROVE  T[f][i] = AimAt(held, content[f][i], Before(content, T, C, f, i))
  <2>1. f \in Workflow
    BY <1>5 DEF Go
  <2>2. PICK a \in Seq(AnySlot) : a = content[f]
    BY <1>0
  <2>3. MoveLaid(a, MoveSteps(a), Len(a))
    BY MovesLaid
  <2>4. MoveLies(MoveSteps(a), a[i], MoveSteps(a).slots[i])
    BY <2>2, <2>3 DEF MoveLaid
  <2>5. T[f][i] = MoveSteps(a).slots[i].at
    BY <1>0, <1>3, <2>1, <2>2, WorkflowOnce
  <2>6. T[f][i] = AimAt(held, a[i], {})
    BY <2>4, <2>5, FreeHere DEF MoveLies
  <2> QED
    BY <1>5, <2>2, <2>6 DEF Before
<1>6. ASSUME NEW k \in 1..Len(Order)
      PROVE  C[k] = IF Order[k] \in Go THEN C[k-1] \cup Takes(content, T, Order[k], Len(content[Order[k]]) + 1)
                    ELSE C[k-1]
  <2>1. CASE Order[k] \in Go
    <3>1. PICK f \in Go : f = Order[k]
      BY <2>1
    <3>2. Walked(f) = k
      BY <3>1, WalkedIs DEF Go
    <3> QED
      BY <1>4, <3>1, <3>2
  <2>2. CASE Order[k] \notin Go
    BY <1>1, <2>2 DEF Claims
  <2> QED
    BY <2>1, <2>2
<1>7. C \in [0..Len(Order) -> SUBSET Path] /\ C[0] = {}
  BY <1>1 DEF Claims
<1>8. Layout(content, held, T, C)
  BY <1>0, <1>4, <1>5, <1>6, <1>7 DEF Layout
<1> QED
  BY <1>2, <1>8 DEF Placed

\* It is after a step what it is before one.
LEMMA LayoutNext == Typed' /\ Room' => Placed'
BY LayoutExists, PTL

\* Two different texts, where two Go strings may take one name.
Unlike == Differing(content)

\* The judgements move strings apart.
LEMMA TargetsApart == ASSUME Typed, Room, Separate PROVE Diverse(content, Targets)
<1> SUFFICES ASSUME NEW f \in File, NEW g \in File, NEW i \in 1..Len(content[f]), NEW j \in 1..Len(content[g]),
                    Bound(content, Targets, f, i), Bound(content, Targets, g, j), f # g \/ i # j
             PROVE  Targets[f][i] # Targets[g][j]
  BY DEF Diverse
<1>1. Targets[f][i] = Fixed(f).slots[i].at /\ Targets[g][j] = Fixed(g).slots[j].at
  BY DEF Targets
<1>2. Moved(content[f], Fixed(f), i) /\ Moved(content[g], Fixed(g), j)
  BY <1>1 DEF Bound, Moved
<1>3. Shaped
  BY DEF Typed
<1> QED
  BY <1>1, <1>2, <1>3, Spread

\* What the other processes write meanwhile changes no judgement's targets.
LEMMA TargetsStay ==
    ASSUME Typed, Typed', Room, Room', Separate, Unlike,
           Advance(content, held, Targets, content', held')
    PROVE  \A f \in File : \A i \in 1..Len(content[f]) : Targets'[f][i] = Targets[f][i]
<1>1. PICK C : Layout(content, held, Targets, C)
  BY LayoutExists DEF Placed
<1>2. PICK D : Layout(content', held', Targets', D)
  BY LayoutNext DEF Placed
<1>3. Diverse(content, Targets) /\ Differing(content)
  BY TargetsApart DEF Unlike
<1> HIDE DEF Targets
<1> QED
  BY <1>1, <1>2, <1>3, LayoutSame

-----------------------------------------------------------------------------
(* Any number of processes at once.                                         *)

\* A string that is still to move holds a settled text.
Neat == \A f \in File : \A i \in 1..Len(content[f]) :
    content[f][i].at = None => Settle[content[f][i].text] = content[f][i].text

\* What several processes at once need of the files while one of them runs.
Busy == \E p \in Proc : ~Resting(p)
Orderly == Busy => Room /\ Separate /\ Unlike /\ Neat

\* A repair of f sends each string where a judgement would send it now, and creates
\* the file of each that is still to move, where there is nothing or its text.
Agrees(r, f) ==
    /\ r \in AnyRepair /\ Len(r.slots) = Len(content[f])
    /\ \A i \in 1..Len(content[f]) :
          /\ r.slots[i].stem = content[f][i].stem /\ r.slots[i].text = content[f][i].text
          /\ r.slots[i].at = Targets[f][i]
          /\ Bound(content, Targets, f, i) => \E k \in DOMAIN r.created :
                r.created[k] = [path |-> Targets[f][i], text |-> content[f][i].text]
    /\ \A k \in DOMAIN r.created : \E i \in 1..Len(content[f]) :
          /\ Targets[f][i] # None
          /\ r.created[k] = [path |-> Targets[f][i], text |-> content[f][i].text]
          /\ held[Targets[f][i]] \in {None, content[f][i].text}

\* What is still to write of p does; what is written of its current repair stands.
Agreeing(p) == \A f \in File : Due(p, f) => Agrees(repairs[p][f], f)
Exact(p) == \A f \in File : Due(p, f) /\ Walked(f) = next[p] =>
    \A k \in DOMAIN repairs[p][f].created : k <= written[p] =>
       held[repairs[p][f].created[k].path] = repairs[p][f].created[k].text
ProcInv(p) == ~Resting(p) =>
    Agreeing(p) /\ Exact(p) /\ (st[p] = "judging" => next[p] = 1 /\ written[p] = 0)
ManyInv == Typed /\ NamesItsOwnText /\ \A p \in Proc : ProcInv(p)

\* A moved string stays where it is.
LEMMA MovedStays ==
    ASSUME Typed, NEW f \in File, NEW i \in 1..Len(content[f]), content[f][i].at # None
    PROVE  Targets[f][i] = content[f][i].at
<1>1. Targets[f][i] = Fixed(f).slots[i].at
  BY DEF Targets
<1>2. PICK new, created : Turns(content[f], new, created) /\ Fixed(f).slots = new
  <2>1. Shaped
    BY DEF Typed
  <2> QED
    BY <2>1, FixedTurns
<1> QED
  BY <1>1, <1>2 DEF Turns

\* A judgement agrees with itself: with settled texts what lands is the text.
LEMMA JudgementAgrees ==
    ASSUME Typed, Neat, NEW f \in File PROVE Agrees(Fixed(f), f)
<1>0. Shaped
  BY DEF Typed
<1>1. PICK new, created : /\ Turns(content[f], new, created)
                          /\ Fixed(f) = [slots |-> new, created |-> Lands(created)]
  BY <1>0, FixedTurns
<1>2. PICK a \in Seq(AnySlot) : a = content[f]
  BY <1>0 DEF Shaped
<1>3. PICK r : r = Fixed(f)
  OBVIOUS
<1>4. r \in AnyRepair /\ r.slots = new /\ r.created = Lands(created) /\ DOMAIN r.created = DOMAIN created
  BY <1>0, <1>1, <1>3, FixedTurned DEF Lands
<1>5. Len(new) = Len(a) /\ created \in Seq(Created)
  BY <1>1, <1>2 DEF Turns
<1>6. \A i \in 1..Len(a) : Targets[f][i] = new[i].at
  BY <1>1, <1>2 DEF Targets
<1>7. ASSUME NEW k \in DOMAIN created, NEW i \in 1..Len(a), a[i].at = None,
             created[k] = [path |-> new[i].at, text |-> a[i].text]
      PROVE  r.created[k] = [path |-> new[i].at, text |-> a[i].text]
  <2>1. Landed(new[i].at, a[i].text) = a[i].text
    BY <1>2, <1>7 DEF Landed, Neat
  <2>2. r.created[k] = [created[k] EXCEPT !.text = Landed(created[k].path, created[k].text)]
    BY <1>4 DEF Lands
  <2>3. created[k].path = new[i].at /\ created[k].text = a[i].text
    BY <1>7
  <2> QED
    BY <1>7, <2>1, <2>2, <2>3
<1>8. ASSUME NEW i \in 1..Len(a)
      PROVE  /\ new[i].stem = a[i].stem /\ new[i].text = a[i].text
             /\ a[i].at = None /\ new[i].at # None =>
                   /\ \E k \in DOMAIN created : created[k] = [path |-> new[i].at, text |-> a[i].text]
                   /\ held[new[i].at] \in {None, a[i].text}
  BY <1>1, <1>2 DEF Turns, Unheld
<1>9. ASSUME NEW k \in DOMAIN r.created
      PROVE  \E i \in 1..Len(a) :
                /\ new[i].at # None /\ held[new[i].at] \in {None, a[i].text}
                /\ r.created[k] = [path |-> new[i].at, text |-> a[i].text]
  <2>1. PICK i \in 1..Len(a) : /\ Moved(a, [slots |-> new], i)
                               /\ created[k] = [path |-> new[i].at, text |-> a[i].text]
    BY <1>1, <1>2, <1>4 DEF Turns
  <2>2. a[i].at = None /\ new[i].at # None
    BY <2>1 DEF Moved
  <2> QED
    BY <1>4, <1>7, <1>8, <2>1, <2>2
<1>10. ASSUME NEW i \in 1..Len(a), Bound(content, Targets, f, i)
       PROVE  \E k \in DOMAIN r.created : r.created[k] = [path |-> new[i].at, text |-> a[i].text]
  <2>1. a[i].at = None /\ new[i].at # None
    BY <1>2, <1>6, <1>10 DEF Bound
  <2> QED
    BY <1>4, <1>7, <1>8, <2>1
<1> HIDE DEF Targets
<1> QED
  <2>1. \A i \in 1..Len(a) : /\ r.slots[i].stem = a[i].stem /\ r.slots[i].text = a[i].text
                              /\ r.slots[i].at = Targets[f][i]
    BY <1>4, <1>6, <1>8
  <2>2. \A i \in 1..Len(a) : Bound(content, Targets, f, i) => \E k \in DOMAIN r.created :
           r.created[k] = [path |-> Targets[f][i], text |-> a[i].text]
    BY <1>6, <1>10
  <2>3. \A k \in DOMAIN r.created : \E i \in 1..Len(a) :
           /\ Targets[f][i] # None /\ r.created[k] = [path |-> Targets[f][i], text |-> a[i].text]
           /\ held[Targets[f][i]] \in {None, a[i].text}
    BY <1>6, <1>9
  <2>4. Agrees(r, f)
    BY <1>2, <1>4, <1>5, <2>1, <2>2, <2>3 DEF Agrees
  <2> QED
    BY <1>3, <2>4

\* While nothing is written the judgements stay, and so do the repairs that agree.
LEMMA AgreesSame ==
    ASSUME content' = content, held' = held
    PROVE  \A r : \A f \in File : Agrees(r, f) => Agrees(r, f)'
<1>1. Targets' = Targets
  BY FixedSame DEF Targets
<1> HIDE DEF Targets
<1>2. \A f, i : Bound(content, Targets, f, i)' <=> Bound(content, Targets, f, i)
  BY <1>1 DEF Bound
<1> QED
  BY <1>1, <1>2 DEF Agrees

\* Nothing held changes.
Steady == \A x \in Path : held[x] # None => held'[x] = held[x]

\* When strings advance, what is named is held, and nothing held changes.
LEMMA AdvanceKeeps ==
    ASSUME Typed, NamesItsOwnText, Advance(content, held, Targets, content', held'), Typed'
    PROVE  NamesItsOwnText' /\ Steady /\ HeldKept
<1>1. Steady
  BY DEF Advance, Steady
<1>2. HeldKept
  BY <1>1 DEF Steady, HeldKept
<1>3. NamesItsOwnText'
  <2> SUFFICES ASSUME NEW f \in File, NEW s \in Range(content'[f]), s.at # None
               PROVE  held'[s.at] # None /\ Settle[held'[s.at]] = Settle[s.text]
    BY DEF NamesItsOwnText
  <2>0. content[f] \in Seq(AnySlot) /\ content'[f] \in Seq(AnySlot) /\ Len(content'[f]) = Len(content[f])
    BY DEF Advance, Typed, Shaped
  <2>1. PICK i \in 1..Len(content[f]) : s = content'[f][i]
    BY <2>0 DEF Range
  <2>2. s \in AnySlot /\ content[f][i] \in AnySlot
    BY <2>0, <2>1
  <2>3. s.at \in Path /\ s.text = content[f][i].text /\ s.text \in Text /\ s.text # None
    BY <2>1, <2>2, NameAssumption DEF AnySlot, Advance
  <2>4. CASE s.at = content[f][i].at
    <3>1. content[f][i] \in Range(content[f])
      BY <2>0 DEF Range
    <3>2. held[s.at] # None /\ Settle[held[s.at]] = Settle[s.text]
      BY <2>3, <2>4, <3>1 DEF NamesItsOwnText
    <3> QED
      BY <1>1, <2>3, <3>2 DEF Steady
  <2>5. CASE s.at # content[f][i].at
    <3>1. held[s.at] = s.text
      BY <2>1, <2>3, <2>5 DEF Advance
    <3> QED
      BY <1>1, <2>3, <3>1 DEF Steady
  <2> QED
    BY <2>4, <2>5
<1> QED
  BY <1>1, <1>2, <1>3

\* When strings advance, the repairs that agree with the judgements still do.
LEMMA AgreesStay ==
    ASSUME Typed, Typed', NamesItsOwnText, Room, Room', Separate, Unlike,
           Advance(content, held, Targets, content', held')
    PROVE  \A r : \A f \in File : Agrees(r, f) => Agrees(r, f)'
<1> SUFFICES ASSUME NEW r, NEW f \in File, Agrees(r, f) PROVE Agrees(r, f)'
  OBVIOUS
<1>1. PICK T, U : T = Targets /\ U = Targets'
  OBVIOUS
<1>2. \A e \in File : \A i \in 1..Len(content[e]) : U[e][i] = T[e][i]
  BY <1>1, TargetsStay
<1>3. Len(content'[f]) = Len(content[f]) /\ \A i \in 1..Len(content[f]) :
          /\ content'[f][i].stem = content[f][i].stem /\ content'[f][i].text = content[f][i].text
          /\ content'[f][i].at = content[f][i].at \/ Bound(content, T, f, i)
  BY <1>1 DEF Advance
<1>4. \A i \in 1..Len(content[f]) : Bound(content', U, f, i) => Bound(content, T, f, i)
  BY <1>2, <1>3 DEF Bound
<1>5. ASSUME NEW i \in 1..Len(content[f]), T[f][i] # None, held[T[f][i]] \in {None, content[f][i].text}
      PROVE  held'[T[f][i]] \in {None, content[f][i].text}
  <2>1. CASE held'[T[f][i]] = held[T[f][i]]
    BY <1>5, <2>1
  <2>2. CASE held'[T[f][i]] # held[T[f][i]]
    <3>1. T[f][i] \in Path
      <4>1. Fixed(f) \in AnyRepair /\ Len(Fixed(f).slots) = Len(content[f])
        BY FixedTurned DEF Typed, Turned
      <4>2. Fixed(f).slots[i] \in AnySlot
        BY <4>1 DEF AnyRepair
      <4>3. T[f][i] = Fixed(f).slots[i].at
        BY <1>1 DEF Targets
      <4> QED
        BY <1>5, <4>2, <4>3 DEF AnySlot
    <3>2. held[T[f][i]] = None /\ \E e \in File : \E j \in 1..Len(content[e]) :
              Bound(content, T, e, j) /\ T[e][j] = T[f][i] /\ held'[T[f][i]] = content[e][j].text
      BY <1>1, <2>2, <3>1 DEF Advance
    <3>3. PICK e \in File : \E j \in 1..Len(content[e]) :
              Bound(content, T, e, j) /\ T[e][j] = T[f][i] /\ held'[T[f][i]] = content[e][j].text
      BY <3>2
    <3>4. PICK j \in 1..Len(content[e]) :
              Bound(content, T, e, j) /\ T[e][j] = T[f][i] /\ held'[T[f][i]] = content[e][j].text
      BY <3>3
    <3>5. content[f][i].at = None
      <4> SUFFICES ASSUME content[f][i].at # None PROVE FALSE
        OBVIOUS
      <4>1. T[f][i] = content[f][i].at
        BY <1>1, MovedStays
      <4>2. content[f][i] \in Range(content[f])
        BY DEF Typed, Shaped, Range
      <4> QED
        BY <3>2, <4>1, <4>2 DEF NamesItsOwnText
    <3>6. Bound(content, T, f, i)
      BY <1>5, <3>5 DEF Bound
    <3>7. e = f /\ j = i
      BY <1>1, <3>4, <3>6, TargetsApart DEF Diverse
    <3> QED
      BY <3>4, <3>7
  <2> QED
    BY <2>1, <2>2
<1>6. /\ r \in AnyRepair /\ Len(r.slots) = Len(content[f])
      /\ \A i \in 1..Len(content[f]) :
            /\ r.slots[i].stem = content[f][i].stem /\ r.slots[i].text = content[f][i].text
            /\ r.slots[i].at = T[f][i]
            /\ Bound(content, T, f, i) => \E k \in DOMAIN r.created :
                  r.created[k] = [path |-> T[f][i], text |-> content[f][i].text]
      /\ \A k \in DOMAIN r.created : \E i \in 1..Len(content[f]) :
            /\ T[f][i] # None
            /\ r.created[k] = [path |-> T[f][i], text |-> content[f][i].text]
            /\ held[T[f][i]] \in {None, content[f][i].text}
  BY <1>1 DEF Agrees
<1> HIDE DEF Targets
<1>7. ASSUME NEW i \in 1..Len(content'[f])
      PROVE  /\ r.slots[i].stem = content'[f][i].stem /\ r.slots[i].text = content'[f][i].text
             /\ r.slots[i].at = U[f][i]
             /\ Bound(content', U, f, i) => \E k \in DOMAIN r.created :
                   r.created[k] = [path |-> U[f][i], text |-> content'[f][i].text]
  <2>1. i \in 1..Len(content[f]) /\ U[f][i] = T[f][i]
    BY <1>2, <1>3
  <2> QED
    BY <1>3, <1>4, <1>6, <2>1
<1>8. ASSUME NEW k \in DOMAIN r.created
      PROVE  \E i \in 1..Len(content'[f]) :
                /\ U[f][i] # None /\ r.created[k] = [path |-> U[f][i], text |-> content'[f][i].text]
                /\ held'[U[f][i]] \in {None, content'[f][i].text}
  <2>1. PICK i \in 1..Len(content[f]) :
            /\ T[f][i] # None
            /\ r.created[k] = [path |-> T[f][i], text |-> content[f][i].text]
            /\ held[T[f][i]] \in {None, content[f][i].text}
    BY <1>6
  <2>2. held'[T[f][i]] \in {None, content[f][i].text}
    BY <1>5, <2>1
  <2>3. i \in 1..Len(content'[f]) /\ U[f][i] = T[f][i] /\ content'[f][i].text = content[f][i].text
    BY <1>2, <1>3
  <2> QED
    BY <2>1, <2>2, <2>3
<1> QED
  BY <1>1, <1>3, <1>6, <1>7, <1>8 DEF Agrees

\* A new file advances a string.
LEMMA CreatedAdvances ==
    ASSUME Typed, NamesItsOwnText, NEW p \in Proc, Agreeing(p), WriteCreated(p)
    PROVE  /\ Advance(content, held, Targets, content', held')
           /\ \E f \in File, k \in Nat :
                 /\ Walked(f) = next[p] /\ k = written[p] + 1 /\ k \in DOMAIN repairs[p][f].created
                 /\ held'[repairs[p][f].created[k].path] = repairs[p][f].created[k].text
<1>1. PICK f \in File : f = Order[next[p]] /\ Walked(f) = next[p] /\ Current(p) = repairs[p][f] /\ Current(p) \in AnyRepair
  BY CurrentIs DEF WriteCreated
<1>2. next[p] \in Nat /\ written[p] \in Nat /\ held \in [Path -> Text \cup {None}] /\ content' = content
  BY DEF Typed, WriteCreated
<1>3. Due(p, f)
  <2>1. next[p] \in Nat /\ next[p] >= next[p]
    BY <1>2
  <2>2. Current(p) # Unchanged
    BY DEF WriteCreated, Changed
  <2> QED
    BY <1>1, <2>1, <2>2 DEF Due
<1>4. repairs[p][f].created \in Seq(Created) /\ written[p] + 1 \in DOMAIN repairs[p][f].created
  <2>1. repairs[p][f].created \in Seq(Created) /\ written[p] < Len(repairs[p][f].created)
    BY <1>1 DEF WriteCreated, Pending, AnyRepair
  <2> QED
    BY <1>2, <2>1
<1>5. PICK k \in Nat, c \in Created : k = written[p] + 1 /\ c = repairs[p][f].created[k]
  BY <1>2, <1>4
<1>6. held' = [held EXCEPT ![c.path] = c.text] /\ c.path \in Path
  BY <1>1, <1>5 DEF WriteCreated, Created
<1>7. PICK i \in 1..Len(content[f]) :
          /\ Targets[f][i] # None /\ c = [path |-> Targets[f][i], text |-> content[f][i].text]
          /\ held[Targets[f][i]] \in {None, content[f][i].text}
  BY <1>3, <1>4, <1>5 DEF Agreeing, Agrees
<1> HIDE DEF Targets
<1>8. c.path = Targets[f][i] /\ c.text = content[f][i].text
  BY <1>7
<1>9. held'[c.path] = c.text /\ \A x \in Path : x # c.path => held'[x] = held[x]
  BY <1>2, <1>6
<1>10. held[c.path] = None => Bound(content, Targets, f, i)
  <2> SUFFICES ASSUME held[c.path] = None, content[f][i].at # None PROVE FALSE
    BY <1>7 DEF Bound
  <2>1. Targets[f][i] = content[f][i].at
    BY MovedStays
  <2>2. content[f][i] \in Range(content[f])
    BY DEF Typed, Shaped, Range
  <2> QED
    BY <1>8, <2>1, <2>2 DEF NamesItsOwnText
<1>11. \A x \in Path : held'[x] # held[x] =>
          x = c.path /\ held[x] = None /\ Bound(content, Targets, f, i) /\ held'[x] = content[f][i].text
  BY <1>7, <1>8, <1>9, <1>10
<1>12. Advance(content, held, Targets, content', held')
  BY <1>2, <1>8, <1>11 DEF Advance
<1> QED
  BY <1>1, <1>4, <1>5, <1>9, <1>12

\* A file whose new files stand advances its strings.
LEMMA FileAdvances ==
    ASSUME Typed, NEW p \in Proc, Agreeing(p), Exact(p), WriteFile(p)
    PROVE  Advance(content, held, Targets, content', held')
<1>1. PICK f \in File : f = Order[next[p]] /\ Walked(f) = next[p] /\ Current(p) = repairs[p][f] /\ Current(p) \in AnyRepair
  BY CurrentIs DEF WriteFile
<1>2. PICK r \in AnyRepair : r = repairs[p][f]
  BY <1>1
<1>3. next[p] \in Nat /\ written[p] \in Nat /\ held' = held /\ content \in [File -> Seq(AnySlot)]
  BY DEF Typed, Shaped, WriteFile
<1>4. Due(p, f)
  BY <1>1, <1>3 DEF Due, WriteFile, Changed
<1>5. content' = [content EXCEPT ![f] = r.slots]
  BY <1>1, <1>2 DEF WriteFile
<1>6. content'[f] = r.slots /\ \A e \in File : e # f => content'[e] = content[e]
  BY <1>3, <1>5
<1>7. Agrees(r, f)
  BY <1>2, <1>4 DEF Agreeing
<1>8. \A k \in DOMAIN r.created : held[r.created[k].path] = r.created[k].text
  <2>1. r.created \in Seq(Created) /\ ~(written[p] < Len(r.created))
    BY <1>1, <1>2 DEF WriteFile, Ready, Pending, AnyRepair
  <2>2. \A k \in DOMAIN r.created : k <= written[p]
    BY <1>3, <2>1
  <2> QED
    BY <1>1, <1>2, <1>4, <2>2 DEF Exact
<1>9. ASSUME NEW i \in 1..Len(content[f])
      PROVE  /\ r.slots[i].stem = content[f][i].stem /\ r.slots[i].text = content[f][i].text
             /\ r.slots[i].at = content[f][i].at \/
                   (/\ Bound(content, Targets, f, i) /\ r.slots[i].at = Targets[f][i]
                    /\ held[Targets[f][i]] = content[f][i].text)
  <2>1. /\ r.slots[i].stem = content[f][i].stem /\ r.slots[i].text = content[f][i].text
        /\ r.slots[i].at = Targets[f][i]
        /\ Bound(content, Targets, f, i) => \E k \in DOMAIN r.created :
              r.created[k] = [path |-> Targets[f][i], text |-> content[f][i].text]
    BY <1>7 DEF Agrees
  <2>2. CASE Bound(content, Targets, f, i)
    <3>1. PICK k \in DOMAIN r.created : r.created[k] = [path |-> Targets[f][i], text |-> content[f][i].text]
      BY <2>1, <2>2
    <3>2. r.created[k].path = Targets[f][i] /\ r.created[k].text = content[f][i].text
      BY <3>1
    <3> QED
      BY <1>8, <2>1, <2>2, <3>2
  <2>3. CASE ~Bound(content, Targets, f, i)
    <3>1. CASE content[f][i].at # None
      BY <2>1, <3>1, MovedStays
    <3>2. CASE content[f][i].at = None
      BY <2>1, <2>3, <3>2 DEF Bound
    <3> QED
      BY <2>1, <3>1, <3>2
  <2> QED
    BY <2>2, <2>3
<1>10. Len(r.slots) = Len(content[f])
  BY <1>7 DEF Agrees
<1> HIDE DEF Targets
<1>11. ASSUME NEW e \in File
       PROVE  Len(content'[e]) = Len(content[e]) /\ \A i \in 1..Len(content[e]) :
                 /\ content'[e][i].stem = content[e][i].stem /\ content'[e][i].text = content[e][i].text
                 /\ content'[e][i].at = content[e][i].at \/
                       (/\ Bound(content, Targets, e, i) /\ content'[e][i].at = Targets[e][i]
                        /\ held[Targets[e][i]] = content[e][i].text)
  <2>1. CASE e = f
    BY <1>6, <1>9, <1>10, <2>1
  <2>2. CASE e # f
    BY <1>6, <2>2
  <2> QED
    BY <2>1, <2>2
<1>12. \A x \in Path : held'[x] = held[x]
  BY <1>3
<1> QED
  BY <1>11, <1>12 DEF Advance

\* A process that takes no step minds no step of another.
LEMMA OtherKeeps ==
    ASSUME Typed, NEW q \in Proc, ProcInv(q), ~Resting(q), st'[q] = st[q] \/ st'[q] = "merging",
           repairs'[q] = repairs[q], next'[q] = next[q], written'[q] = written[q], Steady,
           \A r : \A f \in File : Agrees(r, f) => Agrees(r, f)'
    PROVE  ProcInv(q)'
<1>1. \A f : Due(q, f)' <=> Due(q, f)
  BY DEF Due
<1>2. Agreeing(q) /\ Exact(q) /\ (st[q] = "judging" => next[q] = 1 /\ written[q] = 0)
  BY DEF ProcInv
<1>3. Agreeing(q)'
  <2> SUFFICES ASSUME NEW f \in File, Due(q, f)' PROVE Agrees(repairs[q][f], f)'
    BY DEF Agreeing
  <2>1. PICK r : r = repairs[q][f]
    OBVIOUS
  <2>2. Agrees(r, f)
    BY <1>1, <1>2, <2>1 DEF Agreeing
  <2>3. Agrees(r, f)'
    BY <2>2
  <2> QED
    BY <2>1, <2>3
<1>4. Exact(q)'
  <2> SUFFICES ASSUME NEW f \in File, Due(q, f), Walked(f) = next[q],
                      NEW k \in DOMAIN repairs[q][f].created, k <= written[q]
               PROVE  held'[repairs[q][f].created[k].path] = repairs[q][f].created[k].text
    BY <1>1 DEF Exact
  <2>1. held[repairs[q][f].created[k].path] = repairs[q][f].created[k].text
    BY <1>2 DEF Exact
  <2>2. repairs[q][f].created[k] \in Created
    BY DEF Typed, AnyRepair
  <2>3. repairs[q][f].created[k].path \in Path /\ repairs[q][f].created[k].text # None
    BY <2>2, NameAssumption DEF Created
  <2> QED
    BY <2>1, <2>3 DEF Steady
<1> QED
  BY <1>2, <1>3, <1>4 DEF ProcInv

\* A process goes on to its next file.
LEMMA NextKeeps ==
    ASSUME Typed, NEW p \in Proc, Merging(p), NextFile(p), Agreeing(p),
           \A r : \A f \in File : Agrees(r, f) => Agrees(r, f)'
    PROVE  ProcInv(p)'
<1>1. \A f \in File : Due(p, f)' => Due(p, f) /\ repairs'[p][f] = repairs[p][f] /\ written'[p] = 0
  BY NextDue
<1>2. Agreeing(p)'
  <2> SUFFICES ASSUME NEW f \in File, Due(p, f)' PROVE Agrees(repairs[p][f], f)'
    BY DEF Agreeing
  <2>1. PICK r : r = repairs[p][f] /\ r = repairs'[p][f]
    BY <1>1
  <2>2. Agrees(r, f)
    BY <1>1, <2>1 DEF Agreeing
  <2>3. Agrees(r, f)'
    BY <2>2
  <2> QED
    BY <2>1, <2>3
<1>3. Exact(p)'
  <2> SUFFICES ASSUME NEW f \in File, Due(p, f)', NEW k \in DOMAIN repairs'[p][f].created PROVE ~(k <= written'[p])
    BY DEF Exact
  <2>1. written'[p] = 0 /\ repairs'[p][f] = repairs[p][f]
    BY <1>1
  <2>2. repairs[p][f].created \in Seq(Created)
    BY DEF Typed, AnyRepair
  <2>3. k \in Nat \ {0}
    BY <2>1, <2>2
  <2> QED
    BY <2>1, <2>3
<1>4. st'[p] # "judging"
  BY DEF Merging, NextFile
<1> QED
  BY <1>2, <1>3, <1>4 DEF ProcInv

\* A scenario starts with nobody running.
LEMMA ManyInit == Init => ManyInv
<1> SUFFICES ASSUME Init PROVE ManyInv
  OBVIOUS
<1>1. Typed /\ NamesItsOwnText
  BY SafeInit DEF SafeInv
<1>2. \A p \in Proc : Resting(p)
  BY DEF Init, Resting
<1> QED
  BY <1>1, <1>2 DEF ManyInv, ProcInv

\* Every step of every process keeps the invariant and what is held.
LEMMA ManyStep ==
    ASSUME ManyInv, Orderly, Orderly', [Next]_vars
    PROVE  ManyInv' /\ HeldKept
<1> DEFINE Good == NamesItsOwnText' /\ HeldKept /\ \A q \in Proc : ProcInv(q)'
           Stay == \A r : \A f \in File : Agrees(r, f) => Agrees(r, f)'
           Idle(q) == /\ st'[q] = st[q] \/ (st[q] = "judging" /\ st'[q] = "merging")
                      /\ repairs'[q] = repairs[q] /\ next'[q] = next[q] /\ written'[q] = written[q]
<1>0. Typed /\ NamesItsOwnText /\ (\A q \in Proc : ProcInv(q)) /\ Typed'
  BY TypedStep DEF ManyInv
<1>1. ASSUME content' = content, held' = held PROVE NamesItsOwnText' /\ HeldKept /\ Steady /\ Stay
  <2>1. Stay
    BY <1>1, AgreesSame
  <2> QED
    BY <1>0, <1>1, <2>1 DEF NamesItsOwnText, HeldKept, Steady
<1>2. ASSUME NEW q \in Proc, Stay, Steady, Idle(q) PROVE ProcInv(q)'
  <2>1. CASE Resting(q)
    BY <1>2, <2>1 DEF ProcInv, Resting
  <2>2. CASE ~Resting(q)
    BY <1>0, <1>2, <2>2, OtherKeeps
  <2> QED
    BY <2>1, <2>2
<1> HIDE DEF Stay
<1>3. ASSUME NEW p \in Proc, Start(p) PROVE Good
  <2>1. /\ content' = content /\ held' = held
        /\ st' = [st EXCEPT ![p] = "judging"] /\ next' = [next EXCEPT ![p] = 1] /\ written' = [written EXCEPT ![p] = 0]
        /\ repairs' = [repairs EXCEPT ![p] = [f \in File |-> Unchanged]]
    BY <1>3 DEF Start, disk
  <2>2. \A q \in Proc : q # p => Idle(q)
    BY <1>0, <2>1 DEF Typed
  <2>3. next'[p] = 1 /\ written'[p] = 0 /\ \A f \in File : repairs'[p][f] = Unchanged
    BY <1>0, <2>1 DEF Typed
  <2>4. \A f \in File : ~Due(p, f)'
    BY <2>3 DEF Due
  <2>5. ProcInv(p)'
    BY <2>3, <2>4 DEF ProcInv, Agreeing, Exact
  <2> QED
    BY <1>1, <1>2, <2>1, <2>2, <2>5
<1>4. ASSUME NEW p \in Proc, NEW f \in File, Judge(p, f) PROVE Good
  <2>1. /\ content' = content /\ held' = held /\ st' = st /\ next' = next /\ written' = written
        /\ st[p] = "judging"
    BY <1>4 DEF Judge, disk
  <2>2. PICK r : r \in {Unchanged, Fixed(f)} /\ repairs' = [repairs EXCEPT ![p][f] = r]
    BY <1>4 DEF Judge
  <2>3. \A g \in File : repairs'[p][g] = IF g = f THEN r ELSE repairs[p][g]
    BY <1>0, <2>2 DEF Typed
  <2>4. \A q \in Proc : q # p => Idle(q)
    BY <1>0, <2>1, <2>2 DEF Typed
  <2>5. ~Resting(p) /\ ~Resting(p)'
    BY <2>1 DEF Resting
  <2>6. Neat
    BY <2>5 DEF Orderly, Busy
  <2>7. Agreeing(p) /\ next[p] = 1 /\ written[p] = 0
    BY <1>0, <2>1, <2>5 DEF ProcInv
  <2>8. Stay
    BY <1>1, <2>1
  <2>9. Agreeing(p)'
    <3> SUFFICES ASSUME NEW g \in File, Due(p, g)' PROVE Agrees(repairs[p][g], g)'
      BY DEF Agreeing
    <3>1. PICK x : x = repairs'[p][g] /\ x # Unchanged
      BY DEF Due
    <3>2. Agrees(x, g)
      <4>1. CASE g = f
        <5>1. x = Fixed(f)
          BY <2>2, <2>3, <3>1, <4>1
        <5> QED
          BY <1>0, <2>6, <4>1, <5>1, JudgementAgrees
      <4>2. CASE g # f
        <5>1. x = repairs[p][g]
          BY <2>3, <3>1, <4>2
        <5>2. Due(p, g)
          BY <2>1, <3>1, <5>1 DEF Due
        <5> QED
          BY <2>7, <5>1, <5>2 DEF Agreeing
      <4> QED
        BY <4>1, <4>2
    <3>3. Agrees(x, g)'
      BY <2>8, <3>2 DEF Stay
    <3> QED
      BY <3>1, <3>3
  <2>10. Exact(p)'
    <3>1. ASSUME NEW g \in File, NEW k \in DOMAIN repairs'[p][g].created PROVE ~(k <= written'[p])
      <4>1. repairs'[p][g].created \in Seq(Created) /\ written'[p] = 0
        BY <1>0, <2>1, <2>7 DEF Typed, AnyRepair
      <4> QED
        BY <4>1
    <3> QED
      BY <3>1 DEF Exact
  <2>11. ProcInv(p)'
    BY <2>1, <2>7, <2>9, <2>10 DEF ProcInv
  <2> QED
    BY <1>1, <1>2, <2>1, <2>4, <2>11
<1>5. ASSUME NEW p \in Proc, Merge(p) PROVE Good
  <2>1. /\ content' = content /\ held' = held /\ next' = next /\ written' = written /\ repairs' = repairs
        /\ st[p] = "judging" /\ st' = [st EXCEPT ![p] = "merging"]
    BY <1>5 DEF Merge, disk
  <2>2. \A q \in Proc : Idle(q)
    BY <1>0, <2>1 DEF Typed
  <2> QED
    BY <1>1, <1>2, <2>1, <2>2
<1>6. ASSUME NEW p \in Proc, NextFile(p) PROVE \A q \in Proc : q # p => Idle(q)
  BY <1>0, <1>6 DEF NextFile, Typed
<1>7. ASSUME NEW p \in Proc, Merging(p) PROVE Agreeing(p) /\ Exact(p) /\ ~Resting(p)
  BY <1>0, <1>7 DEF Merging, ProcInv, Resting
<1>8. ASSUME NEW p \in Proc, Skip(p) \/ WriteFails(p) PROVE Good
  <2>1. Merging(p) /\ NextFile(p) /\ content' = content /\ held' = held
    BY <1>8 DEF Skip, WriteFails, disk
  <2>2. Stay
    BY <1>1, <2>1
  <2>3. Agreeing(p)
    BY <1>7, <2>1
  <2>4. ProcInv(p)'
    BY <1>0, <2>1, <2>2, <2>3, NextKeeps DEF Stay
  <2> QED
    BY <1>1, <1>2, <1>6, <2>1, <2>4
<1>9. ASSUME NEW p \in Proc, ~Resting(p), st' = st, Advance(content, held, Targets, content', held')
      PROVE  NamesItsOwnText' /\ HeldKept /\ Steady /\ Stay
  <2>1. ~Resting(p)'
    BY <1>9 DEF Resting
  <2>2. Room /\ Separate /\ Unlike /\ Room'
    BY <1>9, <2>1 DEF Orderly, Busy
  <2>3. Stay
    BY <1>0, <1>9, <2>2, AgreesStay DEF Stay
  <2> QED
    BY <1>0, <1>9, <2>3, AdvanceKeeps
<1>10. ASSUME NEW p \in Proc, WriteCreated(p) PROVE Good
  <2>1. Merging(p) /\ st' = st /\ repairs' = repairs /\ next' = next /\ written' = [written EXCEPT ![p] = @ + 1]
    BY <1>10 DEF WriteCreated
  <2>2. Agreeing(p) /\ Exact(p) /\ ~Resting(p)
    BY <1>7, <2>1
  <2>3. /\ Advance(content, held, Targets, content', held')
        /\ \E f \in File, k \in Nat :
              /\ Walked(f) = next[p] /\ k = written[p] + 1 /\ k \in DOMAIN repairs[p][f].created
              /\ held'[repairs[p][f].created[k].path] = repairs[p][f].created[k].text
    BY <1>0, <1>10, <2>2, CreatedAdvances
  <2>4. NamesItsOwnText' /\ HeldKept /\ Steady /\ Stay
    BY <1>9, <2>1, <2>2, <2>3
  <2>5. \A q \in Proc : q # p => Idle(q)
    BY <1>0, <2>1 DEF Typed
  <2>6. Agreeing(p)'
    <3> SUFFICES ASSUME NEW f \in File, Due(p, f)' PROVE Agrees(repairs[p][f], f)'
      BY DEF Agreeing
    <3>1. PICK r : r = repairs[p][f] /\ r = repairs'[p][f]
      BY <2>1
    <3>2. Due(p, f)
      BY <2>1 DEF Due
    <3>3. Agrees(r, f)
      BY <2>2, <3>1, <3>2 DEF Agreeing
    <3>4. Agrees(r, f)'
      BY <2>4, <3>3 DEF Stay
    <3> QED
      BY <3>1, <3>4
  <2>7. PICK f \in File, k \in Nat :
              /\ Walked(f) = next[p] /\ k = written[p] + 1 /\ k \in DOMAIN repairs[p][f].created
              /\ held'[repairs[p][f].created[k].path] = repairs[p][f].created[k].text
    BY <2>3
  <2>8. Exact(p)'
    <3> SUFFICES ASSUME NEW g \in File, Due(p, g), Walked(g) = next[p],
                        NEW l \in DOMAIN repairs[p][g].created, l <= written[p] + 1
                 PROVE  held'[repairs[p][g].created[l].path] = repairs[p][g].created[l].text
      BY <1>0, <2>1 DEF Exact, Due, Typed
    <3>1. g = f
      BY <2>7, WalkedIs
    <3>2. repairs[p][g].created \in Seq(Created) /\ written[p] \in Nat
      BY <1>0 DEF Typed, AnyRepair
    <3>3. CASE l = k
      BY <2>7, <3>1, <3>3
    <3>4. CASE l # k
      <4>1. l <= written[p]
        <5>1. l \in Nat
          BY <3>2
        <5> QED
          BY <2>7, <3>2, <3>4, <5>1
      <4>2. PICK d \in Created : d = repairs[p][g].created[l]
        BY <3>2
      <4>3. held[d.path] = d.text
        BY <2>2, <4>1, <4>2 DEF Exact
      <4>4. d.path \in Path /\ d.text # None
        BY NameAssumption DEF Created
      <4> QED
        BY <2>4, <4>2, <4>3, <4>4 DEF Steady
    <3> QED
      BY <3>3, <3>4
  <2>9. ProcInv(p)'
    BY <2>1, <2>6, <2>8 DEF ProcInv, Merging
  <2> QED
    BY <1>2, <2>4, <2>5, <2>9
<1>11. ASSUME NEW p \in Proc, WriteFile(p) PROVE Good
  <2>1. Merging(p) /\ NextFile(p) /\ st' = st
    BY <1>11 DEF WriteFile, NextFile
  <2>2. Agreeing(p) /\ Exact(p) /\ ~Resting(p)
    BY <1>7, <2>1
  <2>3. Advance(content, held, Targets, content', held')
    BY <1>0, <1>11, <2>2, FileAdvances
  <2>4. NamesItsOwnText' /\ HeldKept /\ Steady /\ Stay
    BY <1>9, <2>1, <2>2, <2>3
  <2>5. ProcInv(p)'
    BY <1>0, <2>1, <2>2, <2>4, NextKeeps DEF Stay
  <2> QED
    BY <1>2, <1>6, <2>1, <2>4, <2>5
<1>12. ASSUME NEW p \in Proc, Finish(p) \/ Crash(p) PROVE Good
  <2>1. /\ content' = content /\ held' = held /\ repairs' = repairs /\ next' = next /\ written' = written
        /\ \E x \in {"idle", "done"} : st' = [st EXCEPT ![p] = x]
    BY <1>12 DEF Finish, Crash, disk
  <2>2. st'[p] \in {"idle", "done"} /\ \A q \in Proc : q # p => Idle(q)
    BY <1>0, <2>1 DEF Typed
  <2>3. ProcInv(p)'
    BY <2>2 DEF ProcInv, Resting
  <2> QED
    BY <1>1, <1>2, <2>1, <2>2, <2>3
<1>13. ASSUME NEW f \in File, Author(f) PROVE Good
  <2>1. NamesItsOwnText' /\ \A q \in Proc : st'[q] = "idle"
    BY <1>0, <1>13, AuthorSafe
  <2>2. held' = held
    BY <1>13 DEF Author
  <2> QED
    BY <2>1, <2>2 DEF HeldKept, ProcInv, Resting
<1>14. ASSUME UNCHANGED vars PROVE Good
  <2>1. /\ content' = content /\ held' = held /\ st' = st /\ next' = next /\ written' = written
        /\ repairs' = repairs
    BY <1>14 DEF vars, disk, run
  <2>2. \A q \in Proc : Idle(q)
    BY <2>1
  <2> QED
    BY <1>1, <1>2, <2>1, <2>2
<1>15. Good
  BY <1>3, <1>4, <1>5, <1>8, <1>10, <1>11, <1>12, <1>13, <1>14 DEF Next
<1> QED
  BY <1>0, <1>15 DEF ManyInv

\* Any number of processes may repair a tree at once, be killed or fail in between:
\* what a file names holds that file's own text, as long as each package has room
\* for its strings, a workflow's names are its own, Go strings that may take one name
\* hold different texts, and the texts are settled (goembed/repair.go's claim, its
\* unheld and fix.go's order of writing need no lock between the processes then).
THEOREM NamesItsOwnTextTogether == Spec /\ []Orderly => []NamesItsOwnText
<1>1. Init => ManyInv
  BY ManyInit
<1>2. ManyInv /\ Orderly /\ Orderly' /\ [Next]_vars => ManyInv'
  BY ManyStep
<1>3. ManyInv => NamesItsOwnText
  BY DEF ManyInv
<1> QED
  BY <1>1, <1>2, <1>3, PTL DEF Spec

\* Under the same conditions no step of any of them writes another text over a file
\* that stands there (unheld, goembed/repair.go).
THEOREM HeldStaysTogether == Spec /\ []Orderly => HeldStays
<1>1. Init => ManyInv
  BY ManyInit
<1>2. ManyInv /\ Orderly /\ Orderly' /\ [Next]_vars =>
         ManyInv' /\ [\A p \in Path : held[p] # None => held'[p] # None /\ Settle[held'[p]] = Settle[held[p]]]_vars
  BY ManyStep DEF HeldKept
<1> QED
  BY <1>1, <1>2, PTL DEF Spec, HeldStays
=============================================================================
