----------------------------- MODULE MCEditGate -----------------------------
(***************************************************************************)
(* Small calls of edit.Gate over a four byte source: lists of edits that   *)
(* insert, replace, delete, overlap, abut, leave the scope or the source;  *)
(* disjoint edits under every way a parser can couple two pairs of them.   *)
(***************************************************************************)
EXTENDS EditGate

E(from, to, text) == [start |-> from, end |-> to, text |-> text]

MCByte == {"a", "b", "c", "d", "x", "y"}
Src == << "a", "b", "c", "d" >>

\* Triage inputs: a pool from which lists of up to three edits are drawn.
Pool == {E(1, 1, <<"x">>), E(1, 2, <<"x">>), E(1, 3, << >>), E(2, 3, <<"y", "y">>),
         E(3, 3, <<"y">>), E(0, 1, << >>), E(2, 5, <<"x">>), E(3, 2, <<"x">>), E(-1, 1, << >>)}
Lists == {<< >>} \cup [1..1 -> Pool] \cup [1..2 -> Pool] \cup [1..3 -> Pool]
Scopes == {Whole, Within(1, 3), Nowhere}

\* Bisection inputs: disjoint edits, the parser's verdict a pair of couplings.
Row == << E(0, 1, <<"x">>), E(1, 1, <<"y">>), E(1, 2, << >>), E(2, 4, <<"y", "x">>), E(4, 4, <<"x">>) >>

\* A coupling [with, without] spoils a text that carries with and lacks without.
Spoils(c, S) == c.with \subseteq S /\ (c.without = {} \/ c.without \cap S = {})
Couplings(n) == {c \in [with : SUBSET (1..n), without : SUBSET (1..n)] :
                    /\ c.with # {} /\ Cardinality(c.with) <= 2
                    /\ Cardinality(c.without) <= 1 /\ c.with \cap c.without = {}}

Sub(es, S) == [k \in 1..Cardinality(S) |->
                  es[CHOOSE i \in S : Cardinality({j \in S : j <= i}) = k]]
GoodTexts(es, cs) ==
    {Splice(Src, Sub(es, S)) : S \in {T \in SUBSET DOMAIN es : \A c \in cs : ~Spoils(c, T)}}

Calls(edits, scope, barred, good) ==
    [src |-> Src, edits |-> edits, scope |-> scope, barred |-> barred, good |-> good]

TriageInputs ==
    {Calls(es, s, b, g) : es \in Lists, s \in Scopes,
        b \in {{}, {E(1, 2, <<"x">>)}},
        g \in {{}, {<<"a", "x", "b", "c", "d">>, <<"a", "x", "b", "y", "y", "d">>}}}

SettleInputs ==
    {Calls(SubSeq(Row, 1, n), s, {}, GoodTexts(SubSeq(Row, 1, n), {c1, c2})) :
        n \in 3..4, s \in {Whole, Within(1, 4)}, c1 \in Couplings(4), c2 \in Couplings(4)}
    \cup
    {Calls(Row, Whole, {}, GoodTexts(Row, {[with |-> {b}, without |-> {}] : b \in Bad})) :
        Bad \in SUBSET (1..5)}

MCInputs == TriageInputs \cup SettleInputs
=============================================================================
