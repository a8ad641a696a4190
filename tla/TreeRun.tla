------------------------------- MODULE TreeRun -------------------------------
(***************************************************************************)
(* A repair that writes files beside the one it repairs: treeRun (tree.go) *)
(* and FixFileWith (fixfile.go) over the two fixers that create files.     *)
(* goembed moves a Go string that holds another language into a file the   *)
(* string's variable embeds; workflow/extract.go moves a run: script that  *)
(* holds a test into a script the step runs.                               *)
(*                                                                         *)
(* A run judges every file before it writes one.  A name is free when the  *)
(* disk holds nothing there or the same text; the Go fixer also replays    *)
(* the plans of the package's earlier files, the workflow fixer does not.  *)
(*                                                                         *)
(* A file is the sequence of its hoistable strings.  One judgement is one  *)
(* step: nothing of its own run writes while it lasts, and another run's   *)
(* write is taken to fall before or after it.                              *)
(***************************************************************************)
EXTENDS Integers, Sequences, FiniteSets, SequencesExt

CONSTANTS
    Order,              (* the walked files, in the walk's order             *)
    Workflow,           (* those that are workflows; the others are Go files *)
    Exempt,             (* files whose repair never lands: generated ones,   *)
                        (* fixtures with slopfix-expect notes                *)
    Stem, Path, Text, Ident, None,
    Name,               (* Name[s, n] is the path of stem s with suffix n    *)
    VarName,            (* VarName[s, n] is its variable with suffix n       *)
    Tries,              (* the suffixes tried, 100 in the code               *)
    VarTries,           (* suffixes a variable may need, bounded by nothing  *)
    Fixture,            (* paths under testdata                              *)
    Settle,             (* what every rule makes of the text of a new file   *)
    FixRounds,          (* 4 in the code                                     *)
    Proc,               (* slopfix processes                                 *)
    Scenarios,          (* what a behaviour starts from                      *)
    MaxRuns, MaxFaults, MaxAuthored    (* bounds                             *)

File == Range(Order)
Go == File \ Workflow

\* A string: what names it, the declaration that holds it alone or the variable
\* it was moved to, and the file it was moved to.
Slot == [stem : Stem, text : Text, var : Ident \cup {None}, at : Path \cup {None}]
Created == [path : Path, text : Text]
Repair == [slots : Seq(Slot), created : Seq(Created)]
Unchanged == [slots |-> << >>, created |-> << >>]

ASSUME SettleAssumption ==
    /\ Settle \in [Text -> Text] /\ \A t \in Text : Settle[Settle[t]] = Settle[t]
ASSUME NameAssumption ==
    /\ Name \in [Stem \X (1..Tries) -> Path] /\ None \notin Path \cup Text \cup Ident
    /\ VarName \in [Stem \X (1..VarTries) -> Ident]
    /\ {Tries, VarTries, FixRounds} \subseteq Nat \ {0}
    /\ Order \in Seq(File) /\ IsInjective(Order) /\ {MaxRuns, MaxFaults, MaxAuthored} \subseteq Nat
\* What is moved when a behaviour starts has its file; what an author adds is not
\* moved yet.
ASSUME ScenarioAssumption == \A s \in Scenarios :
    /\ s.content \in [File -> Seq(Slot)] /\ s.held \in [Path -> Text \cup {None}]
    /\ s.procs \subseteq Proc /\ s.adds \in [File -> SUBSET Slot]
    /\ \A f \in File : \A t \in s.adds[f] : t.at = None
    /\ \A f \in File : \A t \in Range(s.content[f]) :
          t.at # None => s.held[t.at] # None /\ Settle[s.held[t.at]] = Settle[t.text]

VARIABLES
    content,        \* the walked files on disk
    held,           \* the other files on disk
    procs, adds,    \* of the scenario: who may run, what an author may add
    st,             \* per process: idle, judging, merging, done
    judged,         \* the files judged so far
    repairs,        \* what the judgements answered
    next,           \* the merge's place in Order
    written,        \* how many files of the current repair are written
    faulted,        \* a write of this run failed
    whole,          \* the run walks every file
    runs, faults, authored,
    made            \* history: the paths a run created

scenario == << procs, adds >>
disk == << content, held >>
run == << st, judged, repairs, next, written, faulted, whole >>
vars == << disk, scenario, run, runs, faults, authored, made >>

-----------------------------------------------------------------------------
(* Planning one file against the disk.                                      *)

Least(S) == CHOOSE n \in S : \A m \in S : n <= m

\* A new file answers to every rule, so it lands settled, but a fixture does not.
Landed(path, text) == IF path \in Fixture THEN text ELSE Settle[text]

\* Mutant: whatever is there is written over.
Unheld_Any(path, text) == TRUE

\* unheld
Unheld(path, text) == held[path] \in {None, text}

\* place: the suffixes that are neither claimed nor held.
Free(s, claimed) == {n \in 1..Tries : /\ Name[<< s.stem, n >>] \notin claimed
                                      /\ Unheld(Name[<< s.stem, n >>], s.text)}
Place(s, claimed) == Name[<< s.stem, Least(Free(s, claimed)) >>]

\* A variable no identifier of the package and no earlier move takes.
NewVar(s, names) ==
    IF s.var # None THEN s.var
    ELSE VarName[<< s.stem, Least({n \in 1..VarTries : VarName[<< s.stem, n >>] \notin names}) >>]

\* planWith's step: a string that has a place moves there.
Hoist(p, s) ==
    IF s.at # None \/ Free(s, p.files) = {}
    THEN [p EXCEPT !.slots = Append(@, s)]
    ELSE LET path == Place(s, p.files)
             var == NewVar(s, p.names)
         IN  [slots |-> Append(p.slots, [s EXCEPT !.at = path, !.var = var]),
              created |-> Append(p.created, [path |-> path, text |-> s.text]),
              names |-> p.names \cup {var}, files |-> p.files \cup {path}]
PlanWith(slots, names, files) ==
    LET plan[n \in 0..Len(slots)] ==
            IF n = 0 THEN [slots |-> << >>, created |-> << >>, names |-> names, files |-> files]
            ELSE Hoist(plan[n-1], slots[n])
    IN  plan[Len(slots)]

Vars(slots) == {s.var : s \in Range(slots)} \ {None}

\* taken: the identifiers of the package's files.
Taken(f, slots) == Vars(slots) \cup UNION {Vars(content[g]) : g \in Go \ {f}}

Walked(f) == CHOOSE i \in DOMAIN Order : Order[i] = f

\* claimEarlier: the plans of the package's earlier files, as the disk has them.
Claim(f, names) ==
    LET claim[i \in 0..Len(Order)] ==
            IF i = 0 THEN PlanWith(<< >>, names, {})
            ELSE LET before == claim[i-1]
                 IN  IF Order[i] \in Go THEN PlanWith(content[Order[i]], before.names, before.files)
                     ELSE before
    IN  claim[Walked(f) - 1]

\* Mutant: what the replay of the earlier files creates is created too.
GoPlan_ClaimCreates(f, slots) ==
    LET claim == Claim(f, Taken(f, slots))
        own == PlanWith(slots, claim.names, claim.files)
    IN  [own EXCEPT !.created = claim.created \o @]

\* planFor
GoPlan(f, slots) ==
    LET claim == Claim(f, Taken(f, slots))
    IN  PlanWith(slots, claim.names, claim.files)

\* extractTests: a step moves to the first name its own text may take.
MoveStep(p, s) ==
    IF s.at # None \/ Free(s, {}) = {}
    THEN [p EXCEPT !.slots = Append(@, s)]
    ELSE [p EXCEPT !.slots = Append(@, [s EXCEPT !.at = Place(s, {})]),
                   !.created = Append(@, [path |-> Place(s, {}), text |-> s.text])]

MoveSteps(slots) ==
    LET moved[n \in 0..Len(slots)] ==
            IF n = 0 THEN Unchanged ELSE MoveStep(moved[n-1], slots[n])
    IN  moved[Len(slots)]

Round(f, p) ==
    LET q == IF f \in Workflow THEN MoveSteps(p.slots) ELSE GoPlan(f, p.slots)
    IN  [slots |-> q.slots, created |-> p.created \o q.created]

\* fixText: the passes run until the text holds; each new file is settled.
Pass(f, p) ==
    IF p.holds THEN p
    ELSE LET q == Round(f, p)
         IN  [slots |-> q.slots, created |-> q.created, holds |-> q.slots = p.slots]
Fixed(f) ==
    LET pass[n \in 0..FixRounds] ==
            IF n = 0 THEN [slots |-> content[f], created |-> << >>, holds |-> FALSE]
            ELSE Pass(f, pass[n-1])
        p == pass[FixRounds]
    IN  [slots |-> p.slots,
         created |-> [i \in DOMAIN p.created |->
                         [p.created[i] EXCEPT !.text = Landed(p.created[i].path, @)]]]

-----------------------------------------------------------------------------
(* The steps of a run.                                                      *)

Init ==
    /\ \E s \in Scenarios : content = s.content /\ held = s.held /\ procs = s.procs /\ adds = s.adds
    /\ st = [p \in Proc |-> "idle"]
    /\ judged = [p \in Proc |-> {}]
    /\ repairs = [p \in Proc |-> [f \in File |-> Unchanged]]
    /\ next = [p \in Proc |-> 1] /\ written = [p \in Proc |-> 0]
    /\ faulted = [p \in Proc |-> FALSE] /\ whole = [p \in Proc |-> FALSE]
    /\ runs = 0 /\ faults = 0 /\ authored = 0 /\ made = {}

Resting(p) == st[p] \in {"idle", "done"}

\* A tree run, or the repair of one file: the files left out count as judged.
Start(p) ==
    /\ p \in procs /\ Resting(p) /\ runs < MaxRuns
    /\ \E some \in {File} \cup {{f} : f \in File} :
           /\ judged' = [judged EXCEPT ![p] = File \ some]
           /\ whole' = [whole EXCEPT ![p] = (some = File)]
    /\ st' = [st EXCEPT ![p] = "judging"]
    /\ repairs' = [repairs EXCEPT ![p] = [f \in File |-> Unchanged]]
    /\ next' = [next EXCEPT ![p] = 1] /\ written' = [written EXCEPT ![p] = 0]
    /\ faulted' = [faulted EXCEPT ![p] = FALSE]
    /\ runs' = runs + 1
    /\ UNCHANGED << disk, scenario, faults, authored, made >>

\* judgeFile, on whichever worker takes the file.
Judge(p, f) ==
    /\ st[p] = "judging" /\ f \notin judged[p]
    /\ judged' = [judged EXCEPT ![p] = @ \cup {f}]
    /\ LET fixed == Fixed(f)
       IN  repairs' = [repairs EXCEPT ![p][f] =
               IF f \in Exempt \/ fixed.slots = content[f] THEN Unchanged ELSE fixed]
    /\ UNCHANGED << disk, scenario, st, next, written, faulted, whole, runs, faults, authored, made >>

\* Mutant: the merge does not wait for the workers.
Merge_Early(p) ==
    /\ st[p] = "judging"
    /\ st' = [st EXCEPT ![p] = "merging"]
    /\ UNCHANGED << disk, scenario, judged, repairs, next, written, faulted, whole, runs, faults, authored, made >>

\* wg.Wait: the merge begins when every file is judged.
Merge(p) ==
    /\ st[p] = "judging" /\ judged[p] = File
    /\ st' = [st EXCEPT ![p] = "merging"]
    /\ UNCHANGED << disk, scenario, judged, repairs, next, written, faulted, whole, runs, faults, authored, made >>

Merging(p) == st[p] = "merging" /\ next[p] <= Len(Order)
Current(p) == repairs[p][Order[next[p]]]
Changed(p) == Current(p) # Unchanged
Pending(p) == written[p] < Len(Current(p).created)

NextFile(p) ==
    /\ next' = [next EXCEPT ![p] = @ + 1] /\ written' = [written EXCEPT ![p] = 0]
    /\ UNCHANGED << scenario, st, judged, repairs, whole, runs, authored, made >>

Skip(p) == /\ Merging(p) /\ ~Changed(p) /\ NextFile(p)
           /\ UNCHANGED << disk, faulted, faults >>

\* writeCreated: each new file, before the file that names it.
WriteCreated(p) ==
    /\ Merging(p) /\ Changed(p) /\ Pending(p)
    /\ LET c == Current(p).created[written[p] + 1]
       IN  held' = [held EXCEPT ![c.path] = c.text] /\ made' = made \cup {c.path}
    /\ written' = [written EXCEPT ![p] = @ + 1]
    /\ UNCHANGED << content, scenario, st, judged, repairs, next, faulted, whole, runs, faults, authored >>

\* Mutant: the file is written before the files it names.
Ready_Early(p) == TRUE

\* The order of the two writes of a repair.
Ready(p) == ~Pending(p)

WriteFile(p) ==
    /\ Merging(p) /\ Changed(p) /\ Ready(p)
    /\ content' = [content EXCEPT ![Order[next[p]]] = Current(p).slots]
    /\ NextFile(p) /\ UNCHANGED << held, faulted, faults >>

\* Either write fails: the rest of this file's repair is dropped.
WriteFails(p) ==
    /\ Merging(p) /\ Changed(p) /\ faults < MaxFaults
    /\ faults' = faults + 1 /\ faulted' = [faulted EXCEPT ![p] = TRUE]
    /\ NextFile(p) /\ UNCHANGED disk

Finish(p) ==
    /\ st[p] = "merging" /\ next[p] > Len(Order)
    /\ st' = [st EXCEPT ![p] = "done"]
    /\ UNCHANGED << disk, scenario, judged, repairs, next, written, faulted, whole, runs, faults, authored, made >>

\* The process is killed.
Crash(p) ==
    /\ ~Resting(p) /\ faults < MaxFaults
    /\ faults' = faults + 1 /\ st' = [st EXCEPT ![p] = "idle"]
    /\ UNCHANGED << disk, scenario, judged, repairs, next, written, faulted, whole, runs, authored, made >>

\* Between runs somebody writes one more string into a file.
Author(f) ==
    /\ \A p \in Proc : Resting(p)
    /\ authored < MaxAuthored /\ authored' = authored + 1
    /\ \E s \in adds[f] : content' = [content EXCEPT ![f] = Append(@, s)]
    /\ st' = [p \in Proc |-> "idle"]
    /\ UNCHANGED << held, scenario, judged, repairs, next, written, faulted, whole, runs, faults, made >>

Next ==
    \/ \E p \in Proc : \/ Start(p) \/ Merge(p) \/ Skip(p) \/ WriteCreated(p) \/ WriteFile(p)
                       \/ WriteFails(p) \/ Finish(p) \/ Crash(p)
                       \/ \E f \in File : Judge(p, f)
    \/ \E f \in File : Author(f)

Spec == Init /\ [][Next]_vars

-----------------------------------------------------------------------------
(* Properties.                                                              *)

\* Every variable keeps its type.
TypeOK ==
    /\ content \in [File -> Seq(Slot)] /\ held \in [Path -> Text \cup {None}]
    /\ procs \subseteq Proc /\ adds \in [File -> SUBSET Slot]
    /\ st \in [Proc -> {"idle", "judging", "merging", "done"}]
    /\ judged \in [Proc -> SUBSET File] /\ repairs \in [Proc -> [File -> Repair]]
    /\ next \in [Proc -> 1..Len(Order) + 1] /\ written \in [Proc -> Nat]
    /\ faulted \in [Proc -> BOOLEAN] /\ whole \in [Proc -> BOOLEAN]
    /\ runs \in 0..MaxRuns /\ faults \in 0..MaxFaults /\ authored \in 0..MaxAuthored
    /\ made \subseteq Path

\* "Without the claim, files of one package hoist into the same var and
\* overwrite the same file" (goembed/repair.go), "a caller that writes Text
\* writes these first" (fix.go): at every moment, killed runs included, what a
\* file names holds that file's own text.
NamesItsOwnText == \A f \in File : \A s \in Range(content[f]) :
    s.at # None => held[s.at] # None /\ Settle[held[s.at]] = Settle[s.text]

\* unheld: a file that is on the disk is never written over with another text,
\* whoever wrote it and whenever the writer looked.
HeldStays == [][\A p \in Path : held[p] # None => held'[p] # None /\ Settle[held'[p]] = Settle[held[p]]]_vars

\* With one process, no failed write and no kill, every file a run creates is
\* named by some file once the runs rest.
NothingStranded == faults = 0 /\ (\E p \in Proc : procs = {p}) /\ (\A p \in Proc : Resting(p)) =>
    \A m \in made : \E f \in File : \E s \in Range(content[f]) : s.at = m

\* A tree run that met no failure leaves nothing for the next: the strings that
\* stay are in exempt files or have no name left.
LeavesNothing == \A p \in Proc : st[p] = "done" /\ whole[p] /\ ~faulted[p] =>
    \A f \in File \ Exempt : \A s \in Range(content[f]) : s.at = None => Free(s, {}) = {}
=============================================================================
