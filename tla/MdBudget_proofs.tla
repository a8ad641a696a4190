--------------------------- MODULE MdBudget_proofs ---------------------------
(***************************************************************************)
(* The guard blames only what changed, what a call named or what a walk    *)
(* left out, refuses no content twice, and lets no watched file end a turn *)
(* unsaid while calls run one at a time and walks find it, for every set   *)
(* of files, folders and tool calls, whatever is lost or overwritten.      *)
(***************************************************************************)
EXTENDS MdBudget, TLAPS

\* A file the guard may hold against the session, and one it must know.
Blamable(f) == ver[f] # 1 \/ f \in opened \cup dropped
Settled(f) == ver[f] = 1 /\ present[f] /\ f \notin dropped

\* A list and a snapshot that miss no file the session found in place, but
\* those a walk left out.
Lists1(cands) == cands = {} \/ \A f \in File : Settled(f) => f \in cands
Shows(seen) == seen = Unseen \/ \A f \in File : Settled(f) => seen[f] = 1

MarkerGood == BlamesOnlyChanged /\ Lists1(marker.cands) /\ Shows(marker.seen)
CopiesGood == \A s \in Slot :
    /\ \A f \in m[s].paths : Blamable(f)
    /\ Lists1(m[s].cands) /\ Shows(m[s].seen)
CallsGood == \A s \in Slot :
    /\ named[s] # None => Blamable(named[s])
    /\ cur[s] # None => Blamable(cur[s])
    /\ pc[s] = "append" => cur[s] # None
    /\ \A f \in todo[s] : Blamable(f)
Counted == \A f \in File : ver[f] >= 1

IInv == TypeOK /\ Counted /\ MarkerGood /\ CopiesGood /\ CallsGood

-----------------------------------------------------------------------------
(* Markers and snapshots.                                                   *)

LEMMA BlankGood ==
    /\ Blank \in Marker /\ Blank.paths = {} /\ Blank.cands = {}
    /\ Blank.seen = Unseen /\ Unseen \in [File -> Nat]
BY DEF Blank, Marker, Unseen

LEMMA SnapshotGood ==
    ASSUME TypeOK, NEW listed \in SUBSET File
    PROVE  /\ Snapshot(listed) \in [File -> Nat]
           /\ \A f \in File : f \in listed /\ Settled(f) => Snapshot(listed)[f] = 1
           /\ \A f \in File : Snapshot(listed)[f] # 0 => present[f] /\ Snapshot(listed)[f] = ver[f]
BY DEF Snapshot, Sig, Settled, TypeOK

LEMMA CandidatesType == \A cwd \in Folder : Candidates(cwd) \subseteq File
BY BudgetAssumption DEF Candidates

\* A walk lists every file that is still in place after it.
LEMMA WalkGood ==
    ASSUME NEW cwd \in Folder, Walks(Candidates(cwd)), UNCHANGED present
    PROVE  \A f \in File : Settled(f)' => f \in Candidates(cwd)
BY DEF Walks, Settled

\* What a step may do to the files.
Onward ==
    /\ \A f \in File : Blamable(f) => Blamable(f)'
    /\ \A f \in File : Settled(f)' => Settled(f)

LEMMA Still1 ==
    ASSUME UNCHANGED << ver, present >>, opened \subseteq opened', dropped \subseteq dropped'
    PROVE  Onward
BY DEF Onward, Blamable, Settled

LEMMA ChangeOnward ==
    ASSUME TypeOK, Counted, NEW f \in File, NEW here \in BOOLEAN, Change(f, here), UNCHANGED opened
    PROVE  /\ Onward /\ Counted' /\ Blamable(f)' /\ dropped' \subseteq File
           /\ ver' \in [File -> Nat] /\ present' \in [File -> BOOLEAN]
           /\ big' \in [File -> BOOLEAN] /\ nags' \in [File -> Nat] /\ edits' \in Nat /\ looks' \in Nat
<1>1. ver' = [ver EXCEPT ![f] = @ + 1] /\ present' = [present EXCEPT ![f] = here]
  BY DEF Change
<1>2. ver[f] \in Nat /\ ver[f] >= 1
  BY DEF TypeOK, Counted
<1>3. ver' \in [File -> Nat] /\ ver'[f] # 1 /\ Counted'
  BY <1>1, <1>2 DEF TypeOK, Counted
<1>4. \A g \in File : g # f => ver'[g] = ver[g] /\ present'[g] = present[g]
  BY <1>1 DEF TypeOK
<1>5. dropped' = dropped \ {f} /\ dropped' \subseteq File
  BY DEF Change, TypeOK
<1>6. Onward
  BY <1>3, <1>4, <1>5 DEF Onward, Blamable, Settled
<1>7. big' \in [File -> BOOLEAN] /\ nags' \in [File -> Nat] /\ edits' \in Nat /\ looks' \in Nat
  BY DEF Change, TypeOK
<1> QED
  BY <1>1, <1>3, <1>5, <1>6, <1>7 DEF TypeOK, Blamable

-----------------------------------------------------------------------------
(* The steps.                                                               *)

Good == MarkerGood /\ CopiesGood /\ CallsGood

\* A step that leaves the markers and the calls alone.
LEMMA Alone ==
    ASSUME IInv, Onward, UNCHANGED << marker, slots >>
    PROVE  Good'
<1>1. UNCHANGED << marker, pc, named, m, todo, cur >>
  BY DEF slots
<1>2. MarkerGood'
  BY <1>1 DEF IInv, TypeOK, Marker, MarkerGood, BlamesOnlyChanged, Lists1, Shows, Unseen, Onward, Blamable
<1>3. CopiesGood'
  BY <1>1 DEF IInv, TypeOK, Marker, CopiesGood, Lists1, Shows, Unseen, Onward
<1>4. CallsGood'
  BY <1>1 DEF IInv, TypeOK, CallsGood, Onward
<1> QED
  BY <1>2, <1>3, <1>4 DEF Good

\* A call that starts, once what it names may be blamed.
LEMMA BeginGood ==
    ASSUME IInv, NEW s \in Slot, NEW name \in File \cup {None}, Begin(s, name), Onward,
           name # None => Blamable(name)'
    PROVE  /\ Good'
           /\ pc' \in [Slot -> {"idle", "ran", "sweep", "judge", "append"}]
           /\ named' \in [Slot -> File \cup {None}] /\ overlapped' \in BOOLEAN
<1>1. /\ pc' = [pc EXCEPT ![s] = "ran"] /\ named' = [named EXCEPT ![s] = name]
      /\ UNCHANGED << marker, m, todo, cur >>
  BY DEF Begin
<1>2. MarkerGood'
  BY <1>1 DEF IInv, TypeOK, Marker, MarkerGood, BlamesOnlyChanged, Lists1, Shows, Unseen, Onward, Blamable
<1>3. CopiesGood'
  BY <1>1 DEF IInv, TypeOK, Marker, CopiesGood, Lists1, Shows, Unseen, Onward
<1>4. CallsGood'
  BY <1>1 DEF IInv, TypeOK, CallsGood, Onward
<1>5. overlapped' \in BOOLEAN
  BY DEF Begin, IInv, TypeOK, Idle
<1> QED
  BY <1>1, <1>2, <1>3, <1>4, <1>5 DEF Good, IInv, TypeOK

LEMMA WriteStep ==
    ASSUME IInv, NEW s \in Slot, NEW f \in File, Write(s, f)
    PROVE  IInv'
<1>1. Begin(s, f) /\ Change(f, TRUE) /\ UNCHANGED opened
  BY DEF Write
<1>2. /\ Onward /\ Counted' /\ Blamable(f)' /\ dropped' \subseteq File
      /\ ver' \in [File -> Nat] /\ present' \in [File -> BOOLEAN]
      /\ big' \in [File -> BOOLEAN] /\ nags' \in [File -> Nat] /\ edits' \in Nat /\ looks' \in Nat
  BY <1>1, ChangeOnward DEF IInv
<1>3. /\ Good'
      /\ pc' \in [Slot -> {"idle", "ran", "sweep", "judge", "append"}]
      /\ named' \in [Slot -> File \cup {None}] /\ overlapped' \in BOOLEAN
  BY <1>1, <1>2, BeginGood
<1>4. owed' \in [File -> Nat]
  BY <1>2 DEF Write, IInv, TypeOK
<1>5. TypeOK'
  BY <1>1, <1>2, <1>3, <1>4 DEF IInv, TypeOK, Begin
<1> QED
  BY <1>2, <1>3, <1>5 DEF IInv, Good

LEMMA BashStep ==
    ASSUME IInv, NEW s \in Slot, NEW f \in File, Bash(s, f)
    PROVE  IInv'
<1>1. Begin(s, None) /\ UNCHANGED opened
  BY DEF Bash
<1>2. PICK here \in BOOLEAN : Change(f, here)
  BY DEF Bash
<1>3. /\ Onward /\ Counted' /\ dropped' \subseteq File
      /\ ver' \in [File -> Nat] /\ present' \in [File -> BOOLEAN]
      /\ big' \in [File -> BOOLEAN] /\ nags' \in [File -> Nat] /\ edits' \in Nat /\ looks' \in Nat
  BY <1>1, <1>2, ChangeOnward DEF IInv
<1>4. /\ Good'
      /\ pc' \in [Slot -> {"idle", "ran", "sweep", "judge", "append"}]
      /\ named' \in [Slot -> File \cup {None}] /\ overlapped' \in BOOLEAN
  BY <1>1, <1>3, BeginGood
<1>5. owed' \in [File -> Nat]
  BY <1>3 DEF Bash, IInv, TypeOK
<1>6. TypeOK'
  BY <1>1, <1>3, <1>4, <1>5 DEF IInv, TypeOK, Begin
<1> QED
  BY <1>3, <1>4, <1>6 DEF IInv, Good

\* Read and Other.
LEMMA LeaveStep ==
    ASSUME IInv, NEW s \in Slot, NEW name \in File \cup {None}, Begin(s, name), Leave,
           opened' = opened \cup ({name} \ {None})
    PROVE  IInv'
<1>1. UNCHANGED << ver, present, big, edits, owed, nags, dropped >> /\ looks' \in Nat
  BY DEF Leave, files, IInv, TypeOK
<1>2. Onward
  BY <1>1, Still1
<1>3. name # None => Blamable(name)'
  BY DEF Blamable
<1>4. /\ Good'
      /\ pc' \in [Slot -> {"idle", "ran", "sweep", "judge", "append"}]
      /\ named' \in [Slot -> File \cup {None}] /\ overlapped' \in BOOLEAN
  BY <1>2, <1>3, BeginGood
<1>5. TypeOK'
  BY <1>1, <1>4 DEF IInv, TypeOK, Begin
<1>6. Counted'
  BY <1>1 DEF IInv, Counted
<1> QED
  BY <1>4, <1>5, <1>6 DEF IInv, Good

LEMMA OutsideStep ==
    ASSUME IInv, NEW f \in File, Outside(f)
    PROVE  IInv'
<1>1. UNCHANGED << marker, slots, active, turn, lost, owed, overlapped, opened >>
  BY DEF Outside
<1>2. PICK here \in BOOLEAN : Change(f, here)
  BY DEF Outside
<1>3. /\ Onward /\ Counted' /\ dropped' \subseteq File
      /\ ver' \in [File -> Nat] /\ present' \in [File -> BOOLEAN]
      /\ big' \in [File -> BOOLEAN] /\ nags' \in [File -> Nat] /\ edits' \in Nat /\ looks' \in Nat
  BY <1>1, <1>2, ChangeOnward DEF IInv
<1>4. Good'
  BY <1>1, <1>3, Alone
<1>5. TypeOK'
  BY <1>1, <1>3 DEF IInv, TypeOK, slots
<1> QED
  BY <1>3, <1>4, <1>5 DEF IInv, Good

\* A step that leaves the files and what calls named alone.
Quiet == UNCHANGED << files, opened, dropped >>

LEMMA QuietOnward ==
    ASSUME IInv, Quiet
    PROVE  /\ Onward /\ Counted'
           /\ \A f : Blamable(f)' <=> Blamable(f)
           /\ \A f : Settled(f)' <=> Settled(f)
<1>1. UNCHANGED << ver, present, big, opened, dropped >>
  BY DEF Quiet, files
<1> QED
  BY <1>1, Still1 DEF IInv, Counted, Blamable, Settled

\* A step that leaves the calls alone and writes a good marker.
LEMMA MarkerStep ==
    ASSUME IInv, Onward, UNCHANGED slots, MarkerGood'
    PROVE  Good'
<1>1. Onward /\ UNCHANGED << pc, named, m, todo, cur >>
  BY DEF slots
<1>2. CopiesGood'
  BY <1>1 DEF IInv, TypeOK, Marker, CopiesGood, Lists1, Shows, Unseen, Onward
<1>3. CallsGood'
  BY <1>1 DEF IInv, TypeOK, CallsGood, Onward
<1> QED
  BY <1>2, <1>3 DEF Good

\* A walk leaves the files alone and lists those it finds.
LEMMA WalkOnward ==
    ASSUME IInv, NEW listed \in SUBSET File, Walks(listed), UNCHANGED << files, opened >>
    PROVE  Onward /\ Counted' /\ dropped' \subseteq File
<1>1. UNCHANGED << ver, present, big, opened >>
  BY DEF files
<1>2. dropped \subseteq dropped' /\ dropped' \subseteq File
  BY DEF Walks, IInv, TypeOK
<1> QED
  BY <1>1, <1>2, Still1 DEF IInv, Counted

LEMMA SeedStep ==
    ASSUME IInv, NEW cwd \in Folder, Seed(cwd)
    PROVE  IInv'
<1>1. /\ marker' = [paths |-> marker.paths, fired |-> marker.fired,
                    seen |-> Snapshot(Candidates(cwd)), cands |-> Candidates(cwd)]
      /\ Walks(Candidates(cwd))
      /\ UNCHANGED << files, slots, active, turn, edits, looks, lost, owed, nags, overlapped, opened >>
  BY DEF Seed
<1>2. Onward /\ Counted' /\ dropped' \subseteq File
  BY <1>1, CandidatesType, WalkOnward
<1>3. PICK all \in SUBSET File : all = Candidates(cwd) /\ \A f \in File : Settled(f)' => f \in all
  BY <1>1, CandidatesType, WalkGood DEF files
<1>4. PICK seen \in [File -> Nat] : seen = Snapshot(all) /\ \A f \in File : Settled(f)' => seen[f] = 1
  BY <1>2, <1>3, SnapshotGood DEF IInv, Onward
<1>5. /\ marker'.paths = marker.paths /\ marker'.seen = seen /\ marker'.cands = all
      /\ marker'.fired = marker.fired
  BY <1>1, <1>3, <1>4
<1>6. marker' \in Marker
  BY <1>1, <1>3, <1>4 DEF IInv, TypeOK, Marker
<1>7. MarkerGood'
  <2>1. BlamesOnlyChanged'
    BY <1>2, <1>5, <1>6 DEF IInv, MarkerGood, BlamesOnlyChanged, Onward, Blamable, Marker
  <2> QED
    BY <1>3, <1>4, <1>5, <2>1 DEF MarkerGood, Lists1, Shows
<1>8. Good'
  BY <1>1, <1>2, <1>7, MarkerStep
<1>9. TypeOK'
  BY <1>1, <1>2, <1>6 DEF IInv, TypeOK, files, slots
<1> QED
  BY <1>2, <1>8, <1>9 DEF IInv, Good

LEMMA LoseStep ==
    ASSUME IInv, Lose
    PROVE  IInv'
<1>1. /\ marker' = Blank /\ owed' = Unseen /\ lost' = lost + 1
      /\ UNCHANGED << files, slots, active, turn, edits, looks, nags, overlapped, opened, dropped >>
  BY DEF Lose
<1>2. Quiet
  BY <1>1 DEF Quiet
<1>3. MarkerGood'
  BY <1>1, BlankGood DEF MarkerGood, BlamesOnlyChanged, Lists1, Shows, Unseen
<1>4. Good'
  BY <1>1, <1>2, <1>3, QuietOnward, MarkerStep
<1>5. TypeOK'
  BY <1>1, BlankGood DEF IInv, TypeOK, files, slots
<1> QED
  BY <1>2, <1>4, <1>5, QuietOnward DEF IInv, Good

LEMMA StopBlocksStep ==
    ASSUME IInv, StopBlocks
    PROVE  IInv'
<1>1. /\ marker' = [paths |-> marker.paths, fired |-> Fire, seen |-> marker.seen, cands |-> marker.cands]
      /\ nags' = [f \in File |-> IF f \in Still THEN nags[f] + 1 ELSE nags[f]]
      /\ active' = TRUE
      /\ UNCHANGED << files, slots, turn, edits, looks, lost, owed, overlapped, opened, dropped >>
  BY DEF StopBlocks
<1>2. Quiet
  BY <1>1 DEF Quiet
<1>3. Fire \in [File -> Nat]
  BY DEF Fire, Sig, IInv, TypeOK, Marker
<1>4. marker' \in Marker
  BY <1>1, <1>3 DEF IInv, TypeOK, Marker
<1>5. MarkerGood'
  <2>1. marker'.paths = marker.paths /\ marker'.seen = marker.seen /\ marker'.cands = marker.cands
    BY <1>1
  <2> QED
    BY <1>2, <2>1, QuietOnward DEF IInv, MarkerGood, BlamesOnlyChanged, Blamable, Lists1, Shows, Unseen
<1>6. Good'
  BY <1>1, <1>2, <1>5, QuietOnward, MarkerStep
<1>7. nags' \in [File -> Nat]
  BY <1>1 DEF IInv, TypeOK
<1>8. TypeOK'
  BY <1>1, <1>4, <1>7 DEF IInv, TypeOK, files, slots
<1> QED
  BY <1>2, <1>6, <1>8, QuietOnward DEF IInv, Good

LEMMA StopRestStep ==
    ASSUME IInv, StopPasses \/ StopWaves
    PROVE  IInv'
<1>1. /\ UNCHANGED << files, marker, slots, edits, looks, lost, history >>
      /\ active' \in BOOLEAN /\ turn' \in {"open", "ended", "waved"}
  BY DEF StopPasses, StopWaves, IInv, TypeOK
<1>2. Quiet
  BY <1>1 DEF Quiet, history
<1>3. Good'
  BY <1>1, <1>2, QuietOnward, Alone
<1>4. TypeOK'
  BY <1>1 DEF IInv, TypeOK, files, slots, history
<1> QED
  BY <1>2, <1>3, <1>4, QuietOnward DEF IInv, Good

\* What readMarker answers is good.
LEMMA ReadGood ==
    ASSUME IInv, NEW s \in Slot, NEW r, r \in {marker, Blank}, Reads(s, r)
    PROVE  /\ r \in Marker /\ r.paths \subseteq File /\ \A f \in r.paths : Blamable(f)
           /\ Lists1(r.cands) /\ Shows(r.seen)
           /\ lost' \in Nat /\ owed' \in [File -> Nat]
<1>1. lost' \in Nat /\ owed' \in [File -> Nat]
  BY BlankGood DEF Reads, IInv, TypeOK
<1>2. CASE r = marker
  <2>1. r \in Marker /\ r.paths \subseteq File
    BY <1>2 DEF IInv, TypeOK, Marker
  <2>2. \A f \in r.paths : Blamable(f)
    BY <1>2 DEF IInv, MarkerGood, BlamesOnlyChanged, Blamable
  <2>3. Lists1(r.cands) /\ Shows(r.seen)
    BY <1>2 DEF IInv, MarkerGood, Lists1, Shows
  <2> QED
    BY <1>1, <2>1, <2>2, <2>3
<1>3. CASE r = Blank
  BY <1>3, <1>1, BlankGood DEF Lists1, Shows
<1> QED
  BY <1>2, <1>3

\* A step that leaves the marker alone and gives call s a good copy of it.
LEMMA CopyStep ==
    ASSUME IInv, Quiet, NEW s \in Slot, NEW r \in Marker, m' = [m EXCEPT ![s] = r],
           \A f \in r.paths : Blamable(f), Lists1(r.cands), Shows(r.seen), UNCHANGED marker
    PROVE  MarkerGood' /\ CopiesGood' /\ m' \in [Slot -> Marker]
<1>1. MarkerGood'
  BY QuietOnward DEF IInv, MarkerGood, BlamesOnlyChanged, Blamable, Lists1, Shows, Unseen
<1>2. CopiesGood'
  BY QuietOnward DEF IInv, TypeOK, CopiesGood, Lists1, Shows, Unseen
<1> QED
  BY <1>1, <1>2 DEF IInv, TypeOK

LEMMA SweepReadStep ==
    ASSUME IInv, NEW s \in Slot, SweepRead(s)
    PROVE  IInv'
<1>1. /\ pc' = [pc EXCEPT ![s] = "sweep"]
      /\ UNCHANGED << files, marker, named, todo, cur, active, turn, edits, looks, nags, overlapped,
                      opened, dropped >>
  BY DEF SweepRead
<1>2. PICK r \in {marker, Blank} : Reads(s, r) /\ m' = [m EXCEPT ![s] = r]
  BY DEF SweepRead
<1>3. Quiet
  BY <1>1 DEF Quiet
<1>4. /\ r \in Marker /\ \A f \in r.paths : Blamable(f)
      /\ Lists1(r.cands) /\ Shows(r.seen)
      /\ lost' \in Nat /\ owed' \in [File -> Nat]
  BY <1>2, ReadGood
<1>5. MarkerGood' /\ CopiesGood' /\ m' \in [Slot -> Marker]
  BY <1>1, <1>2, <1>3, <1>4, CopyStep
<1>6. CallsGood'
  BY <1>1, <1>3, QuietOnward DEF IInv, TypeOK, CallsGood
<1>7. TypeOK'
  BY <1>1, <1>4, <1>5 DEF IInv, TypeOK, files
<1> QED
  BY <1>3, <1>5, <1>6, <1>7, QuietOnward DEF IInv

\* The files a good snapshot shows as changed may be blamed.
LEMMA DifferingGood ==
    ASSUME IInv, NEW s \in Slot, NEW listed \in SUBSET File
    PROVE  Differing(s, Snapshot(listed)) \subseteq {f \in File : Blamable(f)}
<1>1. PICK seen \in [File -> Nat] : /\ seen = Snapshot(listed)
                                    /\ \A f \in File : seen[f] # 0 => present[f] /\ seen[f] = ver[f]
  BY SnapshotGood DEF IInv
<1>2. SUFFICES ASSUME NEW f \in File, m[s].seen # Unseen, seen[f] # 0, m[s].seen[f] # seen[f]
               PROVE  Blamable(f)
  BY <1>1 DEF Differing
<1>3. Settled(f) => m[s].seen[f] = 1
  BY <1>2 DEF IInv, CopiesGood, Shows
<1>4. present[f] /\ seen[f] = ver[f]
  BY <1>1, <1>2
<1> QED
  BY <1>2, <1>3, <1>4 DEF Blamable, Settled

LEMMA SweepWriteStep ==
    ASSUME IInv, NEW s \in Slot, SweepWrite(s)
    PROVE  IInv'
<1>1. /\ pc' = [pc EXCEPT ![s] = "judge"]
      /\ UNCHANGED << files, named, m, cur, active, turn, edits, looks, lost, owed, nags, overlapped,
                      opened >>
  BY DEF SweepWrite
<1>2. PICK listed \in SUBSET File :
          /\ Lists(s, listed)
          /\ marker' = [paths |-> m[s].paths, fired |-> m[s].fired,
                        seen |-> Snapshot(listed), cands |-> listed]
          /\ todo' = [todo EXCEPT ![s] =
                 IF named[s] # None THEN {named[s]} ELSE Differing(s, Snapshot(listed))]
  BY DEF SweepWrite
<1>3. /\ Onward /\ Counted' /\ dropped' \subseteq File
      /\ \A f \in File : Settled(f)' => f \in listed
  <2>1. CASE listed = m[s].cands /\ listed # {} /\ UNCHANGED dropped
    <3>1. Quiet
      BY <1>1, <2>1 DEF Quiet
    <3>2. \A f \in File : Settled(f) => f \in listed
      BY <2>1 DEF IInv, CopiesGood, Lists1
    <3> QED
      BY <2>1, <3>1, <3>2, QuietOnward DEF IInv, TypeOK
  <2>2. ASSUME NEW cwd \in Folder, listed = Candidates(cwd), Walks(listed)
        PROVE  /\ Onward /\ Counted' /\ dropped' \subseteq File
               /\ \A f \in File : Settled(f)' => f \in listed
    BY <1>1, <2>2, WalkOnward, WalkGood DEF files
  <2> QED
    BY <1>2, <2>1, <2>2 DEF Lists
<1>4. m[s] \in Marker
  BY DEF IInv, TypeOK
<1>6. PICK seen \in [File -> Nat] : seen = Snapshot(listed) /\ \A f \in File : Settled(f)' => seen[f] = 1
  BY <1>3, SnapshotGood DEF IInv, Onward
<1>7. marker' \in Marker /\ marker'.paths = m[s].paths /\ marker'.seen = seen /\ marker'.cands = listed
  BY <1>2, <1>4, <1>6 DEF Marker
<1>8. MarkerGood'
  <2>1. m[s].paths \subseteq File /\ \A f \in m[s].paths : Blamable(f)
    BY <1>4 DEF IInv, CopiesGood, Marker
  <2>2. BlamesOnlyChanged'
    BY <1>3, <1>7, <2>1 DEF BlamesOnlyChanged, Onward, Blamable
  <2> QED
    BY <1>3, <1>6, <1>7, <2>2 DEF MarkerGood, Lists1, Shows
<1>9. CopiesGood'
  BY <1>1, <1>3 DEF IInv, TypeOK, Marker, CopiesGood, Lists1, Shows, Unseen, Onward
<1>10. PICK new \in SUBSET File : /\ todo' = [todo EXCEPT ![s] = new]
                                  /\ \A f \in new : Blamable(f)
  <2>1. Differing(s, Snapshot(listed)) \subseteq {f \in File : Blamable(f)}
    BY DifferingGood
  <2>2. named[s] # None => named[s] \in File /\ Blamable(named[s])
    BY DEF IInv, TypeOK, CallsGood
  <2> QED
    BY <1>2, <2>1, <2>2
<1>11. CallsGood'
  BY <1>1, <1>3, <1>10 DEF IInv, TypeOK, CallsGood, Onward
<1>12. TypeOK'
  BY <1>1, <1>3, <1>7, <1>10 DEF IInv, TypeOK, files
<1> QED
  BY <1>3, <1>8, <1>9, <1>11, <1>12 DEF IInv

LEMMA PassStep ==
    ASSUME IInv, NEW s \in Slot, NEW f \in File, Pass(s, f)
    PROVE  IInv'
<1>1. /\ todo' = [todo EXCEPT ![s] = @ \ {f}]
      /\ UNCHANGED << files, marker, pc, named, m, cur, active, turn, edits, looks, lost, history >>
  BY DEF Pass
<1>2. Quiet
  BY <1>1 DEF Quiet, history
<1>3. MarkerGood'
  BY <1>1, <1>2, QuietOnward DEF IInv, MarkerGood, BlamesOnlyChanged, Blamable, Lists1, Shows, Unseen
<1>4. CopiesGood'
  BY <1>1, <1>2, QuietOnward DEF IInv, CopiesGood, Lists1, Shows, Unseen
<1>5. CallsGood'
  BY <1>1, <1>2, QuietOnward DEF IInv, TypeOK, CallsGood
<1>6. TypeOK'
  BY <1>1 DEF IInv, TypeOK, files, history
<1> QED
  BY <1>2, <1>3, <1>4, <1>5, <1>6, QuietOnward DEF IInv

LEMMA RecordReadStep ==
    ASSUME IInv, NEW s \in Slot, NEW f \in File, RecordRead(s, f)
    PROVE  IInv'
<1>1. /\ f \in todo[s] /\ todo' = [todo EXCEPT ![s] = @ \ {f}]
      /\ UNCHANGED << files, marker, named, active, turn, edits, looks, nags, overlapped, opened,
                      dropped >>
  BY DEF RecordRead
<1>2. PICK r \in {marker, Blank} :
          /\ Reads(s, r)
          /\ \/ UNCHANGED << pc, m, cur >>
             \/ /\ m' = [m EXCEPT ![s] = r] /\ cur' = [cur EXCEPT ![s] = f]
                /\ pc' = [pc EXCEPT ![s] = "append"]
  BY DEF RecordRead
<1>3. Quiet
  BY <1>1 DEF Quiet
<1>4. /\ r \in Marker /\ \A g \in r.paths : Blamable(g)
      /\ Lists1(r.cands) /\ Shows(r.seen)
      /\ lost' \in Nat /\ owed' \in [File -> Nat]
  BY <1>2, ReadGood
<1>5. Blamable(f) /\ f # None
  BY <1>1, NoneAssumption DEF IInv, CallsGood
<1>6. CASE UNCHANGED << pc, m, cur >>
  <2>1. MarkerGood'
    BY <1>1, <1>3, QuietOnward DEF IInv, MarkerGood, BlamesOnlyChanged, Blamable, Lists1, Shows, Unseen
  <2>2. CopiesGood'
    BY <1>3, <1>6, QuietOnward DEF IInv, CopiesGood, Lists1, Shows, Unseen
  <2>3. CallsGood'
    BY <1>1, <1>3, <1>6, QuietOnward DEF IInv, TypeOK, CallsGood
  <2>4. TypeOK'
    BY <1>1, <1>4, <1>6 DEF IInv, TypeOK, files
  <2> QED
    BY <1>3, <2>1, <2>2, <2>3, <2>4, QuietOnward DEF IInv
<1>7. CASE /\ m' = [m EXCEPT ![s] = r] /\ cur' = [cur EXCEPT ![s] = f]
           /\ pc' = [pc EXCEPT ![s] = "append"]
  <2>1. MarkerGood' /\ CopiesGood' /\ m' \in [Slot -> Marker]
    BY <1>1, <1>3, <1>4, <1>7, CopyStep
  <2>2. CallsGood'
    BY <1>1, <1>3, <1>5, <1>7, QuietOnward DEF IInv, TypeOK, CallsGood
  <2>3. TypeOK'
    BY <1>1, <1>4, <1>7, <2>1 DEF IInv, TypeOK, files
  <2> QED
    BY <1>3, <2>1, <2>2, <2>3, QuietOnward DEF IInv
<1> QED
  BY <1>2, <1>6, <1>7

LEMMA RecordWriteStep ==
    ASSUME IInv, NEW s \in Slot, RecordWrite(s)
    PROVE  IInv'
<1>1. /\ pc[s] = "append" /\ pc' = [pc EXCEPT ![s] = "judge"]
      /\ marker' = [paths |-> m[s].paths \cup {cur[s]}, fired |-> m[s].fired,
                    seen |-> m[s].seen, cands |-> m[s].cands]
      /\ UNCHANGED << files, named, m, todo, cur, active, turn, edits, looks, lost, history >>
  BY DEF RecordWrite
<1>2. Quiet
  BY <1>1 DEF Quiet, history
<1>3. cur[s] \in File /\ Blamable(cur[s]) /\ m[s] \in Marker
  BY <1>1 DEF IInv, TypeOK, CallsGood
<1>4. /\ marker' \in Marker /\ marker'.paths = m[s].paths \cup {cur[s]}
      /\ marker'.seen = m[s].seen /\ marker'.cands = m[s].cands
  BY <1>1, <1>3 DEF Marker
<1>5. MarkerGood'
  <2>1. /\ \A f \in m[s].paths : Blamable(f)
        /\ Lists1(m[s].cands) /\ Shows(m[s].seen)
    BY DEF IInv, CopiesGood
  <2> QED
    BY <1>2, <1>3, <1>4, <2>1, QuietOnward DEF MarkerGood, BlamesOnlyChanged, Blamable, Lists1, Shows, Unseen
<1>6. CopiesGood'
  BY <1>1, <1>2, QuietOnward DEF IInv, CopiesGood, Lists1, Shows, Unseen
<1>7. CallsGood'
  BY <1>1, <1>2, QuietOnward DEF IInv, TypeOK, CallsGood
<1>8. TypeOK'
  BY <1>1, <1>4 DEF IInv, TypeOK, files, history
<1> QED
  BY <1>2, <1>5, <1>6, <1>7, <1>8, QuietOnward DEF IInv

LEMMA DoneStep ==
    ASSUME IInv, NEW s \in Slot, Done(s)
    PROVE  IInv'
<1>1. /\ pc' = [pc EXCEPT ![s] = "idle"] /\ named' = [named EXCEPT ![s] = None]
      /\ m' = [m EXCEPT ![s] = Blank] /\ cur' = [cur EXCEPT ![s] = None]
      /\ UNCHANGED << files, marker, todo, active, turn, edits, looks, lost, history >>
  BY DEF Done
<1>2. Quiet
  BY <1>1 DEF Quiet, history
<1>3. PICK r \in Marker : r = Blank /\ (\A f \in r.paths : Blamable(f)) /\ Lists1(r.cands) /\ Shows(r.seen)
  BY BlankGood DEF Lists1, Shows
<1>4. m' = [m EXCEPT ![s] = r] /\ UNCHANGED marker
  BY <1>1, <1>3
<1>5. MarkerGood' /\ CopiesGood' /\ m' \in [Slot -> Marker]
  BY <1>2, <1>3, <1>4, CopyStep
<1>6. CallsGood'
  BY <1>1, <1>2, QuietOnward DEF IInv, TypeOK, CallsGood
<1>7. TypeOK'
  BY <1>1, <1>5 DEF IInv, TypeOK, files, history
<1> QED
  BY <1>2, <1>5, <1>6, <1>7, QuietOnward DEF IInv

-----------------------------------------------------------------------------
(* Refusals.  A file refused more often than the marker was lost is known   *)
(* as refused to the marker and to every copy of it that will be written.   *)

Holds(s) == pc[s] \in {"sweep", "append"}
Told == \A f \in File :
    /\ nags[f] <= 1 + lost
    /\ nags[f] > lost => /\ marker.fired[f] = ver[f]
                         /\ \A s \in Slot : Holds(s) => m[s].fired[f] = ver[f]

\* A step that writes the marker or a copy only from what told it.
LEMMA ToldKept ==
    ASSUME IInv, Told, UNCHANGED << ver, nags, lost >>,
           marker'.fired = marker.fired \/ \E s \in Slot : Holds(s) /\ marker'.fired = m[s].fired,
           \A s \in Slot : Holds(s)' =>
               m'[s].fired = marker.fired \/ (Holds(s) /\ m'[s].fired = m[s].fired)
    PROVE  Told'
<1> SUFFICES ASSUME NEW f \in File, nags[f] > lost
             PROVE  /\ marker'.fired[f] = ver[f]
                    /\ \A s \in Slot : Holds(s)' => m'[s].fired[f] = ver[f]
  BY DEF Told
<1>1. marker.fired[f] = ver[f] /\ \A s \in Slot : Holds(s) => m[s].fired[f] = ver[f]
  BY DEF Told
<1>2. marker'.fired[f] = ver[f]
  BY <1>1
<1>3. \A s \in Slot : Holds(s)' => m'[s].fired[f] = ver[f]
  BY <1>1
<1> QED
  BY <1>2, <1>3

\* A loss of the marker allows one more refusal of each file.
LEMMA ToldLost ==
    ASSUME IInv, Told, UNCHANGED << nags >>, lost' = lost + 1
    PROVE  Told'
<1> SUFFICES ASSUME NEW f \in File
             PROVE  nags[f] <= lost + 1
  BY DEF Told, IInv, TypeOK
<1> QED
  BY DEF Told, IInv, TypeOK

\* A changed file starts again; the others stay as they were.
LEMMA ToldChange ==
    ASSUME IInv, Told, NEW f \in File, NEW here \in BOOLEAN, Change(f, here),
           UNCHANGED << marker, m, lost >>, \A s \in Slot : Holds(s)' => Holds(s)
    PROVE  Told'
<1>1. /\ ver' = [ver EXCEPT ![f] = @ + 1] /\ nags' = [nags EXCEPT ![f] = 0]
  BY DEF Change
<1>2. nags'[f] = 0 /\ lost \in Nat
  BY <1>1 DEF IInv, TypeOK
<1>3. \A g \in File : g # f => ver'[g] = ver[g] /\ nags'[g] = nags[g]
  BY <1>1 DEF IInv, TypeOK
<1> QED
  BY <1>2, <1>3 DEF Told

\* A call that reads the marker: it gets the marker, or the marker is lost.
LEMMA ToldRead ==
    ASSUME IInv, Told, NEW s \in Slot, NEW r \in {marker, Blank}, Reads(s, r),
           m' = [m EXCEPT ![s] = r], UNCHANGED << marker, ver, nags >>,
           \A t \in Slot \ {s} : Holds(t)' => Holds(t)
    PROVE  Told'
<1>1. CASE lost' = lost + 1
  BY <1>1, ToldLost
<1>2. CASE r = marker /\ lost' = lost
  <2>1. m'[s].fired = marker.fired /\ \A t \in Slot \ {s} : m'[t] = m[t]
    BY <1>2 DEF IInv, TypeOK
  <2>2. \A t \in Slot : Holds(t)' => m'[t].fired = marker.fired \/ (Holds(t) /\ m'[t].fired = m[t].fired)
    BY <2>1
  <2> QED
    BY <1>2, <2>2, ToldKept
<1> QED
  BY <1>1, <1>2 DEF Reads

LEMMA ToldStop ==
    ASSUME IInv, Told, StopBlocks
    PROVE  Told'
<1>1. /\ marker'.fired = Fire
      /\ nags' = [f \in File |-> IF f \in Still THEN nags[f] + 1 ELSE nags[f]]
      /\ UNCHANGED << ver, pc, m, lost >>
  BY DEF StopBlocks, files, slots
<1>2. \A s \in Slot : ~Holds(s)'
  BY <1>1 DEF StopBlocks, Idle, Holds
<1> SUFFICES ASSUME NEW f \in File
             PROVE  nags'[f] <= 1 + lost /\ (nags'[f] > lost => Fire[f] = ver[f])
  BY <1>1, <1>2 DEF Told
<1>3. nags[f] \in Nat /\ lost \in Nat
  BY DEF IInv, TypeOK
<1>4. CASE f \in Still
  <2>1. Fire[f] = ver[f] /\ marker.fired[f] # ver[f]
    BY <1>4 DEF Fire, Still, Offends, Sig
  <2>2. nags[f] <= lost /\ nags'[f] = nags[f] + 1
    BY <1>1, <1>3, <1>4, <2>1 DEF Told
  <2> QED
    BY <1>3, <2>1, <2>2
<1>5. CASE f \notin Still
  BY <1>1, <1>5 DEF Fire, Told
<1> QED
  BY <1>4, <1>5

LEMMA NextTold == IInv /\ Told /\ [Next]_vars => Told'
<1> SUFFICES ASSUME IInv, Told, [Next]_vars PROVE Told'
  OBVIOUS
<1>1. CASE \E cwd \in Folder : Seed(cwd)
  <2>1. marker'.fired = marker.fired /\ UNCHANGED << ver, nags, lost, pc, m >>
    BY <1>1 DEF Seed, files, slots
  <2> QED
    BY <2>1, ToldKept DEF Holds
<1>2. CASE Lose
  BY <1>2, ToldLost DEF Lose
<1>3. CASE StopBlocks
  BY <1>3, ToldStop
<1>4. CASE StopPasses \/ StopWaves \/ UNCHANGED vars
  <2>1. UNCHANGED << marker, ver, nags, lost, pc, m >>
    BY <1>4 DEF StopPasses, StopWaves, vars, files, slots, history
  <2> QED
    BY <2>1, ToldKept DEF Holds
<1>5. ASSUME NEW f \in File, Outside(f)
      PROVE  Told'
  <2>1. PICK here \in BOOLEAN : Change(f, here)
    BY <1>5 DEF Outside
  <2>2. UNCHANGED << marker, pc, m, lost >>
    BY <1>5 DEF Outside, slots
  <2> QED
    BY <2>1, <2>2, ToldChange DEF Holds
<1>6. ASSUME NEW s \in Slot, NEW f \in File, Write(s, f) \/ Bash(s, f)
      PROVE  Told'
  <2>1. PICK here \in BOOLEAN : Change(f, here)
    BY <1>6 DEF Write, Bash
  <2>2. UNCHANGED << marker, m, lost >> /\ pc' = [pc EXCEPT ![s] = "ran"]
    BY <1>6 DEF Write, Bash, Begin
  <2>3. \A t \in Slot : Holds(t)' => Holds(t)
    BY <2>2 DEF Holds, IInv, TypeOK
  <2> QED
    BY <2>1, <2>2, <2>3, ToldChange
<1>7. ASSUME NEW s \in Slot, Other(s) \/ \E f \in File : Read(s, f)
      PROVE  Told'
  <2>1. UNCHANGED << marker, m, lost, ver, nags >> /\ pc' = [pc EXCEPT ![s] = "ran"]
    BY <1>7 DEF Other, Read, Begin, Leave, files
  <2>2. \A t \in Slot : Holds(t)' => Holds(t)
    BY <2>1 DEF Holds, IInv, TypeOK
  <2> QED
    BY <2>1, <2>2, ToldKept
<1>8. ASSUME NEW s \in Slot, SweepRead(s)
      PROVE  Told'
  <2>1. PICK r \in {marker, Blank} : Reads(s, r) /\ m' = [m EXCEPT ![s] = r]
    BY <1>8 DEF SweepRead
  <2>2. UNCHANGED << marker, ver, nags >> /\ pc' = [pc EXCEPT ![s] = "sweep"]
    BY <1>8 DEF SweepRead, files
  <2>3. \A t \in Slot \ {s} : Holds(t)' => Holds(t)
    BY <2>2 DEF Holds, IInv, TypeOK
  <2> QED
    BY <2>1, <2>2, <2>3, ToldRead
<1>9. ASSUME NEW s \in Slot, NEW f \in File, RecordRead(s, f)
      PROVE  Told'
  <2>1. PICK r \in {marker, Blank} :
            /\ Reads(s, r)
            /\ \/ UNCHANGED << pc, m, cur >>
               \/ m' = [m EXCEPT ![s] = r] /\ pc' = [pc EXCEPT ![s] = "append"]
    BY <1>9 DEF RecordRead
  <2>2. UNCHANGED << marker, ver, nags >>
    BY <1>9 DEF RecordRead, files
  <2>3. CASE UNCHANGED << pc, m, cur >>
    <3>1. CASE lost' = lost
      BY <2>2, <2>3, <3>1, ToldKept DEF Holds
    <3>2. CASE lost' = lost + 1
      BY <2>2, <3>2, ToldLost
    <3> QED
      BY <2>1, <3>1, <3>2 DEF Reads
  <2>4. CASE m' = [m EXCEPT ![s] = r] /\ pc' = [pc EXCEPT ![s] = "append"]
    <3>1. \A t \in Slot \ {s} : Holds(t)' => Holds(t)
      BY <2>4 DEF Holds, IInv, TypeOK
    <3> QED
      BY <2>1, <2>2, <2>4, <3>1, ToldRead
  <2> QED
    BY <2>1, <2>3, <2>4
<1>10. ASSUME NEW s \in Slot, SweepWrite(s) \/ RecordWrite(s)
       PROVE  Told'
  <2>1. marker'.fired = m[s].fired /\ Holds(s)
    BY <1>10 DEF SweepWrite, RecordWrite, Holds
  <2>2. UNCHANGED << ver, nags, lost, m >> /\ pc' = [pc EXCEPT ![s] = "judge"]
    BY <1>10 DEF SweepWrite, RecordWrite, files, history
  <2>3. \A t \in Slot : Holds(t)' => Holds(t) /\ m'[t].fired = m[t].fired
    BY <2>2 DEF Holds, IInv, TypeOK
  <2> QED
    BY <2>1, <2>2, <2>3, ToldKept
<1>11. ASSUME NEW s \in Slot, Done(s) \/ \E f \in File : Pass(s, f)
       PROVE  Told'
  <2>1. UNCHANGED << marker, ver, nags, lost >>
    BY <1>11 DEF Done, Pass, files, history
  <2>2. \A t \in Slot : Holds(t)' => Holds(t) /\ m'[t].fired = m[t].fired
    BY <1>11 DEF Done, Pass, Holds, IInv, TypeOK
  <2> QED
    BY <2>1, <2>2, ToldKept
<1> QED
  BY <1>1, <1>2, <1>3, <1>4, <1>5, <1>6, <1>7, <1>8, <1>9, <1>10, <1>11 DEF Next

-----------------------------------------------------------------------------
(* The theorems.                                                            *)

LEMMA InitIInv == Init => IInv
<1> SUFFICES ASSUME Init PROVE IInv
  OBVIOUS
<1>1. TypeOK
  BY BlankGood DEF Init, TypeOK
<1>2. MarkerGood
  BY BlankGood DEF Init, MarkerGood, BlamesOnlyChanged, Lists1, Shows
<1>3. CopiesGood
  BY BlankGood DEF Init, CopiesGood, Lists1, Shows
<1>4. CallsGood /\ Counted
  BY DEF Init, CallsGood, Counted
<1> QED
  BY <1>1, <1>2, <1>3, <1>4 DEF IInv

LEMMA NextIInv == IInv /\ [Next]_vars => IInv'
<1>1. SUFFICES ASSUME IInv, [Next]_vars PROVE IInv'
  OBVIOUS
<1>2. CASE (\E cwd \in Folder : Seed(cwd)) \/ Lose \/ StopBlocks \/ StopPasses \/ StopWaves
  BY <1>1, <1>2, SeedStep, LoseStep, StopBlocksStep, StopRestStep
<1>3. CASE \E f \in File : Outside(f)
  BY <1>1, <1>3, OutsideStep
<1>4. CASE \E s \in Slot : SweepRead(s) \/ SweepWrite(s) \/ RecordWrite(s) \/ Done(s)
  BY <1>1, <1>4, SweepReadStep, SweepWriteStep, RecordWriteStep, DoneStep
<1>5. ASSUME NEW s \in Slot, Other(s)
      PROVE  IInv'
  <2>1. Begin(s, None) /\ Leave /\ opened' = opened \cup ({None} \ {None})
    BY <1>5 DEF Other
  <2> QED
    BY <1>1, <2>1, LeaveStep
<1>6. ASSUME NEW s \in Slot, NEW f \in File, Read(s, f)
      PROVE  IInv'
  <2>1. Begin(s, f) /\ Leave /\ opened' = opened \cup ({f} \ {None})
    BY <1>6, NoneAssumption DEF Read
  <2> QED
    BY <1>1, <2>1, LeaveStep
<1>7. CASE \E s \in Slot, f \in File : Write(s, f) \/ Bash(s, f) \/ Pass(s, f) \/ RecordRead(s, f)
  BY <1>1, <1>7, WriteStep, BashStep, PassStep, RecordReadStep
<1>8. CASE UNCHANGED vars
  <2>1. UNCHANGED << files, marker, slots, active, turn, edits, looks, lost, history >>
    BY <1>8 DEF vars
  <2>2. Quiet
    BY <2>1 DEF Quiet, history
  <2>3. Good'
    BY <1>1, <2>1, <2>2, QuietOnward, Alone
  <2>4. TypeOK'
    BY <1>1, <2>1 DEF IInv, TypeOK, files, slots, history
  <2> QED
    BY <1>1, <2>2, <2>3, <2>4, QuietOnward DEF IInv, Good
<1> QED
  BY <1>1, <1>2, <1>3, <1>4, <1>5, <1>6, <1>7, <1>8 DEF Next

\* Every variable keeps its type: a marker is only ever replaced by a marker,
\* whichever hooks read and write it at once (marker.go).
THEOREM TypeTheorem == Spec => []TypeOK
<1>1. IInv => TypeOK
  BY DEF IInv
<1> QED
  BY <1>1, InitIInv, NextIInv, PTL DEF Spec

\* A file is held against the session only when it changed since the session
\* began, a call named it, or a walk of another folder left it out: no sweep,
\* however stale its marker and its list of files, mistakes any other file for
\* a changed one (changedFiles, editReport).
THEOREM BlamesTheorem == Spec => []BlamesOnlyChanged
<1>1. IInv => BlamesOnlyChanged
  BY DEF IInv, MarkerGood
<1> QED
  BY <1>1, InitIInv, NextIInv, PTL DEF Spec

\* A file is refused once with the content it has, and once more for each loss
\* of the marker: no order in which hooks read and write the marker makes the
\* guard forget what it said (stopBlock, writeMarker).
THEOREM NeverTwiceTheorem == Spec => []NeverTwice
<1>1. Init => Told
  BY DEF Init, Told, Unseen
<1>2. IInv /\ Told => NeverTwice
  BY DEF Told, NeverTwice
<1> QED
  BY <1>1, <1>2, InitIInv, NextIInv, NextTold, PTL DEF Spec

-----------------------------------------------------------------------------
(* What the turn's end knows.                                               *)

\* No snapshot and no debt is ahead of the file it is about.
SeenPast ==
    /\ \A f \in File : owed[f] <= ver[f] /\ marker.seen[f] <= ver[f]
    /\ \A s \in Slot, f \in File : m[s].seen[f] <= ver[f]

\* A turn that is not open has no call left running.
Rests == turn # "open" => Idle

\* A sweep from the marker mk will find f changed.
Shown(f, mk) == f \in mk.cands /\ mk.seen # Unseen /\ mk.seen[f] # ver[f]

\* Where the hook of the call s has the file f it must note.
Heard(s, f) ==
    /\ pc[s] = "ran" => \/ f \in marker.paths \/ named[s] = f
                        \/ named[s] = None /\ Shown(f, marker)
    /\ pc[s] = "sweep" => \/ f \in m[s].paths \/ named[s] = f
                          \/ named[s] = None /\ Shown(f, m[s])
    /\ pc[s] = "judge" => f \in marker.paths \cup todo[s]
    /\ pc[s] = "append" => f \in m[s].paths \cup todo[s] \cup {cur[s]}

Single == \A s, t \in Slot : pc[s] # "idle" /\ pc[t] # "idle" => s = t

Answered(f) ==
    /\ Idle => f \in marker.paths \cup dropped
    /\ f \notin dropped => \A s \in Slot : Heard(s, f)
    /\ turn = "ended" /\ f \in marker.paths => Said(f)

\* While calls run one at a time, every file due is noted, on its way, or left
\* out by a walk.
Aware == ~overlapped => Single /\ \A f \in File : Due(f) => Answered(f)

Known == SeenPast /\ Rests /\ Aware

LEMMA SeenKept ==
    ASSUME IInv, SeenPast, ver' \in [File -> Nat], \A f \in File : ver[f] <= ver'[f],
           \A f \in File : owed'[f] \in {owed[f], 0, ver'[f]},
           \/ marker'.seen \in {marker.seen, Unseen}
           \/ \E s \in Slot : marker'.seen = m[s].seen
           \/ \E listed \in SUBSET File : marker'.seen = Snapshot(listed),
           \A s \in Slot : m'[s].seen \in {m[s].seen, marker.seen, Unseen}
    PROVE  SeenPast'
<1>1. /\ ver \in [File -> Nat] /\ owed \in [File -> Nat] /\ marker.seen \in [File -> Nat]
      /\ \A s \in Slot : m[s].seen \in [File -> Nat]
      /\ \A f \in File : Unseen[f] = 0
  BY DEF IInv, TypeOK, Marker, Unseen
<1>2. \A f \in File : owed'[f] <= ver'[f]
  BY <1>1 DEF SeenPast
<1>3. \A listed \in SUBSET File : \A f \in File : Snapshot(listed)[f] <= ver[f] /\ Snapshot(listed)[f] \in Nat
  BY <1>1 DEF Snapshot, Sig
<1>4. \A f \in File : marker'.seen[f] <= ver[f] /\ marker'.seen[f] \in Nat
  BY <1>1, <1>3 DEF SeenPast
<1>5. \A s \in Slot, f \in File : m'[s].seen[f] <= ver[f] /\ m'[s].seen[f] \in Nat
  BY <1>1 DEF SeenPast
<1>6. \A a, b, c \in Nat : a <= b /\ b <= c => a <= c
  OBVIOUS
<1> QED
  BY <1>1, <1>2, <1>4, <1>5, <1>6 DEF SeenPast

LEMMA SeenChange ==
    ASSUME IInv, NEW f \in File, NEW here \in BOOLEAN, Change(f, here)
    PROVE  /\ ver' \in [File -> Nat] /\ \A g \in File : ver[g] <= ver'[g]
           /\ ver'[f] = ver[f] + 1
           /\ \A g \in File : g # f => ver'[g] = ver[g] /\ present'[g] = present[g] /\ big'[g] = big[g]
BY DEF IInv, TypeOK, Change

LEMMA SeenReads ==
    ASSUME IInv, NEW s \in Slot, NEW r \in {marker, Blank}, Reads(s, r)
    PROVE  \A f \in File : owed'[f] \in {owed[f], 0}
BY DEF Reads, Unseen

LEMMA NextSeen == IInv /\ SeenPast /\ [Next]_vars => SeenPast'
<1> SUFFICES ASSUME IInv, SeenPast, [Next]_vars PROVE SeenPast'
  OBVIOUS
<1>0. /\ ver \in [File -> Nat] /\ m \in [Slot -> Marker] /\ Blank.seen = Unseen
      /\ owed \in [File -> Nat]
      /\ \A f \in File : ver[f] <= ver[f] /\ Unseen[f] = 0
  BY BlankGood DEF IInv, TypeOK, Unseen
<1>1. CASE (\E cwd \in Folder : Seed(cwd)) \/ Lose \/ StopBlocks \/ StopPasses \/ StopWaves
  <2>1. UNCHANGED << ver, m >> /\ owed' \in {owed, Unseen}
    BY <1>1 DEF Seed, Lose, StopBlocks, StopPasses, StopWaves, files, slots, history
  <2>2. \/ marker'.seen \in {marker.seen, Unseen}
        \/ \E listed \in SUBSET File : marker'.seen = Snapshot(listed)
    BY <1>0, <1>1, CandidatesType DEF Seed, Lose, StopBlocks, StopPasses, StopWaves
  <2> QED
    BY <1>0, <2>1, <2>2, SeenKept
<1>2. ASSUME NEW f \in File, Outside(f) PROVE SeenPast'
  <2>1. PICK here \in BOOLEAN : Change(f, here)
    BY <1>2 DEF Outside
  <2>2. UNCHANGED << marker, m, owed >>
    BY <1>2 DEF Outside, slots
  <2> QED
    BY <2>1, <2>2, SeenChange, SeenKept
<1>3. ASSUME NEW s \in Slot, NEW f \in File, Write(s, f) \/ Bash(s, f) PROVE SeenPast'
  <2>1. PICK here \in BOOLEAN : Change(f, here)
    BY <1>3 DEF Write, Bash
  <2>2. UNCHANGED << marker, m >>
    BY <1>3 DEF Write, Bash, Begin
  <2>3. \A g \in File : owed'[g] \in {owed[g], 0, ver'[g]}
    BY <1>0, <1>3 DEF Write, Bash
  <2> QED
    BY <2>1, <2>2, <2>3, SeenChange, SeenKept
<1>4. ASSUME NEW s \in Slot, NEW f \in File, Read(s, f) \/ Pass(s, f) PROVE SeenPast'
  <2>1. UNCHANGED << marker, ver, owed, m >>
    BY <1>4 DEF Read, Begin, Leave, Pass, files, history
  <2> QED
    BY <1>0, <2>1, SeenKept
<1>4a. ASSUME NEW s \in Slot, Other(s) \/ Done(s) PROVE SeenPast'
  <2>1. UNCHANGED << marker, ver, owed >> /\ \A t \in Slot : m'[t].seen \in {m[t].seen, Unseen}
    BY <1>0, <1>4a DEF Other, Begin, Leave, Done, files, history
  <2> QED
    BY <1>0, <2>1, SeenKept
<1>5. ASSUME NEW s \in Slot, SweepRead(s) PROVE SeenPast'
  <2>1. PICK r \in {marker, Blank} : Reads(s, r) /\ m' = [m EXCEPT ![s] = r]
    BY <1>5 DEF SweepRead
  <2>2. UNCHANGED << marker, ver >>
    BY <1>5 DEF SweepRead, files
  <2>3. \A t \in Slot : m'[t].seen \in {m[t].seen, marker.seen, Unseen}
    BY <1>0, <2>1
  <2> QED
    BY <1>0, <2>1, <2>2, <2>3, SeenReads, SeenKept
<1>6. ASSUME NEW s \in Slot, SweepWrite(s) PROVE SeenPast'
  <2>1. UNCHANGED << ver, m, owed >>
    BY <1>6 DEF SweepWrite, files
  <2>2. PICK listed \in SUBSET File : marker'.seen = Snapshot(listed)
    BY <1>6 DEF SweepWrite
  <2> QED
    BY <1>0, <2>1, <2>2, SeenKept
<1>7. ASSUME NEW s \in Slot, NEW f \in File, RecordRead(s, f) PROVE SeenPast'
  <2>1. PICK r \in {marker, Blank} : Reads(s, r) /\ (m' = m \/ m' = [m EXCEPT ![s] = r])
    BY <1>7 DEF RecordRead
  <2>2. UNCHANGED << marker, ver >>
    BY <1>7 DEF RecordRead, files
  <2>3. \A t \in Slot : m'[t].seen \in {m[t].seen, marker.seen, Unseen}
    BY <1>0, <2>1
  <2> QED
    BY <1>0, <2>1, <2>2, <2>3, SeenReads, SeenKept
<1>8. ASSUME NEW s \in Slot, RecordWrite(s) PROVE SeenPast'
  <2>1. UNCHANGED << ver, m, owed >> /\ marker'.seen = m[s].seen
    BY <1>8 DEF RecordWrite, files, history
  <2> QED
    BY <1>0, <2>1, SeenKept
<1>9. CASE UNCHANGED vars
  <2>1. UNCHANGED << ver, owed, marker, m >>
    BY <1>9 DEF vars, files, history, slots
  <2> QED
    BY <1>0, <2>1, SeenKept
<1> QED
  BY <1>1, <1>2, <1>3, <1>4, <1>4a, <1>5, <1>6, <1>7, <1>8, <1>9 DEF Next

LEMMA NextRests == IInv /\ Rests /\ [Next]_vars => Rests'
<1> SUFFICES ASSUME IInv, Rests, [Next]_vars PROVE Rests'
  OBVIOUS
<1>1. CASE (\E cwd \in Folder : Seed(cwd)) \/ Lose \/ StopBlocks \/ StopPasses \/ StopWaves \/ (\E f \in File : Outside(f)) \/ UNCHANGED vars
  <2>1. UNCHANGED slots /\ (turn' # "open" => turn' = turn \/ Idle)
    BY <1>1 DEF Seed, Lose, StopBlocks, StopPasses, StopWaves, Outside, vars
  <2> QED
    BY <2>1 DEF slots, Rests, Idle
<1>2. ASSUME NEW s \in Slot,
             SweepRead(s) \/ SweepWrite(s) \/ RecordWrite(s) \/ Done(s)
             \/ \E f \in File : Pass(s, f) \/ RecordRead(s, f)
      PROVE  Rests'
  <2>1. pc[s] # "idle" /\ turn' = turn
    BY <1>2 DEF SweepRead, SweepWrite, RecordWrite, Done, Pass, RecordRead
  <2> QED
    BY <2>1 DEF Rests, Idle
<1>3. ASSUME NEW s \in Slot, Other(s) \/ \E f \in File : Write(s, f) \/ Bash(s, f) \/ Read(s, f)
      PROVE  Rests'
  BY <1>3 DEF Other, Write, Bash, Read, Begin, Rests
<1> QED
  BY <1>1, <1>2, <1>3 DEF Next

\* A change leaves no debt for its file but the one the call makes.
LEMMA DueChange ==
    ASSUME IInv, SeenPast, NEW f \in File, NEW here \in BOOLEAN, Change(f, here)
    PROVE  /\ \A g \in File : g # f /\ owed'[g] = owed[g] /\ Due(g)' => Due(g) /\ ver'[g] = ver[g]
           /\ owed'[f] \in {0, owed[f]} => ~Due(f)'
           /\ \A g \in File : g # f /\ g \in dropped => g \in dropped'
<1>1. /\ ver'[f] = ver[f] + 1
      /\ \A g \in File : g # f => ver'[g] = ver[g] /\ present'[g] = present[g] /\ big'[g] = big[g]
  BY SeenChange
<1>2. owed[f] <= ver[f] /\ owed[f] \in Nat /\ ver[f] \in Nat
  BY DEF SeenPast, IInv, TypeOK
<1>3. dropped' = dropped \ {f}
  BY DEF Change
<1> QED
  BY <1>1, <1>2, <1>3 DEF Due, Offends

\* A call that starts when none is running.
LEMMA AwareBegin ==
    ASSUME IInv, SeenPast, Aware, NEW s \in Slot, NEW name \in File \cup {None}, Begin(s, name),
           \A g \in File : Due(g)' =>
              \/ Due(g) /\ (g \in dropped => g \in dropped')
              \/ name = g
              \/ name = None /\ g \in marker.cands /\ marker.seen # Unseen /\ marker.seen[g] # ver'[g]
    PROVE  Aware'
<1> SUFFICES ASSUME ~overlapped' PROVE Single' /\ \A g \in File : Due(g)' => Answered(g)'
  BY DEF Aware
<1>1. /\ Idle /\ ~overlapped /\ pc' = [pc EXCEPT ![s] = "ran"] /\ named' = [named EXCEPT ![s] = name]
      /\ marker' = marker /\ m' = m /\ todo' = todo /\ cur' = cur /\ turn' = "open"
  BY DEF Begin
<1>2. /\ pc'[s] = "ran" /\ named'[s] = name /\ \A t \in Slot : t # s => pc'[t] = "idle"
  BY <1>1 DEF IInv, TypeOK, Idle
<1>3. Single'
  BY <1>2 DEF Single
<1>4. ASSUME NEW g \in File, Due(g)' PROVE Answered(g)'
  <2>1. \/ g \in dropped'
        \/ g \in marker.paths
        \/ name = g
        \/ name = None /\ g \in marker.cands /\ marker.seen # Unseen /\ marker.seen[g] # ver'[g]
    BY <1>1, <1>4 DEF Aware, Answered
  <2>2. ~Idle'
    BY <1>2 DEF Idle
  <2>3. g \notin dropped' => \A t \in Slot : Heard(t, g)'
    <3> SUFFICES ASSUME g \notin dropped', NEW t \in Slot PROVE Heard(t, g)'
      OBVIOUS
    <3>1. CASE t = s
      BY <1>1, <1>2, <2>1, <3>1 DEF Heard, Shown
    <3>2. CASE t # s
      BY <1>2, <3>2 DEF Heard
    <3> QED
      BY <3>1, <3>2
  <2> QED
    BY <1>1, <2>2, <2>3 DEF Answered
<1> QED
  BY <1>3, <1>4

\* A step of the only call there is: what it leaves of the file that is due.
LEMMA AwareHook ==
    ASSUME IInv, Rests, Aware, NEW s \in Slot, pc[s] # "idle",
           UNCHANGED << ver, present, big, turn, overlapped >>,
           \A t \in Slot \ {s} : pc'[t] = pc[t],
           \A f \in File : owed'[f] \in {owed[f], 0}, dropped \subseteq dropped',
           ~overlapped => \A f \in File : Due(f) /\ Due(f)' /\ f \notin dropped' =>
               Heard(s, f)' /\ (pc'[s] = "idle" => f \in marker'.paths)
    PROVE  Aware'
<1> SUFFICES ASSUME ~overlapped PROVE Single' /\ \A f \in File : Due(f)' => Answered(f)'
  BY DEF Aware
<1>1. \A t \in Slot : t # s => pc[t] = "idle" /\ pc'[t] = "idle"
  BY DEF Aware, Single
<1>2. Single'
  BY <1>1 DEF Single
<1>3. ASSUME NEW f \in File, Due(f)' PROVE Answered(f)'
  <2>1. Due(f)
    <3>1. ver[f] >= 1 /\ owed[f] \in Nat
      BY DEF IInv, Counted, TypeOK
    <3> QED
      BY <1>3, <3>1 DEF Due, Offends
  <2>2. f \notin dropped' => Heard(s, f)' /\ (pc'[s] = "idle" => f \in marker'.paths)
    BY <1>3, <2>1
  <2>3. turn = "open"
    BY DEF Rests, Idle, IInv, TypeOK
  <2>4. f \notin dropped' => \A t \in Slot : Heard(t, f)'
    BY <1>1, <2>2 DEF Heard
  <2> QED
    BY <2>2, <2>3, <2>4 DEF Answered, Idle
<1> QED
  BY <1>2, <1>3

\* With one call running a read finds the marker.
LEMMA ReadsWhole ==
    ASSUME IInv, Aware, ~overlapped, NEW s \in Slot, pc[s] # "idle", NEW r \in {marker, Blank}, Reads(s, r)
    PROVE  r = marker /\ owed' = owed
BY DEF Reads, Writing, Aware, Single

LEMMA NextAware == IInv /\ Known /\ [Next]_vars => Aware'
<1> SUFFICES ASSUME IInv, Known, [Next]_vars PROVE Aware'
  OBVIOUS
<1>0. /\ ver \in [File -> Nat] /\ m \in [Slot -> Marker] /\ owed \in [File -> Nat] /\ todo \in [Slot -> SUBSET File]
      /\ pc \in [Slot -> {"idle", "ran", "sweep", "judge", "append"}] /\ cur \in [Slot -> File \cup {None}]
      /\ named \in [Slot -> File \cup {None}] /\ marker \in Marker
      /\ \A f \in File : ver[f] >= 1 /\ Unseen[f] = 0
      /\ SeenPast /\ Rests /\ Aware
  BY DEF IInv, TypeOK, Counted, Unseen, Known
<1>1. CASE \E cwd \in Folder : Seed(cwd)
  <2>1. /\ Idle /\ UNCHANGED << ver, present, big, slots, turn, owed, overlapped >>
        /\ marker'.paths = marker.paths /\ marker'.fired = marker.fired /\ dropped \subseteq dropped'
    BY <1>1 DEF Seed, Walks, files
  <2> QED
    BY <1>0, <2>1 DEF slots, Aware, Single, Due, Offends, Answered, Heard, Idle, Said
<1>2. CASE Lose
  BY <1>0, <1>2 DEF Lose, files, slots, Aware, Single, Due, Offends
<1>3. CASE StopBlocks
  BY <1>0, <1>3 DEF StopBlocks, files, slots, Aware, Single, Due, Offends, Answered, Heard, Idle, Said
<1>4. CASE StopPasses \/ StopWaves
  <2>1. Idle /\ UNCHANGED << ver, present, big, owed, marker, pc, named, m, todo, cur, overlapped, dropped >>
    BY <1>4 DEF StopPasses, StopWaves, files, slots, history
  <2>2. ASSUME NEW f \in File, Due(f), ~overlapped, f \in marker.paths
        PROVE  turn' = "ended" => marker.fired[f] = ver[f]
    <3>1. f \in marker.paths /\ Offends(f) /\ Sig(f) = ver[f]
      BY <2>2 DEF Due, Offends, Sig
    <3> QED
      BY <1>4, <3>1 DEF StopPasses, StopWaves, Still
  <2> QED
    BY <1>0, <2>1, <2>2 DEF Aware, Single, Due, Offends, Answered, Heard, Idle, Shown, Said
<1>5. ASSUME NEW f \in File, Outside(f) PROVE Aware'
  <2>1. PICK here \in BOOLEAN : Change(f, here)
    BY <1>5 DEF Outside
  <2>2. UNCHANGED << marker, pc, named, m, todo, cur, turn, owed, overlapped >>
    BY <1>5 DEF Outside, slots
  <2>3. \A g \in File : Due(g)' => Due(g) /\ ver'[g] = ver[g] /\ (g \in dropped => g \in dropped')
    BY <1>0, <2>1, <2>2, DueChange
  <2> QED
    BY <1>0, <2>2, <2>3 DEF Aware, Single, Answered, Heard, Idle, Shown, Said
<1>6. ASSUME NEW s \in Slot, NEW f \in File, Write(s, f) PROVE Aware'
  <2>1. Begin(s, f) /\ Change(f, TRUE) /\ \A g \in File : g # f => owed'[g] = owed[g]
    BY <1>0, <1>6 DEF Write
  <2> QED
    BY <1>0, <2>1, DueChange, AwareBegin
<1>7. ASSUME NEW s \in Slot, NEW f \in File, Bash(s, f) PROVE Aware'
  <2>1. PICK here \in BOOLEAN : Change(f, here)
    BY <1>7 DEF Bash
  <2>2. /\ Begin(s, None) /\ \A g \in File : g # f => owed'[g] = owed[g]
        /\ owed'[f] = IF Watched(f) THEN ver'[f] ELSE 0
    BY <1>0, <1>7 DEF Bash
  <2>3. Watched(f) => f \in marker.cands /\ marker.seen # Unseen /\ marker.seen[f] # ver'[f]
    <3>1. marker.seen[f] <= ver[f] /\ ver'[f] = ver[f] + 1 /\ marker.seen[f] \in Nat /\ ver[f] \in Nat
      BY <1>0, <2>1, SeenChange DEF SeenPast, Marker
    <3> QED
      BY <3>1 DEF Watched
  <2> QED
    BY <1>0, <2>1, <2>2, <2>3, DueChange, AwareBegin
<1>8. ASSUME NEW s \in Slot, Other(s) \/ \E f \in File : Read(s, f) PROVE Aware'
  <2>1. PICK name \in File \cup {None} : Begin(s, name)
    BY <1>8 DEF Other, Read
  <2>2. UNCHANGED << ver, present, big, owed, dropped >>
    BY <1>8 DEF Other, Read, Leave, files
  <2>3. \A g \in File : Due(g)' => Due(g) /\ (g \in dropped => g \in dropped')
    BY <2>2 DEF Due, Offends
  <2> QED
    BY <1>0, <2>1, <2>3, AwareBegin
<1>9. ASSUME NEW s \in Slot, SweepRead(s) PROVE Aware'
  <2>1. PICK r \in {marker, Blank} : Reads(s, r) /\ m' = [m EXCEPT ![s] = r]
    BY <1>9 DEF SweepRead
  <2>2. /\ pc[s] = "ran" /\ pc' = [pc EXCEPT ![s] = "sweep"]
        /\ UNCHANGED << ver, present, big, turn, overlapped, dropped, marker, named, todo, cur >>
    BY <1>9 DEF SweepRead, files
  <2>3. ASSUME ~overlapped, NEW f \in File, Due(f), f \notin dropped PROVE Heard(s, f)'
    <3>1. m'[s] = marker /\ pc'[s] = "sweep"
      BY <1>0, <2>1, <2>2, <2>3, ReadsWhole
    <3>2. Heard(s, f)
      BY <1>0, <2>3 DEF Aware, Answered
    <3> QED
      BY <2>2, <3>1, <3>2 DEF Heard, Shown
  <2> QED
    BY <1>0, <2>1, <2>2, <2>3, SeenReads, AwareHook
<1>10. ASSUME NEW s \in Slot, SweepWrite(s) PROVE Aware'
  <2>1. PICK listed \in SUBSET File :
           /\ Lists(s, listed)
           /\ marker' = [paths |-> m[s].paths, fired |-> m[s].fired, seen |-> Snapshot(listed), cands |-> listed]
           /\ todo' = [todo EXCEPT ![s] = IF named[s] # None THEN {named[s]} ELSE Differing(s, Snapshot(listed))]
    BY <1>10 DEF SweepWrite
  <2>2. /\ pc[s] = "sweep" /\ pc' = [pc EXCEPT ![s] = "judge"]
        /\ UNCHANGED << ver, present, big, turn, overlapped, owed, named, m, cur >>
        /\ dropped \subseteq dropped'
    BY <1>10, <2>1 DEF SweepWrite, Lists, Walks, files
  <2>3. ASSUME ~overlapped, NEW f \in File, Due(f), f \notin dropped' PROVE Heard(s, f)'
    <3>1. Heard(s, f)
      BY <1>0, <2>2, <2>3 DEF Aware, Answered
    <3>2. pc'[s] = "judge" /\ marker'.paths = m[s].paths
          /\ todo'[s] = IF named[s] # None THEN {named[s]} ELSE Differing(s, Snapshot(listed))
      BY <1>0, <2>1, <2>2
    <3>3. CASE f \in m[s].paths \/ named[s] = f
      BY <3>2, <3>3, NoneAssumption DEF Heard
    <3>4. CASE named[s] = None /\ Shown(f, m[s])
      <4>1. f \in listed
        BY <2>1, <2>3, <3>4 DEF Lists, Shown, Walks, Due, Offends
      <4>2. Snapshot(listed)[f] = ver[f] /\ ver[f] # 0
        BY <1>0, <2>3, <4>1 DEF Snapshot, Sig, Due, Offends
      <4>3. f \in Differing(s, Snapshot(listed))
        BY <3>4, <4>2 DEF Differing, Shown
      <4> QED
        BY <3>2, <3>4, <4>3 DEF Heard
    <3> QED
      BY <2>2, <3>1, <3>3, <3>4 DEF Heard
  <2> QED
    BY <1>0, <2>2, <2>3, AwareHook
<1>11. ASSUME NEW s \in Slot, NEW f \in File, Pass(s, f) PROVE Aware'
  <2>1. /\ pc[s] = "judge" /\ ~Offends(f) /\ todo' = [todo EXCEPT ![s] = @ \ {f}]
        /\ UNCHANGED << ver, present, big, turn, overlapped, owed, dropped, named, m, cur, pc, marker >>
    BY <1>11 DEF Pass, files, history
  <2>2. ASSUME ~overlapped, NEW g \in File, Due(g), g \notin dropped PROVE Heard(s, g)'
    <3>1. Heard(s, g) /\ g # f
      BY <1>0, <2>1, <2>2 DEF Aware, Answered, Due
    <3>2. todo'[s] = todo[s] \ {f}
      BY <1>0, <2>1
    <3> QED
      BY <2>1, <3>1, <3>2 DEF Heard
  <2> QED
    BY <1>0, <2>1, <2>2, AwareHook
<1>12. ASSUME NEW s \in Slot, NEW f \in File, RecordRead(s, f) PROVE Aware'
  <2>1. PICK r \in {marker, Blank} :
           /\ Reads(s, r)
           /\ \/ f \in r.paths /\ UNCHANGED << pc, m, cur >>
              \/ /\ f \notin r.paths /\ m' = [m EXCEPT ![s] = r] /\ cur' = [cur EXCEPT ![s] = f]
                 /\ pc' = [pc EXCEPT ![s] = "append"]
    BY <1>12 DEF RecordRead
  <2>2. /\ pc[s] = "judge" /\ todo' = [todo EXCEPT ![s] = @ \ {f}]
        /\ UNCHANGED << ver, present, big, turn, overlapped, dropped, marker, named >>
    BY <1>12 DEF RecordRead, files
  <2>3. ASSUME ~overlapped, NEW g \in File, Due(g), g \notin dropped PROVE Heard(s, g)' /\ pc'[s] # "idle"
    <3>1. Heard(s, g) /\ r = marker /\ todo'[s] = todo[s] \ {f}
      BY <1>0, <2>1, <2>2, <2>3, ReadsWhole DEF Aware, Answered
    <3>2. CASE f \in r.paths /\ UNCHANGED << pc, m, cur >>
      BY <2>2, <3>1, <3>2 DEF Heard
    <3>3. CASE m' = [m EXCEPT ![s] = r] /\ cur' = [cur EXCEPT ![s] = f] /\ pc' = [pc EXCEPT ![s] = "append"]
      <4>1. m'[s] = marker /\ cur'[s] = f /\ pc'[s] = "append"
        BY <1>0, <3>1, <3>3
      <4> QED
        BY <2>2, <3>1, <4>1 DEF Heard
    <3> QED
      BY <2>1, <3>2, <3>3
  <2>4. \A t \in Slot \ {s} : pc'[t] = pc[t]
    BY <1>0, <2>1
  <2> QED
    BY <1>0, <2>1, <2>2, <2>3, <2>4, SeenReads, AwareHook
<1>13. ASSUME NEW s \in Slot, RecordWrite(s) PROVE Aware'
  <2>1. /\ pc[s] = "append" /\ pc' = [pc EXCEPT ![s] = "judge"]
        /\ marker'.paths = m[s].paths \cup {cur[s]}
        /\ UNCHANGED << ver, present, big, turn, overlapped, owed, dropped, named, m, cur, todo >>
    BY <1>13 DEF RecordWrite, files, history
  <2>2. ASSUME ~overlapped, NEW g \in File, Due(g), g \notin dropped PROVE Heard(s, g)'
    <3>1. Heard(s, g) /\ pc'[s] = "judge"
      BY <1>0, <2>1, <2>2 DEF Aware, Answered
    <3> QED
      BY <2>1, <3>1 DEF Heard
  <2> QED
    BY <1>0, <2>1, <2>2, AwareHook
<1>14. ASSUME NEW s \in Slot, Done(s) PROVE Aware'
  <2>1. /\ pc[s] = "judge" /\ todo[s] = {} /\ pc' = [pc EXCEPT ![s] = "idle"]
        /\ UNCHANGED << ver, present, big, turn, overlapped, owed, dropped, marker, todo >>
    BY <1>14 DEF Done, files, history
  <2>2. ASSUME ~overlapped, NEW g \in File, Due(g), g \notin dropped PROVE Heard(s, g)' /\ g \in marker'.paths
    <3>1. Heard(s, g) /\ pc'[s] = "idle"
      BY <1>0, <2>1, <2>2 DEF Aware, Answered
    <3> QED
      BY <2>1, <3>1 DEF Heard
  <2> QED
    BY <1>0, <2>1, <2>2, AwareHook
<1>15. CASE UNCHANGED vars
  BY <1>0, <1>15 DEF vars, files, slots, history, Aware, Single, Due, Offends, Answered, Heard, Idle, Shown, Said
<1> QED
  BY <1>1, <1>2, <1>3, <1>4, <1>5, <1>6, <1>7, <1>8, <1>9, <1>10, <1>11, <1>12, <1>13, <1>14, <1>15 DEF Next

\* When a turn ends unopposed, every file its tools wrote too big has been
\* refused with the content it has, if the guard watched it, tool calls ran one
\* at a time, and the file was noted or no walk of another folder left it out:
\* no loss of the marker, no seeding and no edit from outside lets such a file
\* slip through (seedSnapshot, changedFiles, stopBlock).
THEOREM EndsKnownTheorem == Spec => []EndsKnown
<1>1. Init => Known
  <2> SUFFICES ASSUME Init PROVE Known
    OBVIOUS
  <2>1. \A f \in File : owed[f] = 0 /\ ver[f] = 1 /\ marker.seen[f] = 0 /\ \A s \in Slot : m[s].seen[f] = 0
    BY BlankGood DEF Init, Unseen
  <2> QED
    BY <2>1 DEF Init, Known, SeenPast, Rests, Aware, Single, Due
<1>2. Known => EndsKnown
  BY DEF Known, Rests, Aware, Answered, EndsKnown
<1>3. IInv /\ Known /\ [Next]_vars => Known'
  BY NextSeen, NextRests, NextAware DEF Known
<1> QED
  BY <1>1, <1>2, <1>3, InitIInv, NextIInv, PTL DEF Spec
=============================================================================
