------------------------------ MODULE MdBudget ------------------------------
(***************************************************************************)
(* mdbudget: the guard that keeps instruction files inside a budget.       *)
(*                                                                         *)
(* It is a process per hook event.  What one session knows is a file in    *)
(* the temporary directory, the marker: SessionStart seeds it with the     *)
(* signature of every instruction file, PostToolUse compares the files     *)
(* with it and notes those the tool call left too big, and Stop refuses    *)
(* the end of the turn for a noted file, once per content.                 *)
(*                                                                         *)
(* The marker is read and written with no lock, and tool calls of one turn *)
(* may run at the same time, so each hook's reads and writes are steps.    *)
(* Every event names the folder the session is in, and a hook that walks   *)
(* the tree walks that one.  A version stands for a signature (size and    *)
(* mtime).                                                                 *)
(***************************************************************************)
EXTENDS Integers, FiniteSets

CONSTANTS
    File,           (* paths an instruction file may have                  *)
    Home,           (* those listed from any folder, absent or not         *)
    Folder, Under,  (* where the session may be, what a walk of it passes  *)
    Slot,           (* tool calls that may run at once                     *)
    MaxEdits, MaxLooks, MaxLost    (* bounds                               *)

ASSUME BudgetAssumption ==
    /\ Home \subseteq File
    /\ Under \in [Folder -> SUBSET File]
    /\ MaxEdits \in Nat /\ MaxLooks \in Nat /\ MaxLost \in Nat

None == "none"
ASSUME NoneAssumption == None \notin File

Unseen == [f \in File |-> 0]
Marker == [paths : SUBSET File, fired : [File -> Nat], seen : [File -> Nat], cands : SUBSET File]

\* newMarker, and what an unreadable marker is taken for.
Blank == [paths |-> {}, fired |-> Unseen, seen |-> Unseen, cands |-> {}]

VARIABLES
    ver, present, big,      \* the files: content, existence, over the floor
    marker,                 \* the session's marker file
    pc, named, m, todo, cur,\* per tool call: its hook, the file it names, the
                            \* marker it read, the files to measure, the one to note
    active,                 \* stop_hook_active of the next Stop
    turn,                   \* open, ended, or waved through
    edits, looks, lost,     \* how often files changed, calls changed nothing,
                            \* and the marker was lost
    owed,                   \* history: versions the guard should have noticed
    nags,                   \* history: refusals of a file as it is now
    overlapped,             \* history: two tool calls ran at once
    opened,                 \* history: files a call named and left alone
    dropped                 \* history: files a walk of another folder left out
                            \* since they changed

files == << ver, present, big >>
slots == << pc, named, m, todo, cur >>
history == << owed, nags, overlapped, opened, dropped >>
vars == << files, marker, slots, active, turn, edits, looks, lost, history >>

-----------------------------------------------------------------------------
(* What a hook sees.                                                        *)

\* signature: 0 when there is no file.
Sig(f) == IF present[f] THEN ver[f] ELSE 0

\* measure against nearLimit.
Offends(f) == present[f] /\ big[f]

\* allCandidatePaths: the files of the home directory, and those under cwd.
Candidates(cwd) == Home \cup {f \in Under[cwd] : present[f]}

\* snapshotOf
Snapshot(listed) == [f \in File |-> IF f \in listed THEN Sig(f) ELSE 0]

Idle == \A s \in Slot : pc[s] = "idle"

Writing(s) == pc[s] \in {"sweep", "append"}

\* readMarker: the marker, or nothing when another hook is writing it, which
\* counts as a loss of it.
Reads(s, r) ==
    \/ /\ r = marker /\ UNCHANGED << lost, owed >>
    \/ /\ r = Blank /\ \E t \in Slot \ {s} : Writing(t)
       /\ lost < MaxLost /\ lost' = lost + 1 /\ owed' = Unseen

Init ==
    /\ ver = [f \in File |-> 1]
    /\ present \in [File -> BOOLEAN] /\ big \in [File -> BOOLEAN]
    /\ \A f \in File : big[f] => present[f]
    /\ marker = Blank
    /\ pc = [s \in Slot |-> "idle"] /\ named = [s \in Slot |-> None]
    /\ m = [s \in Slot |-> Blank] /\ todo = [s \in Slot |-> {}] /\ cur = [s \in Slot |-> None]
    /\ active = FALSE /\ turn = "open" /\ edits = 0 /\ looks = 0 /\ lost = 0
    /\ owed = Unseen /\ nags = Unseen /\ overlapped = FALSE /\ opened = {}
    /\ dropped = {}

-----------------------------------------------------------------------------
(* The session and the world around it.                                     *)

\* A file is written or made, or it is removed.
Change(f, here) ==
    /\ edits < MaxEdits /\ edits' = edits + 1 /\ UNCHANGED looks
    /\ ver' = [ver EXCEPT ![f] = @ + 1]
    /\ present' = [present EXCEPT ![f] = here]
    /\ \E fat \in BOOLEAN : big' = [big EXCEPT ![f] = here /\ fat]
    /\ nags' = [nags EXCEPT ![f] = 0]
    /\ dropped' = dropped \ {f}

Leave ==
    /\ looks < MaxLooks /\ looks' = looks + 1
    /\ UNCHANGED << files, edits, owed, nags, dropped >>

Begin(s, name) ==
    /\ pc[s] = "idle" /\ pc' = [pc EXCEPT ![s] = "ran"] /\ named' = [named EXCEPT ![s] = name]
    /\ turn' = "open" /\ overlapped' = (overlapped \/ ~Idle)
    /\ UNCHANGED << marker, m, todo, cur, active, lost >>

\* The guard watches a file it has listed, once it has seen any.
Watched(f) == f \in marker.cands /\ marker.seen # Unseen

Write(s, f) ==
    /\ Begin(s, f) /\ Change(f, TRUE)
    /\ owed' = [owed EXCEPT ![f] = ver'[f]] /\ UNCHANGED opened

Bash(s, f) ==
    /\ Begin(s, None) /\ \E here \in BOOLEAN : Change(f, here)
    /\ owed' = [owed EXCEPT ![f] = IF Watched(f) THEN ver'[f] ELSE 0] /\ UNCHANGED opened

\* A call that names the file and leaves it as it is.
Read(s, f) ==
    /\ Begin(s, f) /\ Leave /\ opened' = opened \cup {f}

\* A call that names no instruction file and changes none.
Other(s) == Begin(s, None) /\ Leave /\ UNCHANGED opened

\* Another program edits a file.
Outside(f) ==
    /\ \E here \in BOOLEAN : Change(f, here)
    /\ UNCHANGED << marker, slots, active, turn, lost, owed, overlapped, opened >>

\* The temporary directory is cleaned.
Lose ==
    /\ lost < MaxLost /\ lost' = lost + 1
    /\ marker' = Blank /\ owed' = Unseen
    /\ UNCHANGED << files, slots, active, turn, edits, looks, nags, overlapped, opened, dropped >>

-----------------------------------------------------------------------------
(* The hooks.                                                               *)

\* History: a walk forgets the files it does not pass.
Walks(listed) == dropped' = dropped \cup {f \in File \ listed : present[f]}

\* Mutant: seeding starts from an empty marker.
Seed_Fresh(cwd) ==
    /\ Idle
    /\ marker' = [paths |-> {}, fired |-> Unseen,
                  seen |-> Snapshot(Candidates(cwd)), cands |-> Candidates(cwd)]
    /\ Walks(Candidates(cwd))
    /\ UNCHANGED << files, slots, active, turn, edits, looks, lost, owed, nags, overlapped, opened >>

\* SessionStart, which a compaction or a resumption sends again: seedSnapshot.
Seed(cwd) ==
    /\ Idle
    /\ marker' = [paths |-> marker.paths, fired |-> marker.fired,
                  seen |-> Snapshot(Candidates(cwd)), cands |-> Candidates(cwd)]
    /\ Walks(Candidates(cwd))
    /\ UNCHANGED << files, slots, active, turn, edits, looks, lost, owed, nags, overlapped, opened >>

\* PostToolUse: changedFiles reads the marker ...
SweepRead(s) ==
    /\ pc[s] = "ran"
    /\ \E r \in {marker, Blank} : Reads(s, r) /\ m' = [m EXCEPT ![s] = r]
    /\ pc' = [pc EXCEPT ![s] = "sweep"]
    /\ UNCHANGED << files, marker, named, todo, cur, active, turn, edits, looks, nags, overlapped,
                    opened, dropped >>

\* candidates: the marker's list, or a walk of cwd when it is empty or expired.
Lists(s, listed) ==
    \/ listed = m[s].cands /\ listed # {} /\ UNCHANGED dropped
    \/ \E cwd \in Folder : listed = Candidates(cwd) /\ Walks(listed)

\* Mutant: with no snapshot every file counts as changed.
Differing_Always(s, seen) == {f \in File : seen[f] # 0 /\ m[s].seen[f] # seen[f]}

\* The files that differ from the snapshot; none when there is no snapshot.
Differing(s, seen) ==
    IF m[s].seen = Unseen THEN {} ELSE {f \in File : seen[f] # 0 /\ m[s].seen[f] # seen[f]}

\* ... and writes the new snapshot.  A call that names an instruction file is
\* judged on that file, any other on what changed.
SweepWrite(s) ==
    /\ pc[s] = "sweep"
    /\ \E listed \in SUBSET File :
           LET seen == Snapshot(listed)
           IN  /\ Lists(s, listed)
               /\ marker' = [paths |-> m[s].paths, fired |-> m[s].fired,
                             seen |-> seen, cands |-> listed]
               /\ todo' = [todo EXCEPT ![s] =
                      IF named[s] # None THEN {named[s]} ELSE Differing(s, seen)]
    /\ pc' = [pc EXCEPT ![s] = "judge"]
    /\ UNCHANGED << files, named, m, cur, active, turn, edits, looks, lost, owed, nags, overlapped, opened >>

\* editReport measures each file, and recordOffender reads the marker again ...
Pass(s, f) ==
    /\ pc[s] = "judge" /\ f \in todo[s] /\ ~Offends(f)
    /\ todo' = [todo EXCEPT ![s] = @ \ {f}]
    /\ UNCHANGED << files, marker, pc, named, m, cur, active, turn, edits, looks, lost, history >>

RecordRead(s, f) ==
    /\ pc[s] = "judge" /\ f \in todo[s] /\ Offends(f)
    /\ todo' = [todo EXCEPT ![s] = @ \ {f}]
    /\ \E r \in {marker, Blank} :
        /\ Reads(s, r)
        /\ \/ /\ f \in r.paths /\ UNCHANGED << pc, m, cur >>
           \/ /\ f \notin r.paths
              /\ m' = [m EXCEPT ![s] = r] /\ cur' = [cur EXCEPT ![s] = f]
              /\ pc' = [pc EXCEPT ![s] = "append"]
    /\ UNCHANGED << files, marker, named, active, turn, edits, looks, nags, overlapped, opened,
                    dropped >>

\* ... and writes it with the file.
RecordWrite(s) ==
    /\ pc[s] = "append"
    /\ marker' = [paths |-> m[s].paths \cup {cur[s]}, fired |-> m[s].fired,
                  seen |-> m[s].seen, cands |-> m[s].cands]
    /\ pc' = [pc EXCEPT ![s] = "judge"]
    /\ UNCHANGED << files, named, m, todo, cur, active, turn, edits, looks, lost, history >>

Done(s) ==
    /\ pc[s] = "judge" /\ todo[s] = {}
    /\ pc' = [pc EXCEPT ![s] = "idle"] /\ named' = [named EXCEPT ![s] = None]
    /\ m' = [m EXCEPT ![s] = Blank] /\ cur' = [cur EXCEPT ![s] = None]
    /\ UNCHANGED << files, marker, todo, active, turn, edits, looks, lost, history >>

\* stopBlock, when the turn's tool calls are over.
Still == {f \in marker.paths : Offends(f) /\ marker.fired[f] # Sig(f)}

\* Mutant: a refusal forgets the ones before.
Fire_Only == [f \in File |-> IF f \in Still THEN Sig(f) ELSE 0]

Fire == [f \in File |-> IF f \in Still THEN Sig(f) ELSE marker.fired[f]]

StopBlocks ==
    /\ Idle /\ turn = "open" /\ ~active /\ Still # {}
    /\ marker' = [paths |-> marker.paths, fired |-> Fire, seen |-> marker.seen, cands |-> marker.cands]
    /\ nags' = [f \in File |-> IF f \in Still THEN nags[f] + 1 ELSE nags[f]]
    /\ active' = TRUE
    /\ UNCHANGED << files, slots, turn, edits, looks, lost, owed, overlapped, opened, dropped >>

StopPasses ==
    /\ Idle /\ turn = "open" /\ ~active /\ Still = {}
    /\ turn' = "ended"
    /\ UNCHANGED << files, marker, slots, active, edits, looks, lost, history >>

\* stop_hook_active: the turn that a refusal prolonged ends.
StopWaves ==
    /\ Idle /\ turn = "open" /\ active
    /\ turn' = "waved" /\ active' = FALSE
    /\ UNCHANGED << files, marker, slots, edits, looks, lost, history >>

Next ==
    \/ (\E cwd \in Folder : Seed(cwd)) \/ Lose \/ StopBlocks \/ StopPasses \/ StopWaves
    \/ \E f \in File : Outside(f)
    \/ \E s \in Slot : \/ SweepRead(s) \/ SweepWrite(s) \/ RecordWrite(s) \/ Done(s) \/ Other(s)
                       \/ \E f \in File : \/ Write(s, f) \/ Bash(s, f) \/ Read(s, f)
                                          \/ Pass(s, f) \/ RecordRead(s, f)

Spec == Init /\ [][Next]_vars

-----------------------------------------------------------------------------
(* Properties.                                                              *)

\* Every variable keeps its type.
TypeOK ==
    /\ ver \in [File -> Nat] /\ present \in [File -> BOOLEAN] /\ big \in [File -> BOOLEAN]
    /\ marker \in Marker /\ m \in [Slot -> Marker]
    /\ pc \in [Slot -> {"idle", "ran", "sweep", "judge", "append"}]
    /\ named \in [Slot -> File \cup {None}] /\ cur \in [Slot -> File \cup {None}]
    /\ todo \in [Slot -> SUBSET File]
    /\ active \in BOOLEAN /\ turn \in {"open", "ended", "waved"}
    /\ edits \in Nat /\ looks \in Nat /\ lost \in Nat
    /\ owed \in [File -> Nat] /\ nags \in [File -> Nat]
    /\ overlapped \in BOOLEAN /\ opened \subseteq File /\ dropped \subseteq File

\* "a file left as the gate found it never blocks again" (stopBlock), "losing
\* it costs a nag" (writeMarker): a file as it is now is refused once, and once
\* more for each time the marker was lost, whatever parallel hooks write.
NeverTwice == \A f \in File : nags[f] <= 1 + lost

\* "Watching files rather than tool_input.file_path" (changedFiles): whatever
\* parallel hooks and lost markers leave of the snapshot, a file is held against
\* the session only when it changed, a call named it, or a walk of another
\* folder left it out: then it counts as changed on the way back, though "a file
\* the session never touched must not block the turn" (hook_test.go:322-323).
BlamesOnlyChanged == \A f \in marker.paths : ver[f] # 1 \/ f \in opened \cup dropped

\* A file tools wrote too big that stands as they left it, watched meanwhile.
Due(f) == Offends(f) /\ owed[f] = ver[f]
Said(f) == marker.fired[f] = ver[f]

\* "or the earliest Bash-written edit gets away" (seedSnapshot), "catches a
\* Bash edit" (changedFiles): when a turn ends unopposed, every file its tools
\* wrote too big has been refused with the content it has, if the guard
\* watched the file, tool calls ran one at a time, and the file was noted or no
\* walk left it out: the sweep after the edit may walk the folder the session
\* has moved to, and drop the file.
EndsKnown == turn = "ended" /\ ~overlapped =>
    \A f \in File : Due(f) /\ (f \in marker.paths \/ f \notin dropped) => Said(f)
=============================================================================
