------------------------------ MODULE BusyPoll ------------------------------
(***************************************************************************)
(* The busy-poll guard (busypoll) over a session and its transcript.       *)
(* Before a tool call it refuses a status read that can learn nothing: the *)
(* subject has settled, or this session has read it and nothing happened   *)
(* since.  At Stop it refuses to end the latest of a run of closely spaced *)
(* turns that made the same calls.                                         *)
(*                                                                         *)
(* A record keeps its age in ticks instead of a time, counted no further   *)
(* than the guard tells apart, so the session may run for ever; the guard  *)
(* reads the tail of the transcript, and only that tail is kept.           *)
(***************************************************************************)
EXTENDS Naturals, Sequences, FiniteSets, SequencesExt, FiniteSetsExt

CONSTANTS Subject,     (* pull requests and commits                         *)
          Read,        (* status reads, by tool and wording                 *)
          About,       (* the subject of each                               *)
          Gap,         (* maxGap: more ticks than this are a real wait      *)
          Threshold,   (* how many identical turns are refused              *)
          Kept,        (* bound: the records transcriptTailBytes holds      *)
          MaxCalls,    (* bound: the calls of a turn                        *)
          None         (* no subject                                        *)

ASSUME BusyAssumption ==
    /\ About \in [Read -> Subject] /\ "push" \notin Read
    /\ Gap \in Nat /\ MaxCalls \in Nat
    /\ Kept \in Nat /\ Kept > 2 * MaxCalls   \* a call stays until its result
    /\ Threshold \in Nat /\ Threshold > 1
    /\ None \notin Subject

\* What the assistant can call: a status read, a push or a commit, which make
\* the answers new, and any other tool.
Call == Read \cup {"push", "work"}

\* A prompt may follow a real wait; a result has the number of records since
\* its call; either may report that a subject settled.  An answer is an error,
\* tells the state, or brings what the user typed meanwhile.
Answer == {"error", "state", "typed"}
Age == 0 .. Gap + 1
Record ==
    [kind : {"prompt"}, waited : BOOLEAN, settles : Subject \cup {None}, age : Age] \cup
    [kind : {"call"}, call : Call, age : Age] \cup
    [kind : {"result"}, back : 1 .. Kept, answer : Answer, settles : Subject \cup {None}, age : Age]

VARIABLES
    remote,     \* remoteSession: events wake this session
    records,    \* the transcript's tail
    busy,       \* the session is working on a prompt
    heeding,    \* it answers a refusal of this guard, and makes no call
    pending,    \* calls without a result, as indices into records
    calls       \* the calls of this turn

vars == << remote, records, busy, heeding, pending, calls >>

Init ==
    /\ remote \in BOOLEAN
    /\ records = << >>
    /\ busy = FALSE /\ heeding = FALSE /\ pending = {} /\ calls = 0

-----------------------------------------------------------------------------
(* What the guard reads.                                                    *)

Reads(i, s) == records[i].kind = "call" /\ records[i].call \in Read /\ About[records[i].call] = s
Answers(i, c) == records[i].kind = "result" /\ i - records[i].back = c
Told(i, answer) == records[i].kind = "result" /\ records[i].answer = answer

\* A prompt, a message typed meanwhile, or a call that changes the answers.
Signal(i) ==
    \/ records[i].kind = "prompt" \/ Told(i, "typed")
    \/ records[i].kind = "call" /\ records[i].call = "push"
Settles(i, s) == records[i].kind # "call" /\ records[i].settles = s

\* Mutant: evidence never ages.
RecentFrom_All == 1

\* recentRecords: the first record inside the window, or one past the last.
RecentFrom ==
    LET recent == {i \in DOMAIN records : records[i].age <= Gap}
    IN  IF recent = {} THEN Len(records) + 1 ELSE Min(recent)

Recent == RecentFrom .. Len(records)

\* terminalSubjects
Terminal == LET recent == Recent IN {s \in Subject : \E i \in recent : Settles(i, s)}

\* Mutant: the result of a tool counts as a prompt.
LastSignal_Result ==
    Max({RecentFrom} \cup {i \in Recent : Signal(i) \/ records[i].kind = "result"})

LastSignal == Max({RecentFrom} \cup {i \in Recent : Signal(i)})

\* Mutant: a read counts although its answer was an error.
AlreadyRead_Failed ==
    LET since == LastSignal .. Len(records)
    IN  {s \in Subject : \E c, i \in since : Reads(c, s) /\ Answers(i, c)}

\* readSinceLastSignal
AlreadyRead ==
    LET since == LastSignal .. Len(records)
    IN  {s \in Subject : \E c \in since :
            /\ Reads(c, s)
            /\ \E i \in since : Answers(i, c)
            /\ \A i \in since : Answers(i, c) => ~Told(i, "error")}

\* judgeCall
Refused(s) == s \in Terminal \/ (remote /\ s \in AlreadyRead)

\* parseTurns: where the turns of the tail begin, and the calls of each.
Starts == SetToSortSeq({i \in DOMAIN records : i = 1 \/ records[i].kind = "prompt"}, <)
Signatures ==
    LET at == Starts \o << Len(records) + 1 >>
    IN  [k \in DOMAIN Starts |-> [c \in Call |-> Cardinality({i \in at[k] .. at[k + 1] - 1 :
            records[i].kind = "call" /\ records[i].call = c})]]
NoCalls == [c \in Call |-> 0]

\* Turns last - n + 1 .. last made the same calls, with no real wait between.
SameRun(n, at, sig) ==
    \A k \in Len(at) - n + 1 .. Len(at) :
        /\ sig[k] = sig[Len(at)]
        /\ k > Len(at) - n + 1 => ~records[at[k]].waited

\* Mutant: turns that made no call are a run like any other.
Streak_Quiet ==
    LET at == Starts sig == Signatures
    IN  IF at = << >> THEN 0 ELSE Max({n \in 1 .. Len(at) : SameRun(n, at, sig)})

Streak ==
    LET at == Starts sig == Signatures
    IN  IF at = << >> THEN 0 ELSE
        IF sig[Len(at)] = NoCalls THEN 0 ELSE Max({n \in 1 .. Len(at) : SameRun(n, at, sig)})

\* runStop
PollingStop == remote /\ Streak >= Threshold

-----------------------------------------------------------------------------
(* The session.                                                             *)

Cut(all) == IF Len(all) > Kept THEN Len(all) - Kept ELSE 0

Rebase(open, cut) == {p - cut : p \in open}

\* Keep the tail of the transcript, and what is pending in it.
Write(all, open) ==
    /\ records' = SubSeq(all, Cut(all) + 1, Len(all))
    /\ pending' = Rebase(open, Cut(all))

Waited == records # << >> /\ Last(records).age > Gap
Prompt(s) == [kind |-> "prompt", waited |-> Waited, settles |-> s, age |-> 0]
Asking(c) == [kind |-> "call", call |-> c, age |-> 0]
Reply(back, answer, s) ==
    [kind |-> "result", back |-> back, answer |-> answer, settles |-> s, age |-> 0]

\* The user writes, or an event wakes the session; an event may report that a
\* subject settled, which nothing in the tail says yet.
Prompted ==
    /\ ~busy /\ busy' = TRUE
    /\ \E s \in Subject \cup {None} :
         /\ s # None => remote /\ \A i \in DOMAIN records : ~Settles(i, s)
         /\ Write(Append(records, Prompt(s)), {})
    /\ UNCHANGED << remote, heeding, calls >>

Calling == busy /\ ~heeding /\ calls < MaxCalls

RunCall(c) ==
    /\ Calling /\ (c \in Read => ~Refused(About[c]))
    /\ Write(Append(records, Asking(c)), pending \cup {Len(records) + 1})
    /\ calls' = calls + 1
    /\ UNCHANGED << remote, busy, heeding >>

\* The harness answers a refused call with an error.
Refuse(c) ==
    /\ Calling /\ c \in Read /\ Refused(About[c])
    /\ Write(records \o << Asking(c), Reply(1, "error", None) >>, pending)
    /\ calls' = calls + 1
    /\ UNCHANGED << remote, busy, heeding >>

Result(p) ==
    /\ \E answer \in Answer, s \in {None} \cup Subject :
         /\ s # None => answer = "state" /\ Reads(p, s)
         /\ Write(Append(records, Reply(Len(records) + 1 - p, answer, s)), pending \ {p})
    /\ UNCHANGED << remote, busy, heeding, calls >>

\* What refuses a Stop gives the session a prompt to go on.
Again == Write(Append(records, Prompt(None)), {}) /\ calls' = 0 /\ UNCHANGED busy

\* runStop; a session that heeds the refusal makes no call in its answer.
StopRefused ==
    /\ busy /\ pending = {} /\ PollingStop
    /\ Again /\ heeding' = TRUE
    /\ UNCHANGED << remote >>

\* Another guard refuses the Stop (HookDispatch).
StopRefusedElsewhere ==
    /\ busy /\ pending = {} /\ ~PollingStop
    /\ Again /\ heeding' = FALSE
    /\ UNCHANGED remote

Stop ==
    /\ busy /\ pending = {} /\ ~PollingStop
    /\ busy' = FALSE /\ heeding' = FALSE /\ calls' = 0
    /\ UNCHANGED << remote, records, pending >>

\* Time passes while nothing runs, or a tool does; past Gap it makes no
\* difference.
Tick ==
    /\ busy => pending # {}
    /\ \E i \in DOMAIN records : records[i].age <= Gap
    /\ records' = [i \in DOMAIN records |->
         [records[i] EXCEPT !.age = IF @ > Gap THEN @ ELSE @ + 1]]
    /\ UNCHANGED << remote, busy, heeding, pending, calls >>

Next ==
    \/ Prompted \/ StopRefused \/ StopRefusedElsewhere \/ Stop \/ Tick
    \/ \E c \in Call : RunCall(c) \/ Refuse(c)
    \/ \E p \in pending : Result(p)

Spec == Init /\ [][Next]_vars

\* Tools end, the session comes to its Stop, the other guards let it go in the
\* end, and time passes.
Fairness ==
    /\ WF_vars(\E p \in pending : Result(p))
    /\ WF_vars(StopRefused) /\ SF_vars(Stop)
    /\ SF_vars(Tick)

FairSpec == Spec /\ Fairness

-----------------------------------------------------------------------------
TypeOK ==
    /\ remote \in BOOLEAN /\ busy \in BOOLEAN /\ heeding \in BOOLEAN
    /\ records \in Seq(Record) /\ Len(records) <= Kept
    /\ \A p \in pending : p \in DOMAIN records /\ records[p].kind = "call"
    /\ calls \in 0 .. MaxCalls

\* The session has a fresh answer about s: it called a status read at i, the
\* answer came at j and was no error, and nothing has happened since the call.
FreshAnswer(s, i, j) ==
    /\ Reads(i, s) /\ Answers(j, i) /\ ~Told(j, "error")
    /\ \A k \in i .. Len(records) : ~Signal(k)

(* A status read is refused only while the transcript of the last Gap ticks   *)
(* shows that its subject settled, or, in a session that is woken, that this  *)
(* session read it and no prompt, wake or push of its own came since          *)
(* (repeatText, pretool.go:122-130).                                          *)
RefusalIsGrounded ==
    \A s \in Subject : Refused(s) =>
        \/ \E i \in DOMAIN records : Settles(i, s) /\ records[i].age <= Gap
        \/ remote /\ \E i, j \in DOMAIN records : FreshAnswer(s, i, j) /\ records[i].age <= Gap

(* No status read runs while the session has a fresh answer about its         *)
(* subject, by whatever tool it asked, or saw the subject settle within the   *)
(* last Gap ticks; a local session repeats its reads (environment.go:1-13).   *)
NoWastedRead ==
    [][\A c \in Read : RunCall(c) =>
         /\ ~\E i \in DOMAIN records : Settles(i, About[c]) /\ records[i].age <= Gap
         /\ remote => ~\E i, j \in DOMAIN records : FreshAnswer(About[c], i, j) /\ records[i].age <= Gap]_vars

(* A refused status read can be made again before long, whatever the session  *)
(* does meanwhile (staleness.go:1-2).                                         *)
Reopens == \A s \in Subject : []<>~Refused(s)

(* A turn ends although its Stop is refused, if the session answers a refusal *)
(* of this guard with no call and the other guards let it go in the end       *)
(* (hook.go:84-126).                                                          *)
TurnEnds == []<>~busy
=============================================================================
