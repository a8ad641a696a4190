------------------------------ MODULE GuardTable ------------------------------
(***************************************************************************)
(* The guards of cmd/guards.go: their order, the events each serves, and   *)
(* the shapes of answer each can give to a call.  What a guard decides is  *)
(* its own business; here it may give any answer its code can write.       *)
(***************************************************************************)
EXTENDS Sequences, SequencesExt

guards == << "clean-bash", "write", "no-work-loss", "rustfmt", "auto-allow", "busy-poll",
             "md-budget", "laziness", "agent-launch", "link-refs", "blame-language",
             "ask-properly", "twelve-hour" >>

Guards == ToSet(guards)
Place == [g \in Guards |-> CHOOSE i \in DOMAIN guards : guards[i] = g]

Events == [g \in Guards |->
    CASE g = "no-work-loss" -> {"PreToolUse", "PostToolUse", "Stop"}
      [] g = "rustfmt"      -> {"PreToolUse", "PostToolUse"}
      [] g = "auto-allow"   -> {"PreToolUse", "PermissionRequest"}
      [] g = "md-budget"    -> {"SessionStart", "PostToolUse", "Stop"}
      [] g \in {"busy-poll", "laziness"} -> {"PreToolUse", "Stop"}
      [] g \in {"clean-bash", "write", "agent-launch"} -> {"PreToolUse"}
      [] OTHER              -> {"MessageDisplay"}]

\* Edit stands for Write and MultiEdit, Agent for SendMessage, Read for a tool
\* that no guard knows.
Tools == {"Bash", "Edit", "Agent", "AskUserQuestion", "Read"}

\* eventOf: a payload with a tool and no event name is a PreToolUse payload.
Payload(event, tools, named) == [event : {event}, tool : tools, named : named]
Calls == UNION {Payload("PreToolUse", Tools, BOOLEAN),
                Payload("PermissionRequest", Tools, {TRUE}),
                Payload("PostToolUse", Tools, {TRUE}),
                [event : {"SessionStart", "Stop", "MessageDisplay"}, tool : {"none"}, named : {TRUE}]}

Or(set) == {{}} \cup set
Deny == {"deny"}
Exit == {"exit"}
Block == {"block"}
Message == {"message"}
Update == {"update"}
Context == {"context"}

\* The answers when the event and the tool are the ones given.
If(here, set) == IF here THEN Or(set) ELSE {{}}

CleanBash(c) == If(c.tool = "Bash", {Deny, Update})
Write(c) == If(c.tool = "Edit", {Deny, Context, Update \cup Context})

\* Found work looks at a command whatever its payload names; the judgement of
\* what the call destroys wants the event named.
NoWorkLoss(c) ==
    CASE c.event = "PostToolUse" -> If(c.tool = "Bash", {Context})
      [] c.event = "Stop" -> Or({Block, Message})
      [] OTHER -> If(c.tool = "Bash", {Message, Update, Update \cup Message})
                  \cup If(c.named, {Deny})

Rustfmt(c) ==
    IF c.event = "PostToolUse" THEN If(c.tool = "Edit", {Exit, Context})
    ELSE If(c.tool = "Bash", {Deny})

AutoAllow(c) ==
    IF c.event = "PermissionRequest" THEN Or({{"decision"}}) ELSE If(c.named, {Deny})

\* A payload that names no event is a Stop to busy-poll and to laziness.
BusyPoll(c) == IF c.event = "Stop" \/ ~c.named THEN Or({Exit}) ELSE Or({Deny})

MdBudget(c) == Or({{"stderr"}, IF c.event = "Stop" THEN Block ELSE Context})

Laziness(c) ==
    CASE c.event = "Stop" \/ ~c.named -> Or({Exit})
      [] c.tool = "AskUserQuestion" -> Or({Deny})
      [] OTHER -> If(c.tool = "Agent", {Deny, Update})

AgentLaunch(c) == If(c.tool = "Agent" /\ c.named, {Update})

LinkRefs(c) == Or({{"display"}})
BlameLanguage(c) == Or({{"note"}})
AskProperly(c) == Or({{"note"}})

Answers == [c \in Calls |-> [g \in Guards |->
    IF c.event \notin Events[g] THEN {{}} ELSE
    CASE g = "clean-bash" -> CleanBash(c)
      [] g = "write" -> Write(c)
      [] g = "no-work-loss" -> NoWorkLoss(c)
      [] g = "rustfmt" -> Rustfmt(c)
      [] g = "auto-allow" -> AutoAllow(c)
      [] g = "busy-poll" -> BusyPoll(c)
      [] g = "md-budget" -> MdBudget(c)
      [] g = "laziness" -> Laziness(c)
      [] g = "agent-launch" -> AgentLaunch(c)
      [] g = "link-refs" -> LinkRefs(c)
      [] g = "blame-language" -> BlameLanguage(c)
      [] g = "ask-properly" -> AskProperly(c)
      [] g = "twelve-hour" -> {{}}]]
=============================================================================
