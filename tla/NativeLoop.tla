----------------------------- MODULE NativeLoop -----------------------------
(***************************************************************************)
(* One task of the AI agent's native harness (_run_native and its helpers  *)
(* in src/cmd_chat/agent/bridge.py): the model is called turn after turn,  *)
(* its tool calls are run in the sandbox, a claim to be done is checked    *)
(* against what was run, and a loop that gets nowhere is broken off.       *)
(*                                                                         *)
(* What a model says and how a command ends are free choices.  A reply is  *)
(* its calls, or, without any, one of: a DONE line, filler ("let me ..."), *)
(* prose, or prose with a shell fence.  Wording, prompts and the mirror    *)
(* into the terminal are left out; trimming of the context is AgentContext.*)
(***************************************************************************)
EXTENDS Naturals, Sequences

CONSTANTS
    Cmds,           \* shell commands a model may try
    Destructive,    \* those of them that DESTRUCTIVE matches
    Files,          \* paths it may read or write
    MaxCalls,       \* bound: tool calls in one reply
    max_turns, MAX_NUDGES, MAX_COMMANDS,
    STUCK_FAIL_REPEAT, STUCK_PAIR_REPEAT

VARIABLES
    turns,      \* model calls made
    nudges,     \* re-prompts spent
    calls,      \* tool calls of this reply still to run
    did_action,
    last_rc,    \* "none", or how the last run_shell ended: "0", "1", "126"
    shell_calls,
    files_read, files_written, last_good, failures,     \* _WorkSet
    seen,       \* _WorkSet.seen: <<action, outcome>> -> count
    final,      \* how the task ended, or "running"
    executed,   \* history: shell commands that reached the sandbox
    unresolved  \* history: did the last command that finished there fail?

vars == <<turns, nudges, calls, did_action, last_rc, shell_calls, files_read,
          files_written, last_good, failures, seen, final, executed, unresolved>>
workset == <<files_read, files_written, last_good, failures, seen>>

Calls == {[tool |-> "run_shell", arg |-> c] : c \in Cmds}
         \cup {[tool |-> t, arg |-> f] : t \in {"write_file", "read_file"}, f \in Files}
Failing == {"1", "126"}
Outcomes == {"none", "0", "ok"} \cup Failing
NoCmd == ""
Texts == {"DONE", "filler", "prose"}
hard_cap == max_turns + MAX_NUDGES
Ends == {"running", "done", "no action", "failed", "stalled", "stuck", "cap", "error", "simple"}

TypeOK ==
    /\ turns \in 0 .. hard_cap /\ nudges \in 0 .. MAX_NUDGES
    /\ calls \in Seq(Calls) /\ Len(calls) <= MaxCalls
    /\ did_action \in BOOLEAN /\ unresolved \in BOOLEAN
    /\ last_rc \in {"none", "0"} \cup Failing
    /\ {shell_calls, executed} \subseteq Nat
    /\ files_read \subseteq Files /\ files_written \subseteq Files
    /\ last_good \in Cmds \cup {NoCmd} /\ failures \subseteq Cmds
    /\ seen \in [Calls \X Outcomes -> 0 .. STUCK_PAIR_REPEAT]
    /\ final \in Ends

Init ==
    /\ turns = 0 /\ nudges = 0 /\ calls = <<>>
    /\ did_action = FALSE /\ last_rc = "none" /\ shell_calls = 0
    /\ files_read = {} /\ files_written = {} /\ last_good = NoCmd /\ failures = {}
    /\ seen = [k \in Calls \X Outcomes |-> 0]
    /\ final = "running" /\ executed = 0 /\ unresolved = FALSE

---------------------------------------------------------------------------
(* A turn. *)

\* _completion_verdict: the ground truth first, and only then the claim.
Verdict(text) ==
    IF last_rc \in Failing \/ ~did_action THEN "stalled"
    ELSE IF text = "filler" THEN "stalled" ELSE "done"

\* What is reported when the nudges are used up.
GaveUp == IF ~did_action THEN "no action"
          ELSE IF last_rc \in Failing THEN "failed" ELSE "stalled"

Turning == final = "running" /\ calls = <<>> /\ turns < hard_cap

\* A reply with tool calls, or with a command in a shell fence that is not
\* destructive (_recover_fenced_call): they are run one after the other.
ReplyActs(cs) ==
    /\ Turning
    /\ turns' = turns + 1 /\ calls' = cs
    /\ UNCHANGED <<nudges, did_action, last_rc, shell_calls, workset, final,
                   executed, unresolved>>

MayNudge == nudges < MAX_NUDGES

\* A reply that is only text ends the task or spends a nudge.
ReplyTalks(text) ==
    /\ Turning
    /\ turns' = turns + 1
    /\ IF Verdict(text) = "done" THEN final' = "done" /\ UNCHANGED nudges
       ELSE IF MayNudge THEN nudges' = nudges + 1 /\ UNCHANGED final
       ELSE final' = GaveUp /\ UNCHANGED nudges
    /\ UNCHANGED <<calls, did_action, last_rc, shell_calls, workset, executed,
                   unresolved>>

\* The provider fails, or knows no tools and the simple harness takes over.
ReplyFails ==
    /\ Turning
    /\ turns' = turns + 1 /\ final' \in {"error", "simple"}
    /\ UNCHANGED <<nudges, calls, did_action, last_rc, shell_calls, workset,
                   executed, unresolved>>

AtCap ==
    /\ final = "running" /\ calls = <<>> /\ turns = hard_cap
    /\ final' = "cap"
    /\ UNCHANGED <<turns, nudges, calls, did_action, last_rc, shell_calls,
                   workset, executed, unresolved>>

---------------------------------------------------------------------------
(* One tool call. *)

\* How often an action has failed, in whichever way.
TimesFailed(counts, call) == counts[<<call, "1">>] + counts[<<call, "126">>]

\* Mutant of StuckNow: failing repeats are counted per exit status.
StuckNowByPair(call, outcome) ==
    \/ outcome \in Failing /\ seen'[<<call, outcome>>] >= STUCK_FAIL_REPEAT
    \/ seen'[<<call, outcome>>] >= STUCK_PAIR_REPEAT

\* The loop detector: one action failing again, in whichever way, or the same
\* action with the same result over and over.
StuckNow(call, outcome) ==
    \/ /\ outcome \in Failing
       /\ TimesFailed(seen', call) >= STUCK_FAIL_REPEAT
    \/ seen'[<<call, outcome>>] >= STUCK_PAIR_REPEAT

\* Counts the outcome; a task that is stuck drops its other calls and ends.
Record(call, outcome) ==
    /\ did_action' = TRUE
    /\ seen' = [seen EXCEPT ![<<call, outcome>>] = @ + 1]
    /\ IF StuckNow(call, outcome)
       THEN final' = "stuck" /\ calls' = <<>>
       ELSE calls' = Tail(calls) /\ UNCHANGED final

Running(tool) == final = "running" /\ calls # <<>> /\ Head(calls).tool = tool

\* run_shell: refused over budget or when destructive, else typed into the
\* shared terminal, where it ends with a status or times out ("none").
RunShell(rc) ==
    LET call == Head(calls)
        cmd == call.arg
        reaches == shell_calls < MAX_COMMANDS /\ cmd \notin Destructive
    IN  /\ Running("run_shell")
        /\ ~reaches => rc = "none"
        /\ shell_calls' = shell_calls + 1
        /\ last_rc' = rc
        /\ executed' = IF reaches THEN executed + 1 ELSE executed
        /\ unresolved' = IF rc = "none" THEN unresolved ELSE rc \in Failing
        /\ IF rc \in Failing
           THEN failures' = failures \cup {cmd} /\ UNCHANGED last_good
           ELSE failures' = failures \ {cmd} /\ last_good' = cmd
        /\ Record(call, rc)
        /\ UNCHANGED <<turns, nudges, files_read, files_written>>

\* write_file: the report never looks like an error, so the file counts as
\* written however the command in the sandbox ended.
WriteFile ==
    LET call == Head(calls) IN
    /\ Running("write_file")
    /\ files_written' = files_written \cup {call.arg}
    /\ Record(call, "ok")
    /\ UNCHANGED <<turns, nudges, last_rc, shell_calls, files_read, last_good,
                   failures, executed, unresolved>>

\* read_file: a second reading of a path is answered without the sandbox.
ReadFile ==
    LET call == Head(calls) IN
    /\ Running("read_file")
    /\ IF call.arg \in files_read
       THEN calls' = Tail(calls) /\ UNCHANGED <<did_action, files_read, seen, final>>
       ELSE files_read' = files_read \cup {call.arg} /\ Record(call, "ok")
    /\ UNCHANGED <<turns, nudges, last_rc, shell_calls, files_written, last_good,
                   failures, executed, unresolved>>

---------------------------------------------------------------------------
Reply ==
    \/ \E n \in 1 .. MaxCalls : \E cs \in [1 .. n -> Calls] : ReplyActs(cs)
    \/ \E c \in Cmds \ Destructive : ReplyActs(<<[tool |-> "run_shell", arg |-> c]>>)
    \/ \E text \in Texts : ReplyTalks(text)
    \/ ReplyFails
    \/ AtCap

ToolCall ==
    \/ \E rc \in {"none", "0"} \cup Failing : RunShell(rc)
    \/ WriteFile
    \/ ReadFile

Next == Reply \/ ToolCall

Spec == Init /\ [][Next]_vars

---------------------------------------------------------------------------
(* Properties. *)

\* No command is run again once it has failed STUCK_FAIL_REPEAT times, even if
\* it fails differently or worked in between, and no task runs more commands
\* than MAX_COMMANDS, however its calls are spread over the turns.
RetriesBounded ==
    /\ \A c \in Calls : TimesFailed(seen, c) <= STUCK_FAIL_REPEAT
    /\ executed <= MAX_COMMANDS

=============================================================================
