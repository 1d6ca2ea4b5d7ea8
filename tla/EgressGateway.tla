---------------------------- MODULE EgressGateway ----------------------------
(***************************************************************************)
(* The network a sandbox container is launched on: the postures, and the   *)
(* gateway container whose network it joins                                *)
(* (src/cmd_chat/operator/egress.py, egress_gw.py, launch_container of     *)
(* sandbox.py, src/scripts/hh-sbx-egress.py).                              *)
(*                                                                         *)
(* Launches of several daemons on one host share the engine, so they may   *)
(* meet in the name of a sandbox; every call of the engine is a step.  A   *)
(* network outlives the gateway that made it while a sandbox is on it, so  *)
(* it is known by the launch that made it.  What a ruleset lets through is *)
(* left out: "pivot" is the one of local and scope, "tor" that of tor.     *)
(* An engine call ends with the script that made it.                       *)
(***************************************************************************)
EXTENDS FiniteSets

CONSTANTS
    Launches,   \* launches, each made once
    Sandboxes,  \* names
    NoLaunch

Postures == {"auto", "guard", "open", "none", "local", "scope", "tor"}
Gated == {"local", "scope", "tor"}
Host == "host"
Off == "off"
RulesOf(m) == IF m = "tor" THEN "tor" ELSE "pivot"

VARIABLES
    at,         \* where a launch is
    sandbox,    \* the name it launches
    posture,    \* what was asked for
    mode,       \* what it has come to
    gateway,    \* who made the gateway container of a name, or NoLaunch
    script,     \* rules.nft in the gateway a launch made
    rules,      \* what is in force on the network a launch made
    box,        \* who made the sandbox of a name, or NoLaunch
    net,        \* its network: Host, Off or the launch whose gateway made it
    crossed     \* launches that met another of their name

vars == <<at, sandbox, posture, mode, gateway, script, rules, box, net, crossed>>
launched == <<sandbox, posture>>
filters == <<gateway, script, rules>>
running == <<box, net>>

TypeOK ==
    /\ at \in [Launches -> {"new", "posture", "replace", "create", "boot", "write",
                            "load", "run", "resolve", "done", "refused", "down", "gone"}]
    /\ sandbox \in [Launches -> Sandboxes]
    /\ posture \in [Launches -> Postures]
    /\ mode \in [Launches -> Postures]
    /\ gateway \in [Sandboxes -> Launches \cup {NoLaunch}]
    /\ script \in [Launches -> {"none", "pivot", "tor"}]
    /\ rules \in [Launches -> SUBSET {"pivot", "tor"}]
    /\ box \in [Sandboxes -> Launches \cup {NoLaunch}]
    /\ net \in [Sandboxes -> Launches \cup {Host, Off}]
    /\ crossed \subseteq Launches

Init ==
    /\ at = [l \in Launches |-> "new"]
    /\ sandbox \in [Launches -> Sandboxes]
    /\ posture \in [Launches -> Postures]
    /\ mode = posture
    /\ gateway = [n \in Sandboxes |-> NoLaunch]
    /\ script = [l \in Launches |-> "none"]
    /\ rules = [l \in Launches |-> {}]
    /\ box = [n \in Sandboxes |-> NoLaunch]
    /\ net = [n \in Sandboxes |-> Off]
    /\ crossed = {}

Goto(l, step) == at' = [at EXCEPT ![l] = step]
Step(l, from, to) == at[l] = from /\ Goto(l, to)
Busy(l) == at[l] \notin {"new", "done", "refused", "gone"}
\* The container name a script's calls go to.
Own(l) == gateway[sandbox[l]]

---------------------------------------------------------------------------
(* launch_container: the posture. *)

\* `auto` is tor where there is a tor binary, else local.
Preferred(p) == IF p = "auto" THEN {"tor", "local"} ELSE {p}

\* The stale container of the name goes first, whose ever it is.
Start(l) ==
    /\ Step(l, "new", "posture")
    /\ box' = [box EXCEPT ![sandbox[l]] = NoLaunch]
    /\ \E m \in Preferred(posture[l]) :
          mode' = [mode EXCEPT ![l] = m]
    /\ LET met == {k \in Launches \ {l} : Busy(k) /\ sandbox[k] = sandbox[l]} IN
       crossed' = crossed \cup met \cup (IF met = {} THEN {} ELSE {l})
    /\ UNCHANGED <<launched, filters, net>>

\* A strictly hardened launch has no network, whatever the posture.
Harden(l) ==
    /\ Step(l, "posture", "run")
    /\ mode' = [mode EXCEPT ![l] = "none"]
    /\ UNCHANGED <<launched, filters, running, crossed>>

\* The guard looks at the default route, which may be a tunnel or not.
Decide(l) ==
    /\ at[l] = "posture"
    /\ \/ Goto(l, IF mode[l] \in Gated THEN "replace" ELSE "run")
       \/ mode[l] = "guard" /\ Goto(l, "refused")
    /\ UNCHANGED <<launched, mode, filters, running, crossed>>

---------------------------------------------------------------------------
(* hh-sbx-egress.py up. *)

\* Mutant of Refuse: an explicit tor falls back as well.
RefuseFallsBack(l) ==
    IF mode[l] = "tor"
    THEN mode' = [mode EXCEPT ![l] = "local"] /\ Goto(l, "replace")
    ELSE UNCHANGED mode /\ Goto(l, "refused")

\* What launch_container makes of REFUSED.
Refuse(l) ==
    IF posture[l] = "auto" /\ mode[l] = "tor"
    THEN mode' = [mode EXCEPT ![l] = "local"] /\ Goto(l, "replace")
    ELSE UNCHANGED mode /\ Goto(l, "refused")

\* `rm -f`: an engine may keep a gateway that a sandbox still depends on.
RemoveGateway(n) ==
    \/ gateway' = [gateway EXCEPT ![n] = NoLaunch]
    \/ /\ box[n] # NoLaunch /\ net[n] = gateway[n]
       /\ UNCHANGED gateway

Replace(l) ==
    /\ Step(l, "replace", "create")
    /\ RemoveGateway(sandbox[l])
    /\ UNCHANGED <<launched, mode, script, rules, running, crossed>>

\* The engine refuses a name in use, an image it has not got, and the like.
Create(l) ==
    /\ at[l] = "create"
    /\ \/ /\ Own(l) = NoLaunch
          /\ gateway' = [gateway EXCEPT ![sandbox[l]] = l]
          /\ script' = [script EXCEPT ![l] = "none"]
          /\ rules' = [rules EXCEPT ![l] = {}]
          /\ Goto(l, IF mode[l] = "tor" THEN "boot" ELSE "write")
          /\ UNCHANGED mode
       \/ Refuse(l) /\ UNCHANGED filters
    /\ UNCHANGED <<launched, running, crossed>>

\* On an error the script removes the gateway of the name and refuses.
GiveUp(l) ==
    /\ RemoveGateway(sandbox[l])
    /\ Refuse(l)
    /\ UNCHANGED <<script, rules>>

Boot(l) ==
    /\ at[l] = "boot"
    /\ \/ /\ Own(l) # NoLaunch /\ Goto(l, "write")
          /\ UNCHANGED <<mode, filters>>
       \/ GiveUp(l)
    /\ UNCHANGED <<launched, running, crossed>>

\* The file is written in whatever container has the name; nobody looks at the
\* outcome.
Write(l) ==
    /\ Step(l, "write", "load")
    /\ \/ /\ Own(l) # NoLaunch
          /\ script' = [script EXCEPT ![Own(l)] = RulesOf(mode[l])]
       \/ UNCHANGED script
    /\ UNCHANGED <<launched, mode, gateway, rules, running, crossed>>

Load(l) ==
    /\ at[l] = "load"
    /\ \/ /\ Own(l) # NoLaunch /\ script[Own(l)] # "none"
          /\ rules' = [rules EXCEPT ![Own(l)] = @ \cup {script[Own(l)]}]
          /\ Goto(l, "run")
          /\ UNCHANGED <<mode, gateway, script>>
       \/ GiveUp(l)
    /\ UNCHANGED <<launched, running, crossed>>

\* exec_capture gives up on a script after two minutes: killed, it removes
\* nothing.
TimeOut(l) ==
    /\ at[l] \in {"replace", "create", "boot", "write", "load"}
    /\ Refuse(l)
    /\ UNCHANGED <<launched, filters, running, crossed>>

---------------------------------------------------------------------------
(* The sandbox itself. *)

\* A name in use or a gateway that is not there any more: the engine refuses,
\* and the gateway stays behind.
Run(l) ==
    LET n == sandbox[l] IN
    /\ at[l] = "run"
    /\ \/ /\ box[n] = NoLaunch
          /\ mode[l] \in Gated => Own(l) # NoLaunch
          /\ box' = [box EXCEPT ![n] = l]
          /\ net' = [net EXCEPT ![n] = IF mode[l] = "none" THEN Off
                                       ELSE IF mode[l] \in Gated THEN Own(l) ELSE Host]
          /\ Goto(l, "resolve")
       \/ Goto(l, "refused") /\ UNCHANGED running
    /\ UNCHANGED <<launched, mode, filters, crossed>>

\* post_join sets the resolver of the sandbox, if it can.
PostJoin(l) ==
    /\ Step(l, "resolve", "done")
    /\ UNCHANGED <<launched, mode, filters, running, crossed>>

\* teardown_container: the sandbox, then the gateway it used.
TakeDown(l) ==
    /\ Step(l, "done", "down")
    /\ \/ box' = [box EXCEPT ![sandbox[l]] = NoLaunch]
       \/ UNCHANGED box        \* the engine refuses
    /\ UNCHANGED <<launched, mode, filters, net, crossed>>

Down(l) ==
    /\ Step(l, "down", "gone")
    /\ RemoveGateway(sandbox[l])
    /\ UNCHANGED <<launched, mode, script, rules, running, crossed>>

Next == \E l \in Launches :
    \/ Start(l) \/ Harden(l) \/ Decide(l)
    \/ Replace(l) \/ Create(l) \/ Boot(l) \/ Write(l) \/ Load(l) \/ TimeOut(l)
    \/ Run(l) \/ PostJoin(l) \/ TakeDown(l) \/ Down(l)

Spec == Init /\ [][Next]_vars

---------------------------------------------------------------------------
(* Properties. *)

\* Fail-closed: however the gateway of a launch fails, is refused, times out or
\* is tried again, and whatever earlier launches left, a sandbox that runs is
\* behind the rules of the posture asked for: under `auto` behind some rules, on
\* the host's own route under `guard` and `open` alone, and on no network under
\* `none`.  Launches at work on one name at once are another matter
\* (sandbox.py:186-215, hh-sbx-egress.py:20-22).
EgressKept ==
    \A n \in Sandboxes : \A l \in Launches \ crossed :
        box[n] = l /\ net[n] # Off =>
            CASE posture[l] = "tor" -> net[n] = l /\ "tor" \in rules[l]
              [] posture[l] \in {"local", "scope"} -> net[n] = l /\ "pivot" \in rules[l]
              [] posture[l] = "auto" -> net[n] = l /\ rules[l] # {}
              [] posture[l] \in {"guard", "open"} -> net[n] = Host
              [] OTHER -> FALSE
=============================================================================
