----------------------------- MODULE HostMembers -----------------------------
(***************************************************************************)
(* The programs on the machines of the members, each on variables of its   *)
(* own: the operator's containers (OperatorSandbox) and their network      *)
(* (EgressGateway), the device (DeviceBridge), and of TUI clients the      *)
(* sandbox they share (SbxDrive) and the registry of saved ones            *)
(* (RegistryLock).  MCMembers explores them.                               *)
(***************************************************************************)
EXTENDS Naturals, Sequences

CONSTANTS
    Daemons, Jobs, Boxes, NoBox,
    Humans, Tasks, MaxShells, Nobody,
    Launches, Sandboxes, NoLaunch,
    Peers, MaxOps, MaxCuts,
    Savers, Listers, LOCK_STALE_SECS, NoProc, MaxNow, MaxDead

VARIABLES
    alive, taken, boxes, own, job, doomed,
    owner, drivers, armed, armedBy, timer, present, command, port, pty, relay,
    shells, ending, watched, status,
    step, sandbox, posture, mode, gateway, script, rules, box, net, crossed,
    online, frames, broker, launching, pane, superuser, driving, agent, meant, collided,
    hasty, ops, cuts,
    clock, lock, born, doing, deadline, guarded, entries, missing, reg, saw, saved, trespass

boxVars == <<alive, taken, boxes, own, job, doomed>>
deviceVars == <<owner, drivers, armed, armedBy, timer, present, command, port, pty,
                relay, shells, ending, watched, status>>
egressVars == <<step, sandbox, posture, mode, gateway, script, rules, box, net, crossed>>
driveVars == <<online, frames, broker, launching, pane, superuser, driving, agent,
               meant, collided, hasty, ops, cuts>>
registryVars == <<clock, lock, born, doing, deadline, guarded, entries, missing, reg,
                  saw, saved, trespass>>
hostVars == <<boxVars, deviceVars, egressVars, driveVars, registryVars>>

Box == INSTANCE OperatorSandbox WITH Names <- Boxes
Device == INSTANCE DeviceBridge WITH told <- status
Egress == INSTANCE EgressGateway WITH at <- step
Drive == INSTANCE SbxDrive WITH
    Members <- Peers, linked <- online, inbox <- frames, sandbox <- pane,
    owner <- superuser, drivers <- driving
Reg == INSTANCE RegistryLock WITH now <- clock, pc <- doing, gone <- missing
=============================================================================
