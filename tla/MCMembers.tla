------------------------------ MODULE MCMembers ------------------------------
(***************************************************************************)
(* Small instances of the programs around a room that need no fairness,    *)
(* explored side by side: those of WebMembers and HostMembers, the inside  *)
(* of the agent (NativeLoop, AgentContext) and the operator's inbox and    *)
(* model-driven front end (OperatorInbox, OperatorHarness).  A behaviour   *)
(* is one of them, `part` says which, and the others rest.                 *)
(***************************************************************************)
EXTENDS HostMembers, WebMembers

CONSTANTS
    make, wipe, notes, MaxCalls, max_turns, MAX_NUDGES, MAX_COMMANDS,
    STUCK_FAIL_REPEAT, STUCK_PAIR_REPEAT,
    Costs, Digest, budget, keep_recent, context_window, token_budget, MaxMessages,
    FirstDaemon, Cli, Harnesses, EVENTS_MAX, CliSeq, HarnessSeq,
    max_nudges, token_ceiling, MaxVerbs, MaxCost

VARIABLES
    part,
    turns, nudges, calls, did_action, last_rc, shell_calls, files_read, files_written,
    last_good, failures, seen, final, executed, unresolved,
    messages, count,
    life, bound, joined, backfill, seeded, seq, events, pc, from, since, answer, cursor,
    printed,
    style, stage, op_turns, op_nudges, tokens, op_action, todo, reason, worked

loopVars == <<turns, nudges, calls, did_action, last_rc, shell_calls, files_read,
              files_written, last_good, failures, seen, final, executed, unresolved>>
contextVars == <<messages, count>>
inboxVars == <<life, bound, joined, backfill, seeded, seq, events, pc, from, since,
               answer, cursor, printed>>
modelVars == <<style, stage, op_turns, op_nudges, tokens, op_action, todo, reason,
               worked>>
allVars == <<part, webVars, hostVars, loopVars, contextVars, inboxVars, modelVars>>

Loop == INSTANCE NativeLoop WITH
    Cmds <- {make, wipe}, Destructive <- {wipe}, Files <- {notes}
Context == INSTANCE AgentContext
Emits(n) == [d \in Daemons |-> IF d = FirstDaemon THEN n ELSE 1]
Inbox == INSTANCE OperatorInbox WITH
    shown <- printed, MaxSeq <- Emits(CliSeq + HarnessSeq)
Model == INSTANCE OperatorHarness WITH
    turns <- op_turns, nudges <- op_nudges, did_action <- op_action

\* One initial state is enough for a part that rests.
MCInit ==
    /\ part \in {"guests", "downloads", "uploads", "limits", "secret", "loop",
                 "context", "inbox", "observer", "boxes", "model", "device", "share",
                 "egress", "drive", "registry"}
    /\ Guest!Init /\ Down!Init /\ Upl!Init /\ Limit!Init /\ Secret!Init
    /\ Loop!Init /\ Context!Init /\ Inbox!Init /\ Box!Init /\ Model!Init /\ Device!Init
    /\ Share!Init /\ Egress!Init /\ Drive!Init /\ Reg!Init
    /\ part # "secret" => writable /\ file = "empty"
    /\ part # "context" => \A k \in DOMAIN messages : messages[k].cost = Digest
    /\ part # "model" => style = "tools"
    /\ part # "device" => owner = Nobody
    /\ part # "egress" => \A l \in Launches : posture[l] = "auto"

\* The two instances of the inbox: who reads, and how much its daemons say.
ReadBy(readers, most) ==
    /\ \A r \in DOMAIN pc' \ readers : pc'[r] = "idle"
    /\ \A d \in Daemons : seq'[d] <= most

MCNext ==
    /\ UNCHANGED part
    /\ IF part = "guests" THEN Guest!Next ELSE UNCHANGED guestVars
    /\ IF part = "downloads" THEN Down!Next ELSE UNCHANGED fileVars
    /\ IF part = "uploads" THEN Upl!Next ELSE UNCHANGED uploadVars
    /\ IF part = "limits" THEN Limit!Next ELSE UNCHANGED limitVars
    /\ IF part = "secret" THEN Secret!Next ELSE UNCHANGED secretVars
    /\ IF part = "loop" THEN Loop!Next ELSE UNCHANGED loopVars
    /\ IF part = "context" THEN Context!Next ELSE UNCHANGED contextVars
    /\ CASE part = "inbox" -> Inbox!Next /\ ReadBy(Cli, CliSeq)
         [] part = "observer" -> Inbox!Next /\ ReadBy(Harnesses, HarnessSeq)
         [] OTHER -> UNCHANGED inboxVars
    /\ IF part = "boxes" THEN Box!Next ELSE UNCHANGED boxVars
    /\ IF part = "model" THEN Model!Next ELSE UNCHANGED modelVars
    /\ IF part = "device" THEN Device!Next ELSE UNCHANGED deviceVars
    /\ IF part = "share" THEN Share!Next ELSE UNCHANGED shareVars
    /\ IF part = "egress" THEN Egress!Next ELSE UNCHANGED egressVars
    /\ IF part = "drive" THEN Drive!Next ELSE UNCHANGED driveVars
    /\ IF part = "registry" THEN Reg!Next ELSE UNCHANGED registryVars

MCSpec == MCInit /\ [][MCNext]_allVars

\* Every variable of the modules of the part has its type.
TypesOK ==
    CASE part = "guests" -> Guest!TypeOK
      [] part = "downloads" -> Down!TypeOK
      [] part = "uploads" -> Upl!TypeOK
      [] part = "limits" -> Limit!TypeOK
      [] part = "secret" -> Secret!TypeOK
      [] part = "loop" -> Loop!TypeOK
      [] part = "context" -> Context!TypeOK
      [] part \in {"inbox", "observer"} -> Inbox!TypeOK
      [] part = "boxes" -> Box!TypeOK
      [] part = "model" -> Model!TypeOK
      [] part = "device" -> Device!TypeOK
      [] part = "share" -> Share!TypeOK
      [] part = "egress" -> Egress!TypeOK
      [] part = "drive" -> Drive!TypeOK
      [] part = "registry" -> Reg!TypeOK

\* WebGuests: nobody is stranded off the roster the room sees, and the number
\* of a guest never comes to mean another (publisher.py presence and aliases).
GuestsShown == part = "guests" => Guest!RosterShown /\ Guest!AliasKeepsGuest

\* WebDownloads: every browser told that a file is done was handed the same
\* bytes (publisher.py _web_ft_*).
DownloadsAlike == part = "downloads" => Down!DownloadsAlike

\* WebUploads: the room gets an upload in order, and for its first accepter
\* alone, within the slots (publisher.py _web_upload_*).
UploadsInOrder == part = "uploads" => Upl!UploadsInOrder /\ Upl!SlotsBounded

\* RelayLimits: no window of time sees more connections of a source than its
\* limit, and enough wrong PINs lock it out (limits.py).
RatesBounded == part = "limits" => Limit!RatesBounded /\ Limit!LockFollowsFails

\* Provisioning: relays and publishers of one machine hold one secret
\* (provisioning.py).
SecretsAgree == part = "secret" => Secret!SecretsAgree

\* NativeLoop: no command is run on and on, and not too many in all
\* (agent/bridge.py _run_native's loop detector and command budget).
\* AgentContext: the goal and the newest messages survive every pruning, which
\* reaches the budget if it can, and the window is the longest that fits
\* (agent/bridge.py _prune_native_messages, _window).
\* OperatorHarness: the token ceiling holds (operator/harness.py, codeact.py).
\* WebDownloads: what is retained fits its bound (publisher.py _evict_retained).
BudgetsKept ==
    /\ part = "loop" => Loop!RetriesBounded
    /\ part = "context" => Context!GoalKept /\ Context!WindowIsLongest
    /\ part = "model" => Model!SpendBounded
    /\ part = "downloads" => Down!RetentionBounded

\* SbxDrive: every client shows who may drive, and what is revoked stays out
\* (app.rs, the access list).
\* RegistryLock: what is saved stays in the registry (registry.rs).
TuiKept ==
    /\ part = "drive" => Drive!BadgesEnforced /\ Drive!RevokedStaysOut
    /\ part = "registry" => Reg!SavesKept

\* OperatorInbox: no reader sleeps on an event, none skips one
\* (operator/bridge.py _emit and _op_read, the cursors of its readers).
InboxSound ==
    part \in {"inbox", "observer"} => Inbox!NoMissedWakeup /\ Inbox!NothingSkipped

\* OperatorSandbox: a sweep leaves no container it found abandoned
\* (operator/sandbox.py sweep_stale).
SandboxesReclaimed == part = "boxes" => Box!AbandonedReclaimed

\* EgressGateway: no sandbox runs outside the posture asked for
\* (operator/sandbox.py launch_container, scripts/hh-sbx-egress.py).
EgressKept == part = "egress" => Egress!EgressKept

\* WebShare: every room is accounted for, and the share file opens the stream
\* (publisher.py run, _reprovision, _emit_share_url).
SharesSound == part = "share" => Share!RoomsAccounted /\ Share!LinkOpens

\* DeviceBridge: chat arms only for a while, and the room is told the truth
\* about the shell (device/bridge.py).
DeviceGuarded == part = "device" => Device!ArmedHasTimer /\ Device!StatusTold
=============================================================================
