--------------------------- MODULE SessionServices ---------------------------
(***************************************************************************)
(* Parts of the runtime that share no state with each other, each a state  *)
(* machine of its own: the MCP reconciler, the reply channel, the          *)
(* interpretation desk, the push destination, the turn guard, delegation,  *)
(* the stored files of a session, the trust gate, tokens and grants, the   *)
(* settings, the repair of transcripts, the gates of recipes, the live     *)
(* providers, the stream of events, the start of a session, live bundles,  *)
(* code mode, credentials, the lanes of sub-agents and the endpoints for   *)
(* replies.  A behaviour is one of one of them, which the first state      *)
(* chooses, and v1, v2, ... are the variables of that one.                 *)
(* Those that decide what may be done are declared by Permissions.         *)
(***************************************************************************)
EXTENDS Naturals, Sequences, FiniteSets, Permissions

CONSTANTS Servers, Names, Specs, ToolLists, NoSpec, Free, Boot, MaxManagers, MaxCommands

CONSTANTS Handlers, Events, Nonces, EventOf, SecretOf, WithHandoff, WithDecision,
          NoEvent, RingLimit, MaxEnrols, MaxOutside

CONSTANTS Notices, QueueLimit, MaxHooks

CONSTANTS Owner, Others, MaxLength, MaxEdits

CONSTANTS Providers, MaxSettings, MaxToolCalls, MaxEntries, MaxResumes

CONSTANTS Slots, AtBoot, MaxLoads, MaxSwitches

CONSTANTS RootSession, ChildSessions, Blocks, Page, Streams

CONSTANTS Tools, Optional, Alike, Scenarios, Bundles, Plan, Labels, Layers, BundleBudgets

CONSTANTS MostCalls, Limits, Unlimited, Offers

CONSTANTS Configured, Main, Variable, Default, Plans

CONSTANTS LaneKids, ParentOf, Masks, MaskOf, NoId, LaneScripts

CONSTANTS Views, SessionOf, Bridges, Pids, Ports, NoPort, Troubles

vars == <<part, v1, v2, v3, v4, v5, v6, v7, v8, v9, v10, v11, v12, v13, v14, v15, v16, v17, v18,
          v19>>

Mcp ==
  INSTANCE LiveMcp
    WITH saved <- v1, above <- v2, booted <- v3, mounted <- v4, live <- v5, serverOf <- v6,
         owned <- v7, stranded <- v8, waiting <- v9, op <- v10, told <- v11, scarred <- v12,
         closed <- v13, commands <- v14
Reply ==
  INSTANCE Replies
    WITH secret <- v1, enrols <- v2, old <- v3, nonces <- v4, outcomes <- v5, bound <- v6,
         handoff <- v7, decision <- v8, row <- v9, current <- v10, pc <- v11, env <- v12,
         snap <- v13, verdict <- v14, views <- v15, overwritten <- v16, spoken <- v17,
         outside <- v18
Push ==
  INSTANCE AttentionPush
    WITH pending <- v1, clears <- v2, final <- v3, wakeup <- v4, drained <- v5, worker <- v6,
         sending <- v7, closing <- v8, seen <- v9, hooked <- v10, tried <- v11
Files ==
  INSTANCE SessionFiles
    WITH talk <- v1, meta <- v2, there <- v3, up <- v4, length <- v5, mark <- v6, doing <- v7,
         promised <- v8, kept <- v9, ran <- v10, edits <- v11, troubles <- v12, raced <- v13,
         hurt <- v14, uncleared <- v15, gone <- v16
Conf ==
  INSTANCE Settings
    WITH conf <- v1, cmd <- v2, result <- v3, settings <- v4
Repair ==
  INSTANCE TranscriptRepair
    WITH stored <- v1, context <- v2, said <- v3, resumes <- v4, opened <- v5
Live ==
  INSTANCE LiveProviders
    WITH mapping <- v1, rank <- v2, rigid <- v3, handles <- v4, inherited <- v5, known <- v6,
         loading <- v7, serves <- v8, routed <- v9, shown <- v10, marred <- v11, closing <- v12,
         loads <- v13, switches <- v14
Stream ==
  INSTANCE EventStream
    WITH Budgets <- Streams, Root <- RootSession, Kids <- ChildSessions, ledger <- v1, feed <- v2,
         open <- v3, price <- v4, prices <- v5, meter <- v6, muted <- v7, view <- v8, hush <- v9,
         run <- v10, budget <- v11, spent <- v12
Start ==
  INSTANCE SessionStart
    WITH Starters <- Callers, copies <- v1, starter <- v2, found <- v3, known <- v4,
         scenario <- v5, used <- v6, saved <- v7, spoilt <- v8
Bundle ==
  INSTANCE LiveBundles
    WITH Budgets <- BundleBudgets, Scopes <- Layers, shelf <- v1, boot <- v2, ledger <- v3,
         seen <- v4, mounted <- v5, messages <- v6, handles <- v7, job <- v8, open <- v9,
         sent <- v10, budget <- v11, spent <- v12, spoilt <- v13
Code ==
  INSTANCE CodeMode
    WITH limits <- v1, child <- v2, pipe <- v3, thread <- v4, caller <- v5, invoked <- v6,
         listed <- v7, partial <- v8, verdict <- v9, report <- v10, late <- v11, offer <- v12,
         shown <- v13, left <- v14, turn <- v15
Key ==
  INSTANCE Credentials
    WITH Terminals <- Callers, Instances <- Configured, keysEnv <- v1, keysLock <- v2,
         entries <- v3, shell <- v4, clone <- v5, venv <- v6, stored <- v7, kept <- v8,
         verdict <- v9, plan <- v10, used <- v11, odd <- v12

Lane ==
  INSTANCE Lanes
    WITH Root <- RootSession, Kids <- LaneKids, Scripts <- LaneScripts, lanes <- v1, order <- v2,
         aliases <- v3, pending <- v4, focus <- v5, recent <- v6, heard <- v7, over <- v8,
         script <- v9, spent <- v10, pinned <- v11, odd <- v12
Ear ==
  INSTANCE ReplyListeners
    WITH view <- v1, dir <- v2, record <- v3, litter <- v4, look <- v5, budget <- v6,
         wronged <- v7, failed <- v8

ASSUME ServicesAssumption ==
  /\ Mcp!McpAssumption /\ Reply!RepliesAssumption
  /\ Push!PushAssumption /\ Files!FilesAssumption
  /\ Conf!SettingsAssumption /\ Repair!RepairAssumption
  /\ Live!ProvidersAssumption
  /\ Stream!StreamAssumption /\ Start!StartAssumption /\ Bundle!BundlesAssumption
  /\ Code!CodeAssumption /\ Key!CredentialsAssumption
  /\ Lane!LanesAssumption /\ Ear!ListenersAssumption

\* The variables that the parts with fewer have no use for: those from the n-th on.
From19 == <<v19>>
From17 == <<v17, v18, From19>>
From16 == <<v16, From17>>
From15 == <<v15, From16>>
From14 == <<v14, From15>>
From13 == <<v13, From14>>
From12 == <<v12, From13>>
From10 == <<v10, v11, From12>>
From9 == <<v9, From10>>
From6 == <<v6, v7, v8, From9>>
From5 == <<v5, From6>>
Unused == "unused"
No19 == v19 = Unused
No17 == v17 = Unused /\ v18 = Unused /\ No19
No16 == v16 = Unused /\ No17
No15 == v15 = Unused /\ No16
No14 == v14 = Unused /\ No15
No13 == v13 = Unused /\ No14
No12 == v12 = Unused /\ No13
No10 == v10 = Unused /\ v11 = Unused /\ No12
No9 == v9 = Unused /\ No10
No6 == v6 = Unused /\ v7 = Unused /\ v8 = Unused /\ No9
No5 == v5 = Unused /\ No6

Init ==
  \/ part = "mcp" /\ Mcp!Init /\ No15
  \/ part = "reply" /\ Reply!Init /\ No19
  \/ part = "desk" /\ Desk!Init /\ No10
  \/ part = "push" /\ Push!Init /\ No12
  \/ part = "turn" /\ Turn!Init
  \/ part = "child" /\ Child!Init /\ No17
  \/ part = "files" /\ Files!Init /\ No17
  \/ part = "trust" /\ Trust!Init /\ No12
  \/ part = "access" /\ Grant!Init /\ No16
  \/ part = "settings" /\ Conf!Init /\ No5
  \/ part = "repair" /\ Repair!Init /\ No6
  \/ part = "gates" /\ Gate!Init /\ No10
  \/ part = "providers" /\ Live!Init /\ No15
  \/ part = "stream" /\ Stream!Init /\ No13
  \/ part = "start" /\ Start!Init /\ No9
  \/ part = "bundles" /\ Bundle!Init /\ No14
  \/ part = "code" /\ Code!Init /\ No16
  \/ part = "keys" /\ Key!Init /\ No13
  \/ part = "lanes" /\ Lane!Init /\ No13
  \/ part = "ears" /\ Ear!Init /\ No9

Next ==
  \/ part = "mcp" /\ Mcp!Next /\ UNCHANGED <<part, From15>>
  \/ part = "reply" /\ Reply!Next /\ UNCHANGED <<part, From19>>
  \/ part = "desk" /\ Desk!Next /\ UNCHANGED <<part, From10>>
  \/ part = "push" /\ Push!Next /\ UNCHANGED <<part, From12>>
  \/ part = "turn" /\ Turn!Next /\ UNCHANGED part
  \/ part = "child" /\ Child!Next /\ UNCHANGED <<part, From17>>
  \/ part = "files" /\ Files!Next /\ UNCHANGED <<part, From17>>
  \/ part = "trust" /\ Trust!Next /\ UNCHANGED <<part, From12>>
  \/ part = "access" /\ Grant!Next /\ UNCHANGED <<part, From16>>
  \/ part = "settings" /\ Conf!Next /\ UNCHANGED <<part, From5>>
  \/ part = "repair" /\ Repair!Next /\ UNCHANGED <<part, From6>>
  \/ part = "gates" /\ Gate!Next /\ UNCHANGED <<part, From10>>
  \/ part = "providers" /\ Live!Next /\ UNCHANGED <<part, From15>>
  \/ part = "stream" /\ Stream!Next /\ UNCHANGED <<part, From13>>
  \/ part = "start" /\ Start!Next /\ UNCHANGED <<part, From9>>
  \/ part = "bundles" /\ Bundle!Next /\ UNCHANGED <<part, From14>>
  \/ part = "code" /\ Code!Next /\ UNCHANGED <<part, From16>>
  \/ part = "keys" /\ Key!Next /\ UNCHANGED <<part, From13>>
  \/ part = "lanes" /\ Lane!Next /\ UNCHANGED <<part, From13>>
  \/ part = "ears" /\ Ear!Next /\ UNCHANGED <<part, From9>>

Spec == Init /\ [][Next]_vars

-----------------------------------------------------------------------------
(***************************************************************************)
(* Properties: those of the parts.                                         *)
(***************************************************************************)

\* LiveMcp, LiveProviders, LiveBundles, CodeMode and Lanes: what is changed while a session runs
\* is there, serves and can be undone as reported; a program's calls are reported, and it is gone
\* when its caller returns; a sub-agent has one lane, live as long as it is.
LiveAsReported ==
  /\ part = "mcp" => Mcp!LiveAsReported
  /\ part = "providers" => Live!ProvidersSound
  /\ part = "bundles" => Bundle!BundlesSound
  /\ part = "code" => Code!CodeSound
  /\ part = "lanes" => Lane!LanesSound
\* Replies, ReplyListeners, AttentionPush and EventStream: what the channel and the attention file
\* say of a notification is true, a session that can take replies is found, a clear is the last
\* word, no wakeup is lost, and the client has every event once, with costs that add up.
NotificationsSound ==
  /\ part = "reply" => Reply!RepliesSound
  /\ part = "ears" => Ear!ListenersSound
  /\ part = "push" => Push!PushSound
  /\ part = "stream" => Stream!StreamSound
\* SessionFiles, TranscriptRepair and SessionStart: what was saved, named and tagged stays,
\* through kills, other writers and moves, a start says what it resumed, and what is read back can
\* be sent to a provider.
FilesSound ==
  /\ part = "files" => Files!FilesSound
  /\ part = "repair" => Repair!RepairSound
  /\ part = "start" => Start!StartSound
\* Settings and Credentials: what was set counts, the roster is what was asked for, and a key is
\* the one its user stored or exported.
SettingsSound ==
  /\ part = "settings" => Conf!SettingsSound
  /\ part = "keys" => Key!CredentialsSound

=============================================================================
