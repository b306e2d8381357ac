-------------------------------- MODULE Sharing --------------------------------
(***************************************************************************)
(* What a session profile shares with ~/.claude (internal/session          *)
(* sharing.go, history.go, mcp.go).                                        *)
(*                                                                         *)
(* Every launch brings the profile in line with its flags, without a lock: *)
(* MCP servers are mirrored, links of items no longer shared are removed,  *)
(* conversation history is merged into ~/.claude and linked, and the       *)
(* manifest of the links cswap owns is written last.  Then Claude Code     *)
(* runs in the profile, and writes through the link or into the profile.   *)
(*                                                                         *)
(* One shared item (settings) and one history item (projects), on POSIX:   *)
(* on Windows items are copied and history is not shared.  The profile's   *)
(* config lock is CCLock's; a splice under it is one step here.            *)
(***************************************************************************)
EXTENDS Naturals, FiniteSets

CONSTANTS Script,             \* conversation transcripts
          Server,             \* MCP server definitions
          Shell,              \* launches of one profile
          MaxLaunches, MaxSlips  \* bounds: launches, failures and deaths

ASSUME SharingAssumption ==
  /\ MaxLaunches \in Nat /\ MaxSlips \in Nat
  /\ Script # {} /\ Server # {}

VARIABLES
  told,         \* history: the transcripts Claude Code wrote
  home,         \* those in ~/.claude
  prof,         \* projects in the profile: [kind, has]
  own,          \* settings in the profile: "none", "link" or "file"
  man,          \* the manifest
  mine, marker, stash,  \* the profile's MCP servers, the adoption marker, the stash
  theirs,       \* the default profile's MCP servers
  run,          \* launch -> its progress
  claude,       \* launch -> its Claude Code: "no", "new" (not registered yet) or "live"
  launches, slips,
  raced,        \* history: a launch ran beside another or beside a Claude not yet registered,
                \* or a conversation began between a launch's look at projects and its link
  cut           \* history: a manifest, or a stash that was used, may be out of date

sharingVars == <<told, home, prof, own, man, mine, marker, stash, theirs, run, claude,
                 launches, slips, raced, cut>>
mcpVars == <<mine, marker, stash>>
itemVars == <<told, home, prof, own, man>>

NoStash == {"no stash"}
NoRun == [st |-> "rest", share |-> FALSE, hist |-> FALSE, managed |-> {}, kept |-> {}]

SharingInit ==
  /\ told \in {{}, {CHOOSE t \in Script : TRUE}}
  /\ home = {} /\ prof = [kind |-> IF told = {} THEN "none" ELSE "real", has |-> told]
  /\ own \in {"none", "file"} /\ man = {}
  /\ mine \in SUBSET Server /\ marker = FALSE /\ stash = NoStash
  /\ theirs \in {{}, {CHOOSE d \in Server : TRUE}}
  /\ run = [s \in Shell |-> NoRun] /\ claude = [s \in Shell |-> "no"]
  /\ launches = 0 /\ slips = 0 /\ raced = FALSE /\ cut = FALSE

Slip == slips < MaxSlips /\ slips' = slips + 1
To(s, r) == run' = [run EXCEPT ![s] = r]
Reaches(s, st) == To(s, [run[s] EXCEPT !.st = st])

\* The items the flags of this launch ask for.
ActiveItems(s) == {i \in {"settings", "projects"} :
                     IF i = "settings" THEN run[s].share ELSE run[s].hist}

Launch(s, share, hist) ==
  /\ run[s].st = "rest" /\ claude[s] = "no" /\ launches < MaxLaunches
  /\ launches' = launches + 1
  /\ To(s, [NoRun EXCEPT !.st = "mcp", !.share = share, !.hist = hist])
  /\ raced' = (raced \/ \E z \in Shell : run[z].st # "rest" \/ claude[z] = "new")
  /\ UNCHANGED <<itemVars, mcpVars, theirs, claude, slips, cut>>

-----------------------------------------------------------------------------
(* syncMCPServers *)

\* In step, or nothing of ours to take back.
MCPInSync(s) ==
  /\ run[s].st = "mcp"
  /\ IF run[s].share THEN mine = theirs /\ marker ELSE ~marker \/ mine = {}
  /\ Reaches(s, "read")
  /\ UNCHANGED <<itemVars, mcpVars, theirs, claude, launches, slips, raced, cut>>

\* From the stash to the marker the profile's config is locked, for a running
\* Claude Code too.
ConfigLocked == \E z \in Shell : run[z].st \in {"splice", "mark"}

\* The first adoption saves what it would displace.  A stash that is already
\* there counts as saved.
StashDisplacedBug(s) ==
  /\ run[s].st = "mcp" /\ run[s].share /\ ~marker /\ mine # theirs /\ ~ConfigLocked
  /\ Reaches(s, "splice")
  /\ UNCHANGED <<itemVars, mcpVars, theirs, claude, launches, slips, raced, cut>>
StashDisplaced(s) ==
  /\ run[s].st = "mcp" /\ run[s].share /\ ~marker /\ mine # theirs /\ ~ConfigLocked
  /\ stash' = IF mine \subseteq theirs \/ stash # NoStash THEN stash ELSE mine \ theirs
  /\ cut' = (cut \/ (stash # NoStash /\ ~(mine \ theirs \subseteq stash)))
  /\ Reaches(s, "splice")
  /\ UNCHANGED <<itemVars, mine, marker, theirs, claude, launches, slips, raced>>

\* The profile's servers become the default profile's, or none.
SpliceMCP(s) ==
  /\ \/ run[s].st = "splice"
     \/ run[s].st = "mcp" /\ marker /\ ~ConfigLocked /\ mine # (IF run[s].share THEN theirs ELSE {})
  /\ mine' = IF run[s].share THEN theirs ELSE {}
  /\ Reaches(s, IF run[s].share THEN "mark" ELSE "read")
  /\ UNCHANGED <<itemVars, marker, stash, theirs, claude, launches, slips, raced, cut>>

EnsureMCPMarker(s) ==
  /\ \/ run[s].st = "mark"
     \/ run[s].st = "mcp" /\ run[s].share /\ mine = theirs /\ ~marker /\ ~ConfigLocked
  /\ marker' = TRUE
  /\ Reaches(s, "read")
  /\ UNCHANGED <<itemVars, mine, stash, theirs, claude, launches, slips, raced, cut>>

\* A lock that is busy, a file that cannot be read or written: fail open.
MCPFails(s) ==
  /\ run[s].st \in {"mcp", "splice", "mark"} /\ Slip
  /\ Reaches(s, "read")
  /\ UNCHANGED <<itemVars, mcpVars, theirs, claude, launches, raced, cut>>

-----------------------------------------------------------------------------
(* syncSharing *)

ReadManifest(s) ==
  /\ run[s].st = "read"
  /\ To(s, [run[s] EXCEPT !.st = "prune", !.managed = man])
  /\ UNCHANGED <<itemVars, mcpVars, theirs, claude, launches, slips, raced, cut>>

\* Links of items that are no longer shared go.  History that is not a link is
\* the user's, whatever the manifest says.
PrunedBug(s, item) == item \in run[s].managed \ ActiveItems(s)
Pruned(s, item) ==
  /\ item \in run[s].managed \ ActiveItems(s)
  /\ item = "projects" => prof.kind = "link"

Prune(s) ==
  /\ run[s].st = "prune"
  /\ own' = IF Pruned(s, "settings") THEN "none" ELSE own
  /\ prof' = IF Pruned(s, "projects") THEN [kind |-> "none", has |-> {}] ELSE prof
  /\ Reaches(s, IF ActiveItems(s) = {} THEN "manifest" ELSE "settings")
  /\ UNCHANGED <<told, home, man, mcpVars, theirs, claude, launches, slips, raced, cut>>

Keep(s, item, st) ==
  To(s, [run[s] EXCEPT !.st = st, !.kept = @ \cup {item}, !.managed = @ \cup {item}])

\* A link is adopted, a file cswap does not own is left, anything else is linked.
ShareSettings(s) ==
  /\ run[s].st = "settings"
  /\ IF ~run[s].share \/ (own = "file" /\ "settings" \notin run[s].managed)
     THEN Reaches(s, "history") /\ UNCHANGED own
     ELSE own' = "link" /\ Keep(s, "settings", "history")
  /\ UNCHANGED <<told, home, prof, man, mcpVars, theirs, claude, launches, slips, raced, cut>>

\* prepareHistoryShare: the profile's own history is merged first, but not while
\* a session runs in the profile.
LiveSessionPIDs == {s \in Shell : claude[s] = "live"}

PrepareHistory(s) ==
  /\ run[s].st = "history"
  /\ Reaches(s, IF ~run[s].hist \/ (prof.kind = "real" /\ LiveSessionPIDs # {}) THEN "manifest"
           ELSE IF prof.kind = "real" THEN "merge" ELSE "link")
  /\ UNCHANGED <<itemVars, mcpVars, theirs, claude, launches, slips, raced, cut>>

\* mergeHistoryDir: a transcript at a time, deepest first; one that ~/.claude has
\* is dropped.
MergeFileBug(s, t) ==
  /\ run[s].st = "merge" /\ prof.kind = "real" /\ t \in prof.has
  /\ prof' = [prof EXCEPT !.has = {}] /\ home' = home \cup {t}
  /\ UNCHANGED <<told, own, man, mcpVars, theirs, run, claude, launches, slips, raced, cut>>
MergeFile(s, t) ==
  /\ run[s].st = "merge" /\ prof.kind = "real" /\ t \in prof.has
  /\ prof' = [prof EXCEPT !.has = @ \ {t}] /\ home' = home \cup {t}
  /\ UNCHANGED <<told, own, man, mcpVars, theirs, run, claude, launches, slips, raced, cut>>

\* The empty directory goes; a launch beside this one may have been faster, and
\* its link goes too.
MergeEnds(s) ==
  /\ run[s].st = "merge" /\ (prof.kind = "real" => prof.has = {})
  /\ prof' = [kind |-> "none", has |-> {}]
  /\ Reaches(s, IF prof.kind = "none" THEN "manifest" ELSE "link")
  /\ UNCHANGED <<told, home, own, man, mcpVars, theirs, claude, launches, slips, raced, cut>>

\* What is there by now is replaced if the manifest lists it.
LinkHistory(s) ==
  /\ run[s].st = "link"
  /\ IF prof.kind = "real" /\ "projects" \notin run[s].managed
     THEN Reaches(s, "manifest") /\ UNCHANGED prof
     ELSE prof' = [kind |-> "link", has |-> {}] /\ Keep(s, "projects", "manifest")
  /\ UNCHANGED <<told, home, own, man, mcpVars, theirs, claude, launches, slips, raced, cut>>

\* An item that fails is left for the next launch.
ItemFails(s) ==
  /\ run[s].st \in {"settings", "merge", "link"} /\ Slip
  /\ Reaches(s, IF run[s].st = "settings" THEN "history" ELSE "manifest")
  /\ UNCHANGED <<itemVars, mcpVars, theirs, claude, launches, raced, cut>>

\* The manifest is what this launch kept; then Claude Code starts.
WriteManifest(s) ==
  /\ run[s].st = "manifest"
  /\ \/ man' = run[s].kept /\ UNCHANGED <<slips, cut>>
     \/ man # run[s].kept /\ Slip /\ cut' = TRUE /\ UNCHANGED man
  /\ To(s, NoRun)
  /\ claude' = [claude EXCEPT ![s] = "new"]
  /\ UNCHANGED <<told, home, prof, own, mcpVars, theirs, launches, raced>>

LaunchDies(s) ==
  /\ run[s].st # "rest" /\ Slip
  /\ To(s, NoRun) /\ cut' = TRUE
  /\ UNCHANGED <<itemVars, mcpVars, theirs, claude, launches, raced>>

-----------------------------------------------------------------------------
(* Claude Code in the profile, and the user *)

Registers(s) ==
  /\ claude[s] = "new" /\ claude' = [claude EXCEPT ![s] = "live"]
  /\ UNCHANGED <<itemVars, mcpVars, theirs, run, launches, slips, raced, cut>>

Exits(s) ==
  /\ claude[s] # "no" /\ claude' = [claude EXCEPT ![s] = "no"]
  /\ UNCHANGED <<itemVars, mcpVars, theirs, run, launches, slips, raced, cut>>

\* A conversation goes where projects is by now.
WritesTranscript(s, t) ==
  /\ claude[s] # "no" /\ t \notin told
  /\ told' = told \cup {t}
  /\ IF prof.kind = "link" THEN home' = home \cup {t} /\ UNCHANGED prof
     ELSE prof' = [kind |-> "real", has |-> prof.has \cup {t}] /\ UNCHANGED home
  /\ raced' = (raced \/ \E z \in Shell : run[z].st = "link")
  /\ UNCHANGED <<own, man, mcpVars, theirs, run, claude, launches, slips, cut>>

\* The user gives the profile settings or a server of its own.
WritesSettings(s) ==
  /\ claude[s] # "no" /\ own = "none" /\ own' = "file"
  /\ UNCHANGED <<told, home, prof, man, mcpVars, theirs, run, claude, launches, slips, raced, cut>>
AddsServer(s, d) ==
  /\ claude[s] # "no" /\ d \notin mine /\ ~ConfigLocked /\ mine' = mine \cup {d}
  /\ UNCHANGED <<itemVars, marker, stash, theirs, run, claude, launches, slips, raced, cut>>

SharingNext ==
  \E s \in Shell :
    \/ MCPInSync(s) \/ StashDisplaced(s) \/ SpliceMCP(s) \/ EnsureMCPMarker(s) \/ MCPFails(s)
    \/ ReadManifest(s) \/ Prune(s) \/ ShareSettings(s) \/ PrepareHistory(s) \/ MergeEnds(s)
    \/ LinkHistory(s) \/ ItemFails(s) \/ WriteManifest(s) \/ LaunchDies(s)
    \/ Registers(s) \/ Exits(s) \/ WritesSettings(s)
    \/ \E share, hist \in BOOLEAN : Launch(s, share, hist)
    \/ \E t \in Script : MergeFile(s, t) \/ WritesTranscript(s, t)
    \/ \E d \in Server : AddsServer(s, d)

SharingSpec == SharingInit /\ [][SharingNext]_sharingVars

-----------------------------------------------------------------------------
(* Properties *)

SharingTypeOK ==
  /\ told \cup home \cup prof.has \subseteq Script
  /\ prof.kind \in {"none", "link", "real"} /\ (prof.kind # "real" => prof.has = {})
  /\ own \in {"none", "link", "file"} /\ man \subseteq {"settings", "projects"}
  /\ mine \subseteq Server /\ (stash = NoStash \/ stash \subseteq Server)
  /\ claude \in [Shell -> {"no", "new", "live"}]

\* Sharing never costs the user anything, whatever flags the launches of a
\* profile have and wherever they fail or die, as long as they do not overlap
\* (each other, or the first write of a conversation into an empty profile):
\* every conversation is in ~/.claude or in the profile, settings of the
\* profile's own are replaced only after a manifest could not be written, and
\* before the profile is adopted a server definition is displaced only if it is
\* in the stash, or an older stash stands in for it (sharing.go syncSharing, history.go
\* mergeHistoryDir, mcp.go stashDisplacedMCP).
NothingIsLost ==
  [][raced' \/
       /\ told' \subseteq home' \cup prof'.has
       /\ own = "file" /\ own' # "file" => cut
       /\ ~marker /\ ~cut => mine \ mine' \subseteq stash']_sharingVars
=============================================================================
