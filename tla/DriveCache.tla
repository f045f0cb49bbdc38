------------------------------ MODULE DriveCache ------------------------------
(***************************************************************************)
(* GDriveCache (ibkr_core_mcp/cache.py) under the tools that use it        *)
(* (claude_tools.py): processes that share one Google Drive.  Bars are     *)
(* parquet files in a folder market_data, which is found or made on first  *)
(* use; a manifest in that folder lists what is cached, and a process      *)
(* trusts its copy of the manifest for 60 seconds.                         *)
(*                                                                         *)
(* Every request to Drive is a step of its own.  A process works on one    *)
(* tool call at a time, as the MCP server does.                            *)
(***************************************************************************)
EXTENDS Integers, FiniteSets

CONSTANTS
    Clients,     \* processes
    Writers,     \* processes that fetch and delete; the others only look
    Keys,        \* (symbol, bar size, period, end date)
    Manifest,    \* the name "manifest.json"
    None,        \* no folder resolved, no call under way
    MaxSaves,    \* bound: complete histories delivered by IBKR
    MaxFails,    \* bound: failed requests and crashes
    MaxLosses    \* bound: how often the user deletes the folder

ASSUME DriveConstants ==
    /\ Writers \subseteq Clients /\ Manifest \notin Keys /\ None \notin Nat \cup Keys
    /\ MaxSaves \in Nat /\ MaxFails \in Nat /\ MaxLosses \in Nat

VARIABLES
    proc,      \* what each process does and remembers
    folders,   \* the market_data folders on Drive
    files,     \* the files in them
    ids,       \* how many ids Drive has given out
    saves,     \* how many complete histories IBKR has delivered
    fails,     \* how often something failed
    losses     \* how often the folder was deleted

drive == <<folders, files, ids>>
count == <<saves, fails, losses>>
vars == <<proc, drive, count>>

ReadTools == {"check_cache", "add_indicators"}
Tools == ReadTools \cup {"fetch_market_data", "delete_cache"}
Methods == {"check", "load", "save", "delete"}
Local == {"idle", "lookup", "answer", "ibkr", "enter"}
Requests == {"resolve", "make", "find manifest", "get manifest", "find", "get",
             "upload", "remove", "find old", "publish"}
Results == {"", "hit", "miss", "loaded", "gone", "fetched", "not saved", "deleted",
            "raised", "crashed"}

\* found: ids that the last listing returned and that are still to be used.
Process == [at : Local \cup Requests, tool : Tools, op : Methods, key : Keys \cup {None},
            found : SUBSET Nat, version : Nat, result : Results,
            folder : Nat \cup {None}, memory : SUBSET Keys, loaded : BOOLEAN]

\* A parquet file holds a version of the bars, the manifest the keys it lists.
File == [id : Nat, folder : Nat, name : Keys \cup {Manifest}, version : Nat, entries : SUBSET Keys]

\* A listing asks for a name in a folder and for no order: files[0] is any of them.
Named(f, name) == {x \in files : x.folder = f /\ x.name = name}
First(found) == IF found = {} THEN {{}} ELSE {{x.id} : x \in found}

\* A call that has ended leaves its result and what the cache object remembers.
End(p, result) ==
    [p EXCEPT !.at = "idle", !.tool = "check_cache", !.op = "check", !.key = None,
              !.found = {}, !.version = 0, !.result = result]

\* A process that has just started.
Restarted(p, result) ==
    [End(p, result) EXCEPT !.folder = None, !.memory = {}, !.loaded = FALSE]

Init ==
    /\ proc = [c \in Clients |->
           [at |-> "idle", tool |-> "check_cache", op |-> "check", key |-> None,
            found |-> {}, version |-> 0, result |-> "",
            folder |-> None, memory |-> {}, loaded |-> FALSE]]
    /\ folders = {} /\ files = {} /\ ids = 0
    /\ saves = 0 /\ fails = 0 /\ losses = 0

\* load takes a failure to find the folder or the file for a miss, and forgets the
\* folder; everything else propagates.
Raised(p) ==
    IF p.op = "load" /\ p.at \in {"resolve", "make", "find"}
    THEN [End(p, "gone") EXCEPT !.folder = None]
    ELSE End(p, "raised")

Becomes(c, p) == proc' = [proc EXCEPT ![c] = p]

\* A request has taken effect: the call goes on, or the answer is lost.
AnswerOrLost(c, p) ==
    \/ Becomes(c, p) /\ UNCHANGED fails
    \/ fails < MaxFails /\ fails' = fails + 1 /\ Becomes(c, Raised(proc[c]))

-----------------------------------------------------------------------------
(* The tools. *)

\* load, save and delete start with the folder, then look for the file of the key.
Start(p, op) ==
    [p EXCEPT !.op = op, !.at = IF p.folder = None THEN "resolve" ELSE "find"]

\* Every tool asks check first.
Begin(c) ==
    /\ proc[c].at = "idle"
    /\ \E t \in Tools, k \in Keys :
         /\ t \in ReadTools \/ c \in Writers
         /\ Becomes(c, [proc[c] EXCEPT !.at = "lookup", !.op = "check", !.tool = t,
                                       !.key = k, !.result = ""])
    /\ UNCHANGED <<drive, count>>

\* What the tools do with check's answer.
OnHit(p) ==
    CASE p.tool = "check_cache"  -> End(p, "hit")
      [] p.tool = "delete_cache" -> Start(p, "delete")
      [] OTHER                   -> Start(p, "load")
OnMiss(p) ==
    IF p.tool = "fetch_market_data" THEN [p EXCEPT !.at = "ibkr"] ELSE End(p, "miss")

Answer(c) ==
    LET p == proc[c] IN
    /\ p.at = "answer"
    /\ Becomes(c, IF p.key \in p.memory THEN OnHit(p) ELSE OnMiss(p))
    /\ UNCHANGED <<drive, count>>

\* Complete bars are saved; what IBKR delivers incomplete, or not at all, is not.
Fetch(c) ==
    LET p == proc[c] IN
    /\ p.at = "ibkr"
    /\ \/ saves < MaxSaves /\ saves' = saves + 1
          /\ Becomes(c, [Start(p, "save") EXCEPT !.version = saves + 1])
       \/ UNCHANGED saves /\ Becomes(c, End(p, "not saved"))
    /\ UNCHANGED <<drive, fails, losses>>

-----------------------------------------------------------------------------
(* The folder. *)

AfterFolder(p, f) ==
    [p EXCEPT !.folder = f, !.at = IF p.op = "check" THEN "find manifest" ELSE "find"]

\* _resolve_cache_folder: the oldest folder, if there is one.
Resolve(c) ==
    LET p == proc[c] IN
    /\ p.at = "resolve"
    /\ \/ folders = {} /\ Becomes(c, [p EXCEPT !.at = "make"])
       \/ \E f \in folders : (\A g \in folders : f <= g) /\ Becomes(c, AfterFolder(p, f))
    /\ UNCHANGED <<drive, count>>

MakeFolder(c) ==
    /\ proc[c].at = "make"
    /\ ids' = ids + 1 /\ folders' = folders \cup {ids + 1}
    /\ AnswerOrLost(c, AfterFolder(proc[c], ids + 1))
    /\ UNCHANGED <<files, saves, losses>>

-----------------------------------------------------------------------------
(* The manifest. *)

\* Where _load_manifest returns to.
WithManifest(p) == [p EXCEPT !.at = IF p.op = "check" THEN "answer" ELSE "enter"]

\* _load_manifest within 60 seconds of the last load ...
UseCopy(c) ==
    /\ proc[c].at = "lookup" /\ proc[c].loaded
    /\ Becomes(c, WithManifest(proc[c]))
    /\ UNCHANGED <<drive, count>>

\* ... and after it.
Reload(c) ==
    LET p == proc[c] IN
    /\ p.at = "lookup"
    /\ Becomes(c, [p EXCEPT !.at = IF p.folder = None THEN "resolve" ELSE "find manifest",
                            !.loaded = FALSE])
    /\ UNCHANGED <<drive, count>>

FindManifest(c) ==
    LET p == proc[c] IN
    /\ p.at = "find manifest" /\ p.folder \in folders
    /\ \E found \in First(Named(p.folder, Manifest)) :
         Becomes(c, IF found = {}
                    THEN [WithManifest(p) EXCEPT !.memory = {}, !.loaded = TRUE]
                    ELSE [p EXCEPT !.at = "get manifest", !.found = found])
    /\ UNCHANGED <<drive, count>>

GetManifest(c) ==
    LET p == proc[c] IN
    /\ p.at = "get manifest"
    /\ \E x \in files :
         /\ x.id \in p.found
         /\ Becomes(c, [WithManifest(p) EXCEPT !.memory = x.entries, !.loaded = TRUE, !.found = {}])
    /\ UNCHANGED <<drive, count>>

\* Mutant: the entry is set before the manifest is loaded, and the load drops it.
EditedTooEarly(p) == IF p.op = "save" THEN p.memory ELSE p.memory \ {p.key}
\* What save and delete make of the manifest in memory.
Edited(p) == IF p.op = "save" THEN p.memory \cup {p.key} ELSE p.memory \ {p.key}

Enter(c) ==
    LET p == proc[c] IN
    /\ p.at = "enter"
    /\ Becomes(c, [p EXCEPT !.at = "find old", !.memory = Edited(p)])
    /\ UNCHANGED <<drive, count>>

\* files().create if the listing found nothing, else files().update.
Put(p, name, version, entries) ==
    \/ /\ p.found = {} /\ p.folder \in folders
       /\ ids' = ids + 1
       /\ files' = files \cup {[id |-> ids + 1, folder |-> p.folder, name |-> name,
                                version |-> version, entries |-> entries]}
    \/ \E x \in files :
         /\ x.id \in p.found
         /\ files' = (files \ {x}) \cup {[x EXCEPT !.version = version, !.entries = entries]}
         /\ UNCHANGED ids

\* _save_manifest.
FindOld(c) ==
    LET p == proc[c] IN
    /\ p.at = "find old" /\ p.folder \in folders
    /\ \E found \in First(Named(p.folder, Manifest)) :
         Becomes(c, [p EXCEPT !.at = "publish", !.found = found])
    /\ UNCHANGED <<drive, count>>

Publish(c) ==
    LET p == proc[c] IN
    /\ p.at = "publish"
    /\ Put(p, Manifest, 0, p.memory)
    /\ AnswerOrLost(c, End(p, IF p.op = "save" THEN "fetched" ELSE "deleted"))
    /\ UNCHANGED <<folders, saves, losses>>

-----------------------------------------------------------------------------
(* The file of a key. *)

\* Mutant: an upload never looks for the file it replaces.
ListedUnlessSave(p) == IF p.op = "save" THEN {} ELSE Named(p.folder, p.key)

Listed(p) == Named(p.folder, p.key)

\* Mutant: load goes on without a file.
AfterFindUnchecked(p, found) ==
    CASE p.op = "save"   -> [p EXCEPT !.at = "upload", !.found = found]
      [] p.op = "delete" -> [p EXCEPT !.at = IF found = {} THEN "lookup" ELSE "remove", !.found = found]
      [] OTHER           -> [p EXCEPT !.at = "get", !.found = found]

\* load without a file is a CacheMissError; delete without one goes on to the manifest.
AfterFind(p, found) ==
    CASE p.op = "save"   -> [p EXCEPT !.at = "upload", !.found = found]
      [] p.op = "delete" -> [p EXCEPT !.at = IF found = {} THEN "lookup" ELSE "remove", !.found = found]
      [] OTHER           -> IF found = {} THEN End(p, "gone")
                                          ELSE [p EXCEPT !.at = "get", !.found = found]

\* load and save take files[0], delete all of them.
Find(c) ==
    LET p == proc[c] IN
    /\ p.at = "find" /\ p.folder \in folders
    /\ \E found \in IF p.op = "delete" THEN {{x.id : x \in Listed(p)}} ELSE First(Listed(p)) :
         Becomes(c, AfterFind(p, found))
    /\ UNCHANGED <<drive, count>>

Get(c) ==
    LET p == proc[c] IN
    /\ p.at = "get"
    /\ \E x \in files : x.id \in p.found
    /\ Becomes(c, End(p, "loaded"))
    /\ UNCHANGED <<drive, count>>

Upload(c) ==
    LET p == proc[c] IN
    /\ p.at = "upload"
    /\ Put(p, p.key, p.version, {})
    /\ AnswerOrLost(c, [p EXCEPT !.at = "lookup", !.found = {}])
    /\ UNCHANGED <<folders, saves, losses>>

Remove(c) ==
    LET p == proc[c] IN
    /\ p.at = "remove"
    /\ \E x \in files :
         /\ x.id \in p.found
         /\ files' = files \ {x}
         /\ AnswerOrLost(c, [p EXCEPT !.found = @ \ {x.id},
                                      !.at = IF p.found = {x.id} THEN "lookup" ELSE "remove"])
    /\ UNCHANGED <<folders, ids, saves, losses>>

-----------------------------------------------------------------------------
(* Failures. *)

\* What a request names is no longer there.
NotFound(p) ==
    \/ p.at \in {"find manifest", "find", "find old"} /\ p.folder \notin folders
    \/ p.at \in {"upload", "publish"} /\ p.found = {} /\ p.folder \notin folders
    \/ \E i \in p.found : \A x \in files : x.id # i

DriveError(c) ==
    /\ proc[c].at \in Requests /\ NotFound(proc[c])
    /\ Becomes(c, Raised(proc[c]))
    /\ UNCHANGED <<drive, count>>

\* Mutant: save logs a failed upload and goes on.
FailSwallowed(c) ==
    LET p == proc[c] IN
    /\ p.at \in Requests
    /\ fails < MaxFails /\ fails' = fails + 1
    /\ Becomes(c, IF p.at = "upload" THEN [p EXCEPT !.at = "lookup", !.found = {}] ELSE Raised(p))
    /\ UNCHANGED <<drive, saves, losses>>

\* A request fails without effect.
Fail(c) ==
    /\ proc[c].at \in Requests
    /\ fails < MaxFails /\ fails' = fails + 1
    /\ Becomes(c, Raised(proc[c]))
    /\ UNCHANGED <<drive, saves, losses>>

\* The process ends and is started again.
Crash(c) ==
    /\ fails < MaxFails /\ fails' = fails + 1
    /\ Becomes(c, Restarted(proc[c], "crashed"))
    /\ UNCHANGED <<drive, saves, losses>>

\* Somebody deletes the folder for good.
LoseFolder ==
    /\ losses < MaxLosses /\ losses' = losses + 1
    /\ \E f \in folders : /\ folders' = folders \ {f}
                          /\ files' = {x \in files : x.folder # f}
    /\ UNCHANGED <<proc, ids, saves, fails>>

Step(c) ==
    \/ Answer(c) \/ Fetch(c) \/ Resolve(c) \/ MakeFolder(c)
    \/ UseCopy(c) \/ Reload(c) \/ FindManifest(c) \/ GetManifest(c)
    \/ Enter(c) \/ FindOld(c) \/ Publish(c)
    \/ Find(c) \/ Get(c) \/ Upload(c) \/ Remove(c) \/ DriveError(c)

Next ==
    \/ \E c \in Clients : Begin(c) \/ Step(c) \/ Fail(c) \/ Crash(c)
    \/ LoseFolder

Spec == Init /\ [][Next]_vars

\* A call goes on until it ends, and a copy of the manifest does not stay valid for ever.
FairSpec == Spec /\ \A c \in Clients : WF_vars(Step(c)) /\ SF_vars(Reload(c))

-----------------------------------------------------------------------------
(* Properties. *)

\* What the processes remember and the files on Drive have their types, and a request
\* that names a file (files[0] of a listing) always has one to name.
TypeOK ==
    /\ proc \in [Clients -> Process]
    /\ folders \subseteq 1..ids /\ files \subseteq File
    /\ \A c \in Clients :
         proc[c].at \in {"get manifest", "get", "remove"} => proc[c].found # {}

\* With one process that writes, a folder never holds two files of one name, so that
\* files[0] of the next listing is the file that was last written, whatever requests
\* failed or lost their answer before, and whichever process made the folder.
OneFilePerName ==
    \A x, y \in files : x.folder = y.folder /\ x.name = y.name => x = y

\* Among the files fs, those of the key a call works on, and the manifests that list it.
Bars(fs, p) == {x \in fs : x.folder = p.folder /\ x.name = p.key}
Listing(fs, p) == {x \in fs : x.folder = p.folder /\ x.name = Manifest /\ p.key \in x.entries}
Ends(c, result) == proc[c].result # result /\ proc'[c].result = result

\* When fetch_market_data says "Saved to Drive cache", Drive holds the bars it fetched
\* and a manifest that lists them: in that order, and past a reload of the manifest in
\* the middle of save.
SaveMeansCached ==
    [][\A c \in Clients : Ends(c, "fetched") =>
          /\ \E x \in Bars(files', proc[c]) : x.version = proc[c].version
          /\ Listing(files', proc[c]) # {}]_vars

\* When delete_cache says "Deleted", neither the file nor the entry is left.
DeleteMeansGone ==
    [][\A c \in Clients : Ends(c, "deleted") =>
          Bars(files', proc[c]) = {} /\ Listing(files', proc[c]) = {}]_vars

\* Both of them: what a tool announces is so on Drive.
AnnouncedIsTrue == SaveMeansCached /\ DeleteMeansGone

\* Entries whose file is missing: check says HIT, load raises CacheMissError.
Orphans ==
    {o \in [folder : folders, key : Keys] : Listing(files, o) # {} /\ Bars(files, o) = {}}

\* While there is one folder, which nobody deleted, and after at most one failure, an entry
\* loses its file only in the step of a deletion that removes the file: a publication never
\* lists a file that is not there.
EntriesFollowFiles ==
    [][losses = 0 /\ Cardinality(folders) <= 1 /\ fails' <= 1 =>
          \A o \in Orphans' \ Orphans : Bars(files, o) # {}]_vars

\* A process that goes on making calls does not raise for ever: after the market_data
\* folder was deleted, the next call finds it or makes it again (_reset_cache_folder).
FolderRediscovered ==
    \A c \in Clients :
        []<>(proc[c].at # "idle") => []<>(proc[c].at = "idle" /\ proc[c].result # "raised")
=============================================================================
