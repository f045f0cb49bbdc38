------------------------------ MODULE DriveProofs ------------------------------
(***************************************************************************)
(* Theorems of DriveCache, for any processes and keys and however often a  *)
(* request fails, an answer is lost, a process crashes or the folder is    *)
(* deleted (cache.py, claude_tools.py).                                    *)
(*                                                                         *)
(* The invariant comes in two layers.  Typed holds for any number of       *)
(* writers: types, where in a call which method runs, and that ids are     *)
(* given out once.  Single needs at most one writer: what the writer's     *)
(* record says of the files on Drive at each point of its call.            *)
(***************************************************************************)
EXTENDS DriveCache, FiniteSetTheorems, TLAPS

\* At most one process writes.
OneWriter == \A v, w \in Writers : v = w

\* Where a call has found, removed or uploaded the file of its key; and where it holds
\* ids of a listing that it still has to use.
Late == {"lookup", "find manifest", "get manifest", "enter", "find old", "publish"}
Uses == {"get manifest", "get", "upload", "remove", "publish"}

(********************************* types ***********************************)

\* The method by the place in the call, and who may run it.
Phase(c, p) ==
    /\ p.at = "upload" => p.op = "save"
    /\ p.at = "remove" => p.op = "delete"
    /\ p.at \in {"enter", "find old", "publish"} => p.op \in {"save", "delete"}
    /\ p.at \in {"lookup", "find manifest", "get manifest"} => p.op # "load"
    /\ p.op \in {"save", "delete"} => c \in Writers
    /\ p.tool \in ReadTools \/ c \in Writers
    /\ p.at = "ibkr" => c \in Writers

\* What a call holds at each place: a key, ids to use, a folder, a manifest.
Holds(p) ==
    /\ p.at # "idle" => p.key \in Keys
    /\ p.at \notin Uses => p.found = {}
    /\ p.at \in {"get manifest", "get", "remove"} => p.found # {}
    /\ \/ p.at \in {"find manifest", "get manifest", "find", "get", "upload", "remove",
                    "enter", "find old", "publish"}
       \/ p.at = "lookup" /\ p.op \in {"save", "delete"}
       => p.folder # None
    /\ p.at \in {"enter", "find old", "publish"} => p.loaded

Shaped(c, p, n) ==
    /\ p \in Process
    /\ p.found \subseteq 1..n /\ (p.folder # None => p.folder \in 1..n)
    /\ Phase(c, p) /\ Holds(p)

Typed ==
    /\ ids \in Nat /\ saves \in Nat /\ fails \in Nat /\ losses \in Nat
    /\ proc = [c \in Clients |-> proc[c]]
    /\ \A c \in Clients : Shaped(c, proc[c], ids)
    /\ folders \subseteq 1..ids /\ files \subseteq File
    /\ \A x \in files : x.id \in 1..ids /\ x.folder \in folders
    /\ \A x, y \in files : x.id = y.id => x = y

(******************************** one writer *******************************)

\* The name that the ids a call holds were listed for.
LookedFor(p) == IF p.at \in {"get manifest", "publish"} THEN Manifest ELSE p.key

\* Keys that a manifest lists, and keys that have a file, among the files fs.
InManifest(fs) == UNION {x.entries : x \in {y \in fs : y.name = Manifest}}
Cached(fs) == {x.name : x \in fs}

FoundIs(p, fs) ==
    /\ \A x \in fs : x.id \in p.found => x.folder = p.folder /\ x.name = LookedFor(p)
    /\ p.at \in {"upload", "publish"} /\ p.found = {} =>
          \A x \in fs : ~(x.folder = p.folder /\ x.name = LookedFor(p))

\* What save and delete have done, and what they have made of the manifest in memory.
SaveDone(p, fs, fo) ==
    p.op = "save" /\ p.at \in Late /\ p.folder \in fo =>
        \E x \in fs : x.folder = p.folder /\ x.name = p.key /\ x.version = p.version
DeleteDone(p, fs) ==
    /\ p.op = "delete" /\ p.at \in Late => \A x \in fs : ~(x.folder = p.folder /\ x.name = p.key)
    /\ p.at = "remove" => \A x \in fs : x.folder = p.folder /\ x.name = p.key => x.id \in p.found
Entered(p) ==
    p.at \in {"find old", "publish"} =>
        (p.op = "save" => p.key \in p.memory) /\ (p.op = "delete" => p.key \notin p.memory)

\* While nobody deletes the folder, nothing the writer knows of goes away.
Alive(p, fs, fo, ls) ==
    ls = 0 => /\ p.folder # None => p.folder \in fo
              /\ \A i \in p.found : \E x \in fs : x.id = i

\* While there is one folder and at most one request failed: a key in the manifest the
\* writer trusts is listed on Drive or has a file, unless it is just being deleted; and
\* before the first failure it is listed.
Trust(p, fs, fo, fl, ls) ==
    ls = 0 /\ fl <= 1 /\ (\A f, g \in fo : f = g) /\ p.loaded =>
        /\ fl = 0 /\ p.at \notin {"find old", "publish"} => p.memory \subseteq InManifest(fs)
        /\ \A k \in p.memory : \/ k \in InManifest(fs) \cup Cached(fs)
                               \/ k = p.key /\ p.op = "delete" /\ p.at \in {"remove", "lookup", "enter"}

Knows(p, fs, fo, fl, ls) ==
    /\ FoundIs(p, fs) /\ SaveDone(p, fs, fo) /\ DeleteDone(p, fs) /\ Entered(p)
    /\ Alive(p, fs, fo, ls) /\ Trust(p, fs, fo, fl, ls)

Single ==
    /\ OneFilePerName
    /\ \A w \in Writers : Knows(proc[w], files, folders, fails, losses)

(***************************** steps of a process **************************)

\* A step keeps the first layer, and with one writer the second.
Kept == Typed' /\ (OneWriter /\ Single => Single')

LEMMA KnowsLater ==
    ASSUME NEW p, NEW fs, NEW fo, NEW fl \in Nat, NEW more \in Nat, fl <= more, NEW ls, Knows(p, fs, fo, fl, ls)
    PROVE  Knows(p, fs, fo, more, ls)
<1>1. Trust(p, fs, fo, more, ls)
  <2>1. more <= 1 => fl <= 1
    OBVIOUS
  <2>2. more = 0 => fl = 0
    OBVIOUS
  <2> QED BY <2>1, <2>2 DEF Knows, Trust
<1> QED BY <1>1 DEF Knows

\* A step that changes nothing on Drive.
LEMMA OwnStep ==
    ASSUME Typed, NEW c \in Clients, NEW q, Becomes(c, q), UNCHANGED drive,
           saves' \in Nat, fails' \in Nat, fails <= fails', losses' = losses,
           Shaped(c, q, ids),
           Single /\ c \in Writers => Knows(q, files, folders, fails', losses)
    PROVE  Kept
<1>1. proc' = [proc EXCEPT ![c] = q] /\ UNCHANGED <<folders, files, ids, losses>>
  BY DEF Becomes, drive
<1>2. proc'[c] = q /\ \A d \in Clients : d # c => proc'[d] = proc[d]
  BY <1>1 DEF Typed
<1>3. Typed'
  <2>1. \A d \in Clients : Shaped(d, proc'[d], ids)
    BY <1>2 DEF Typed
  <2>2. proc' = [d \in Clients |-> proc'[d]]
    BY <1>1 DEF Typed
  <2> QED BY <1>1, <2>1, <2>2 DEF Typed
<1>4. ASSUME Single PROVE Single'
  <2>1. OneFilePerName'
    BY <1>1, <1>4 DEF Single, OneFilePerName
  <2>2. ASSUME NEW w \in Writers PROVE Knows(proc'[w], files, folders, fails', losses)
    <3>1. CASE w = c
      BY <1>2, <1>4, <3>1
    <3>2. CASE w # c
      <4>1. w \in Clients /\ fails \in Nat
        BY DriveConstants DEF Typed
      <4>2. Knows(proc[w], files, folders, fails, losses)
        BY <1>4 DEF Single
      <4>3. Knows(proc[w], files, folders, fails', losses)
        BY <4>1, <4>2, KnowsLater
      <4> QED BY <1>2, <3>2, <4>1, <4>3
    <3> QED BY <3>1, <3>2
  <2> QED BY <1>1, <2>1, <2>2 DEF Single
<1> QED BY <1>3, <1>4 DEF Kept

LEMMA QuietStep ==
    ASSUME Typed, NEW c \in Clients, NEW q, Becomes(c, q), UNCHANGED <<drive, saves, fails, losses>>,
           Shaped(c, q, ids), Single /\ c \in Writers => Knows(q, files, folders, fails, losses)
    PROVE  Kept
<1>1. saves' \in Nat /\ fails' \in Nat /\ fails <= fails' /\ losses' = losses /\ fails' = fails
  BY DEF Typed
<1> QED BY <1>1, OwnStep

\* What is known of one process.
LEMMA OneShaped ==
    ASSUME Typed, NEW c \in Clients
    PROVE  Shaped(c, proc[c], ids) /\ ids \in Nat /\ saves \in Nat /\ fails \in Nat /\ losses \in Nat
  BY DEF Typed

LEMMA BeginOK == ASSUME Typed, NEW c \in Clients, Begin(c) PROVE Kept
<1> DEFINE p == proc[c]
<1>1. PICK t \in Tools, k \in Keys :
        /\ t \in ReadTools \/ c \in Writers
        /\ Becomes(c, [p EXCEPT !.at = "lookup", !.op = "check", !.tool = t, !.key = k, !.result = ""])
  BY DEF Begin
<1> DEFINE q == [p EXCEPT !.at = "lookup", !.op = "check", !.tool = t, !.key = k, !.result = ""]
<1>2. Shaped(c, p, ids) /\ p.at = "idle"
  BY OneShaped DEF Begin
<1>3. q \in Process
  BY <1>2 DEF Shaped, Process, Requests, Local, Methods, Results
<1>4. /\ q.at = "lookup" /\ q.op = "check" /\ q.tool = t /\ q.key = k /\ q.found = p.found
      /\ q.folder = p.folder /\ q.memory = p.memory /\ q.version = p.version
  BY <1>2 DEF Shaped, Process
<1>5. q.loaded = p.loaded
  BY <1>2 DEF Shaped, Process
<1>6. Becomes(c, q) /\ UNCHANGED <<drive, count>>
  BY <1>1 DEF Begin
<1> HIDE DEF p, q
<1>7. Shaped(c, q, ids)
  BY <1>1, <1>2, <1>3, <1>4 DEF Shaped, Phase, Holds, Uses
<1>8. ASSUME Single, c \in Writers PROVE Knows(q, files, folders, fails, losses)
  <2>1. Knows(p, files, folders, fails, losses) /\ p.found = {}
    BY <1>2, <1>8 DEF Single, p, Shaped, Holds, Uses
  <2>2. FoundIs(q, files) /\ SaveDone(q, files, folders) /\ DeleteDone(q, files) /\ Entered(q)
    BY <1>4, <2>1 DEF FoundIs, SaveDone, DeleteDone, Entered
  <2>3. Alive(q, files, folders, losses)
    BY <1>4, <2>1 DEF Knows, Alive
  <2>4. Trust(q, files, folders, fails, losses)
    BY <1>2, <1>4, <1>5, <2>1 DEF Knows, Trust
  <2> QED BY <2>2, <2>3, <2>4 DEF Knows
<1> QED BY <1>6, <1>7, <1>8, OneShaped, OwnStep DEF count

(******************************** a call ends ******************************)

\* q is p after its call, which may have forgotten the folder.
EndedAs(p, q, r) == q = End(p, r) \/ q = [End(p, r) EXCEPT !.folder = None]

LEMMA Ended ==
    ASSUME NEW c, NEW n, NEW p, Shaped(c, p, n), NEW r \in Results, NEW q, EndedAs(p, q, r)
    PROVE  /\ Shaped(c, q, n) /\ q.at = "idle" /\ q.op = "check" /\ q.found = {} /\ q.memory = p.memory
           /\ q.folder \in {p.folder, None} /\ q.loaded = p.loaded
<1>1. q \in Process
  <2>1. CASE q = End(p, r)
    BY <2>1 DEF Shaped, Process, End, Local, Tools, ReadTools, Methods
  <2>2. CASE q = [End(p, r) EXCEPT !.folder = None]
    BY <2>2 DEF Shaped, Process, End, Local, Tools, ReadTools, Methods
  <2> QED BY <2>1, <2>2 DEF EndedAs
<1>2. /\ q.at = "idle" /\ q.tool = "check_cache" /\ q.op = "check" /\ q.found = {}
      /\ q.memory = p.memory /\ q.folder \in {p.folder, None}
  BY DEF Shaped, Process, End, EndedAs
<1>3. q.loaded = p.loaded
  BY DEF Shaped, Process, End, EndedAs
<1>4. Shaped(c, q, n)
  BY <1>1, <1>2 DEF Shaped, Phase, Holds, Uses, ReadTools
<1> QED BY <1>2, <1>3, <1>4

LEMMA RaisedEnds ==
    ASSUME NEW p PROVE \E r \in Results : EndedAs(p, Raised(p), r)
  BY DEF Raised, Results, EndedAs

\* An idle process relies on its copy of the manifest only.
LEMMA IdleKnows ==
    ASSUME NEW p, NEW q, NEW fs, NEW fo, NEW fl, NEW ls, ls = 0 /\ p.folder # None => p.folder \in fo,
           Trust(q, fs, fo, fl, ls), q.at = "idle", q.op = "check", q.found = {}, q.folder \in {p.folder, None}
    PROVE  Knows(q, fs, fo, fl, ls)
  BY DEF Knows, FoundIs, SaveDone, DeleteDone, Entered, Alive, Late

\* The copy is as good as before, also when the call failed half way.
LEMMA IdleTrust ==
    ASSUME NEW p, NEW q, NEW fs, NEW fo, NEW fl \in Nat, NEW more \in Nat, NEW ls, Trust(p, fs, fo, fl, ls),
           q.at = "idle", q.memory = p.memory, q.loaded = p.loaded,
           \/ more = fl /\ p.at \notin {"find old", "publish", "remove", "lookup", "enter"}
           \/ more = fl + 1
    PROVE  Trust(q, fs, fo, more, ls)
<1>1. CASE more = fl /\ p.at \notin {"find old", "publish", "remove", "lookup", "enter"}
  BY <1>1 DEF Trust
<1>2. CASE more = fl + 1
  <2>1. more # 0 /\ (more <= 1 => fl = 0 /\ fl <= 1)
    BY <1>2
  <2> SUFFICES ASSUME ls = 0, more <= 1, \A f, g \in fo : f = g, p.loaded, NEW k \in p.memory
               PROVE  k \in InManifest(fs) \cup Cached(fs)
    BY <2>1 DEF Trust
  <2>2. CASE p.at \in {"find old", "publish"}
    BY <2>1, <2>2 DEF Trust
  <2>3. CASE p.at \notin {"find old", "publish"}
    BY <2>1, <2>3 DEF Trust
  <2> QED BY <2>2, <2>3
<1> QED BY <1>1, <1>2

\* Where the copy of the manifest is in use, or holds the key that is being deleted.
Busy == {"find old", "publish", "remove", "lookup", "enter"}
EndsAfter(c) ==
    \/ fails' = fails /\ (proc[c].at \notin Busy \/ (Single /\ c \in Writers => losses # 0))
    \/ fails' = fails + 1

LEMMA EndsOK ==
    ASSUME Typed, NEW c \in Clients, NEW r \in Results, NEW q, EndedAs(proc[c], q, r),
           Becomes(c, q), UNCHANGED <<drive, saves, losses>>, EndsAfter(c)
    PROVE  Kept
<1> DEFINE p == proc[c]
<1>1. Shaped(c, p, ids) /\ fails \in Nat /\ fails' \in Nat /\ fails <= fails' /\ saves' \in Nat /\ losses' = losses
  <2>1. Shaped(c, p, ids) /\ fails \in Nat /\ saves \in Nat
    BY OneShaped
  <2>2. saves' = saves /\ losses' = losses /\ fails' \in {fails, fails + 1}
    BY DEF EndsAfter
  <2>3. fails' \in Nat /\ fails <= fails'
    BY <2>1, <2>2
  <2> QED BY <2>1, <2>2, <2>3
<1>2. /\ Shaped(c, q, ids) /\ q.at = "idle" /\ q.op = "check" /\ q.found = {} /\ q.memory = p.memory
      /\ q.folder \in {p.folder, None} /\ q.loaded = p.loaded
  BY <1>1, Ended
<1> HIDE DEF p
<1>3. ASSUME Single, c \in Writers PROVE Knows(q, files, folders, fails', losses)
  <2>1. Alive(p, files, folders, losses) /\ Trust(p, files, folders, fails, losses)
    BY <1>3 DEF Single, Knows, p
  <2>2. Trust(q, files, folders, fails', losses)
    <3>1. CASE losses # 0
      BY <3>1 DEF Trust
    <3>2. CASE losses = 0
      <4>1. \/ fails' = fails /\ p.at \notin {"find old", "publish", "remove", "lookup", "enter"}
            \/ fails' = fails + 1
        BY <1>3, <3>2 DEF p, EndsAfter, Busy
      <4> QED BY <1>1, <1>2, <2>1, <4>1, IdleTrust
    <3> QED BY <3>1, <3>2
  <2>3. losses = 0 /\ p.folder # None => p.folder \in folders
    BY <2>1 DEF Alive
  <2> QED BY <1>2, <2>2, <2>3, IdleKnows
<1> QED BY <1>1, <1>2, <1>3, OwnStep

LEMMA FailOK == ASSUME Typed, NEW c \in Clients, Fail(c) PROVE Kept
<1>1. Becomes(c, Raised(proc[c])) /\ UNCHANGED <<drive, saves, losses>> /\ fails' = fails + 1
  BY DEF Fail
<1>2. PICK r \in Results : EndedAs(proc[c], Raised(proc[c]), r)
  BY RaisedEnds
<1> QED BY <1>1, <1>2, EndsOK DEF EndsAfter

\* With one writer and its folder there, what its requests name is there.
LEMMA NothingGone ==
    ASSUME Typed, NEW c \in Writers, Single, losses = 0, NotFound(proc[c])
    PROVE  FALSE
<1> DEFINE p == proc[c]
<1>1. Shaped(c, p, ids)
  BY DriveConstants, OneShaped
<1>2. Alive(p, files, folders, losses)
  BY DEF Single, Knows
<1>3. p.at \in {"find manifest", "find", "find old", "upload", "publish"} => p.folder \in folders
  BY <1>1, <1>2 DEF Shaped, Holds, Alive
<1>4. \A i \in p.found : \E x \in files : x.id = i
  BY <1>2 DEF Alive
<1> HIDE DEF p
<1>5. NotFound(p)
  BY DEF p
<1> QED BY <1>3, <1>4, <1>5 DEF NotFound

LEMMA DriveErrorOK == ASSUME Typed, NEW c \in Clients, DriveError(c) PROVE Kept
<1>1. Becomes(c, Raised(proc[c])) /\ UNCHANGED <<drive, saves, losses, fails>> /\ NotFound(proc[c])
  BY DEF DriveError, count
<1>2. PICK r \in Results : EndedAs(proc[c], Raised(proc[c]), r)
  BY RaisedEnds
<1>3. Single /\ c \in Writers => losses # 0
  BY <1>1, NothingGone
<1> QED BY <1>1, <1>2, <1>3, EndsOK DEF EndsAfter

LEMMA GetOK == ASSUME Typed, NEW c \in Clients, Get(c) PROVE Kept
<1>1. Becomes(c, End(proc[c], "loaded")) /\ UNCHANGED <<drive, saves, losses, fails>> /\ proc[c].at = "get"
  BY DEF Get, count
<1> QED BY <1>1, EndsOK DEF Results, EndsAfter, EndedAs, Busy

LEMMA CrashOK == ASSUME Typed, NEW c \in Clients, Crash(c) PROVE Kept
<1> DEFINE p == proc[c]
           q == Restarted(p, "crashed")
<1>1. Becomes(c, q) /\ UNCHANGED <<drive, saves, losses>> /\ fails' = fails + 1
  BY DEF Crash
<1>2. Shaped(c, p, ids) /\ fails \in Nat /\ fails' \in Nat /\ fails <= fails' /\ saves' \in Nat
  BY <1>1, OneShaped
<1>3. q \in Process
  BY <1>2 DEF Shaped, Process, Restarted, End, Local, Tools, ReadTools, Methods, Results
<1>4. q.at = "idle" /\ q.tool = "check_cache" /\ q.op = "check" /\ q.found = {} /\ q.folder = None
  BY <1>2 DEF Shaped, Process, Restarted, End
<1>5. ~q.loaded
  BY <1>2 DEF Shaped, Process, Restarted, End
<1> HIDE DEF q
<1>6. Shaped(c, q, ids)
  BY <1>3, <1>4 DEF Shaped, Phase, Holds, Uses, ReadTools
<1>7. Knows(q, files, folders, fails', losses)
  BY <1>4, <1>5 DEF Knows, FoundIs, SaveDone, DeleteDone, Entered, Alive, Trust, Late
<1> QED BY <1>1, <1>2, <1>6, <1>7, OwnStep

(**************************** the call goes on ******************************)

\* load, save and delete begin.
LEMMA Starting ==
    ASSUME Typed, NEW c \in Clients, proc[c].at \in {"answer", "ibkr"}, NEW op \in {"load", "save", "delete"},
           op # "load" => c \in Writers, NEW v \in Nat, NEW q, q = [Start(proc[c], op) EXCEPT !.version = v],
           Becomes(c, q), UNCHANGED <<drive, fails, losses>>, saves' \in Nat
    PROVE  Kept
<1> DEFINE p == proc[c]
<1>1. Shaped(c, p, ids) /\ fails \in Nat /\ fails' \in Nat /\ fails <= fails' /\ losses' = losses
  BY OneShaped
<1>2. q \in Process
  BY <1>1 DEF Shaped, Process, Start, Requests, Methods
<1>3. /\ q.at = (IF p.folder = None THEN "resolve" ELSE "find") /\ q.op = op /\ q.tool = p.tool /\ q.key = p.key
      /\ q.found = p.found /\ q.folder = p.folder /\ q.memory = p.memory
  BY <1>1 DEF Shaped, Process, Start
<1>4. q.loaded = p.loaded
  BY <1>1 DEF Shaped, Process, Start
<1>5. p.at \in {"answer", "ibkr"}
  OBVIOUS
<1> HIDE DEF p
<1>6. p.found = {} /\ p.key \in Keys
  BY <1>1, <1>5 DEF Shaped, Holds, Uses
<1>7. q.at \in {"resolve", "find"} /\ (q.at = "find" => q.folder # None)
  BY <1>3
<1>8. Shaped(c, q, ids)
  <2>1. Phase(c, q)
    BY <1>1, <1>3, <1>7 DEF Shaped, Phase
  <2>2. Holds(q)
    BY <1>3, <1>6, <1>7 DEF Holds, Uses
  <2> QED BY <1>1, <1>2, <1>3, <2>1, <2>2 DEF Shaped
<1>9. ASSUME Single, c \in Writers PROVE Knows(q, files, folders, fails', losses)
  <2>1. Alive(p, files, folders, losses) /\ Trust(p, files, folders, fails, losses)
    BY <1>9 DEF Single, Knows, p
  <2>2. FoundIs(q, files) /\ SaveDone(q, files, folders) /\ DeleteDone(q, files) /\ Entered(q)
    BY <1>3, <1>6, <1>7 DEF FoundIs, SaveDone, DeleteDone, Entered, Late
  <2>3. Alive(q, files, folders, losses)
    BY <1>3, <2>1 DEF Alive
  <2>4. Trust(q, files, folders, fails, losses)
    BY <1>3, <1>4, <1>5, <2>1 DEF Trust
  <2> QED BY <2>2, <2>3, <2>4 DEF Knows
<1> QED BY <1>1, <1>8, <1>9, OwnStep

LEMMA StartIs ==
    ASSUME NEW p \in Process, NEW op
    PROVE  Start(p, op) = [Start(p, op) EXCEPT !.version = p.version] /\ p.version \in Nat
  BY DEF Start, Process

LEMMA AnswerOK == ASSUME Typed, NEW c \in Clients, Answer(c) PROVE Kept
<1> DEFINE p == proc[c]
<1>1. p.at = "answer" /\ UNCHANGED <<drive, saves, fails, losses>> /\ p \in Process /\ Shaped(c, p, ids) /\ saves' \in Nat
  BY OneShaped DEF Answer, count, Shaped
<1>2. p.tool \in ReadTools \/ c \in Writers
  BY <1>1 DEF Shaped, Phase
<1>3. EndsAfter(c)
  BY <1>1 DEF EndsAfter, Busy
<1>4. CASE Becomes(c, End(p, "hit"))
  BY <1>1, <1>3, <1>4, EndsOK DEF Results, EndedAs
<1>5. CASE Becomes(c, End(p, "miss"))
  BY <1>1, <1>3, <1>5, EndsOK DEF Results, EndedAs
<1>6. CASE Becomes(c, Start(p, "delete")) /\ p.tool = "delete_cache"
  <2>1. c \in Writers
    BY <1>2, <1>6 DEF ReadTools
  <2>2. Start(p, "delete") = [Start(p, "delete") EXCEPT !.version = p.version] /\ p.version \in Nat
    BY <1>1, StartIs
  <2> HIDE DEF p
  <2> QED BY <1>1, <1>6, <2>1, <2>2, Starting DEF p
<1>7. CASE Becomes(c, Start(p, "load"))
  <2>1. Start(p, "load") = [Start(p, "load") EXCEPT !.version = p.version] /\ p.version \in Nat
    BY <1>1, StartIs
  <2> QED BY <1>1, <1>7, <2>1, Starting
<1>8. CASE Becomes(c, [p EXCEPT !.at = "ibkr"]) /\ p.tool = "fetch_market_data"
  <2> DEFINE q == [p EXCEPT !.at = "ibkr"]
  <2>1. q \in Process
    BY <1>1 DEF Process, Local
  <2>2. /\ q.at = "ibkr" /\ q.op = p.op /\ q.tool = p.tool /\ q.key = p.key /\ q.found = p.found
        /\ q.folder = p.folder /\ q.memory = p.memory
    BY <1>1 DEF Process
  <2>3. q.loaded = p.loaded
    BY <1>1 DEF Process
  <2>4. c \in Writers /\ Becomes(c, q)
    BY <1>2, <1>8 DEF ReadTools
  <2> HIDE DEF p, q
  <2>5. Shaped(c, q, ids)
    BY <1>1, <2>1, <2>2, <2>4 DEF Shaped, Phase, Holds, Uses
  <2>6. ASSUME Single PROVE Knows(q, files, folders, fails, losses)
    <3>1. Knows(p, files, folders, fails, losses)
      BY <2>4, <2>6 DEF Single, p
    <3>2. FoundIs(q, files) /\ SaveDone(q, files, folders) /\ DeleteDone(q, files) /\ Entered(q)
      BY <1>1, <2>2, <3>1 DEF Shaped, Holds, Uses, FoundIs, SaveDone, DeleteDone, Entered, Late
    <3>3. Alive(q, files, folders, losses) /\ Trust(q, files, folders, fails, losses)
      BY <1>1, <2>2, <2>3, <3>1 DEF Knows, Alive, Trust
    <3> QED BY <3>2, <3>3 DEF Knows
  <2> QED BY <1>1, <2>4, <2>5, <2>6, OneShaped, OwnStep
<1> QED BY <1>4, <1>5, <1>6, <1>7, <1>8 DEF Answer, OnHit, OnMiss

LEMMA FetchOK == ASSUME Typed, NEW c \in Clients, Fetch(c) PROVE Kept
<1>1. UNCHANGED <<drive, fails, losses>> /\ proc[c].at = "ibkr" /\ saves \in Nat /\ Shaped(c, proc[c], ids)
  BY OneShaped DEF Fetch
<1>2. CASE saves' = saves + 1 /\ Becomes(c, [Start(proc[c], "save") EXCEPT !.version = saves + 1])
  <2>1. c \in Writers
    BY <1>1 DEF Shaped, Phase
  <2>2. saves + 1 \in Nat
    BY <1>1
  <2> QED BY <1>1, <1>2, <2>1, <2>2, Starting
<1>3. CASE UNCHANGED saves /\ Becomes(c, End(proc[c], "not saved"))
  BY <1>1, <1>3, EndsOK DEF Results, EndsAfter, EndedAs, Busy
<1> QED BY <1>2, <1>3 DEF Fetch

LEMMA ShapedMore == ASSUME NEW c, NEW p, NEW n \in Nat, Shaped(c, p, n) PROVE Shaped(c, p, n + 1)
<1>1. 1..n \subseteq 1..(n + 1)
  OBVIOUS
<1> QED BY <1>1 DEF Shaped

\* The folder was found, or made: the manifest is looked for, or the file of the key.
FolderNext(p) == IF p.op = "check" THEN "find manifest" ELSE "find"

HasFolder(p, q, f) == p.at \in {"resolve", "make"} /\ q = AfterFolder(p, f)

LEMMA FolderShaped ==
    ASSUME NEW c, NEW n \in Nat, NEW p, Shaped(c, p, n), NEW f \in 1..n, NEW q, HasFolder(p, q, f)
    PROVE  /\ Shaped(c, q, n) /\ q.at = FolderNext(p) /\ q.op = p.op
           /\ q.folder = f /\ q.found = {} /\ q.memory = p.memory /\ q.key = p.key /\ q.loaded = p.loaded
<1>1. f \in Nat /\ f # None
  BY DriveConstants
<1>2. q \in Process
  BY <1>1 DEF Shaped, Process, AfterFolder, Requests, HasFolder
<1>3. /\ q.at = FolderNext(p) /\ q.op = p.op /\ q.tool = p.tool
      /\ q.folder = f /\ q.found = p.found /\ q.memory = p.memory /\ q.key = p.key
  BY DEF Shaped, Process, AfterFolder, FolderNext, HasFolder
<1>4. q.loaded = p.loaded
  BY DEF Shaped, Process, AfterFolder, HasFolder
<1>5. p.found = {}
  BY DEF Shaped, Holds, Uses, HasFolder
<1>6. Shaped(c, q, n)
  BY <1>1, <1>2, <1>3, <1>5 DEF Shaped, Phase, Holds, Uses, FolderNext, HasFolder
<1> QED BY <1>3, <1>4, <1>5, <1>6

\* What a call that has just found its folder knows is what the idle process knew.
LEMMA FolderKnows ==
    ASSUME NEW p, NEW q, NEW fs, NEW fo, NEW fl, NEW ls, p.at \in {"resolve", "make"},
           q.at = FolderNext(p), q.op = p.op, q.found = {},
           q.folder \in fo, q.memory = p.memory, q.loaded = p.loaded, Trust(p, fs, fo, fl, ls)
    PROVE  Knows(q, fs, fo, fl, ls)
<1>1. FoundIs(q, fs) /\ SaveDone(q, fs, fo) /\ DeleteDone(q, fs) /\ Entered(q)
  BY DEF FoundIs, SaveDone, DeleteDone, Entered, Late, FolderNext
<1>2. Alive(q, fs, fo, ls)
  BY DEF Alive
<1>3. Trust(q, fs, fo, fl, ls)
  BY DEF Trust, FolderNext
<1> QED BY <1>1, <1>2, <1>3 DEF Knows

LEMMA ResolveOK == ASSUME Typed, NEW c \in Clients, Resolve(c) PROVE Kept
<1> DEFINE p == proc[c]
<1>1. /\ UNCHANGED <<drive, saves, fails, losses>> /\ p.at = "resolve" /\ Shaped(c, p, ids)
      /\ saves \in Nat /\ fails \in Nat /\ ids \in Nat
  BY OneShaped DEF Resolve, count
<1>2. CASE Becomes(c, [p EXCEPT !.at = "make"])
  <2> DEFINE q == [p EXCEPT !.at = "make"]
  <2>1. q \in Process
    BY <1>1 DEF Shaped, Process, Requests
  <2>2. /\ q.at = "make" /\ q.op = p.op /\ q.tool = p.tool /\ q.key = p.key /\ q.found = p.found
        /\ q.folder = p.folder /\ q.memory = p.memory
    BY <1>1 DEF Shaped, Process
  <2>3. q.loaded = p.loaded
    BY <1>1 DEF Shaped, Process
  <2> HIDE DEF q
  <2>4. Shaped(c, q, ids)
    BY <1>1, <2>1, <2>2 DEF Shaped, Phase, Holds, Uses
  <2>5. ASSUME Single, c \in Writers PROVE Knows(q, files, folders, fails, losses)
    <3>1. Knows(p, files, folders, fails, losses)
      BY <2>5 DEF Single
    <3>2. FoundIs(q, files) /\ SaveDone(q, files, folders) /\ DeleteDone(q, files) /\ Entered(q)
      BY <1>1, <2>2, <3>1 DEF Shaped, Holds, Uses, FoundIs, SaveDone, DeleteDone, Entered, Late
    <3>3. Alive(q, files, folders, losses) /\ Trust(q, files, folders, fails, losses)
      BY <1>1, <2>2, <2>3, <3>1 DEF Knows, Alive, Trust
    <3> QED BY <3>2, <3>3 DEF Knows
  <2> QED BY <1>1, <1>2, <2>4, <2>5, OwnStep DEF q
<1>3. CASE \E f \in folders : Becomes(c, AfterFolder(p, f))
  <2>1. PICK f \in folders : Becomes(c, AfterFolder(p, f))
    BY <1>3
  <2> DEFINE q == AfterFolder(p, f)
  <2>2. f \in 1..ids
    BY DEF Typed
  <2>3. HasFolder(p, q, f) /\ Becomes(c, q)
    BY <1>1, <2>1 DEF HasFolder
  <2> HIDE DEF p, q
  <2>4. /\ Shaped(c, q, ids) /\ q.at = FolderNext(p) /\ q.op = p.op
        /\ q.folder = f /\ q.found = {} /\ q.memory = p.memory /\ q.loaded = p.loaded
    BY <1>1, <2>2, <2>3, FolderShaped
  <2>5. ASSUME Single, c \in Writers PROVE Knows(q, files, folders, fails, losses)
    <3>1. Trust(p, files, folders, fails, losses) /\ q.folder \in folders /\ p.at \in {"resolve", "make"}
      BY <1>1, <2>4, <2>5 DEF Single, Knows, p
    <3> QED BY <2>4, <3>1, FolderKnows
  <2> QED BY <1>1, <2>4, <2>5, <2>3, OwnStep
<1> QED BY <1>2, <1>3 DEF Resolve

LEMMA UseCopyOK == ASSUME Typed, NEW c \in Clients, UseCopy(c) PROVE Kept
<1> DEFINE p == proc[c]
           q == WithManifest(p)
<1>1. /\ UNCHANGED <<drive, saves, fails, losses>> /\ p.at = "lookup" /\ p.loaded /\ Shaped(c, p, ids)
      /\ saves \in Nat /\ fails \in Nat /\ Becomes(c, q)
  BY OneShaped DEF UseCopy, count
<1>2. q \in Process
  BY <1>1 DEF Shaped, Process, WithManifest, Local
<1>3. /\ q.op = p.op /\ q.tool = p.tool /\ q.key = p.key /\ q.found = p.found /\ q.version = p.version
      /\ q.folder = p.folder /\ q.memory = p.memory
  BY <1>1 DEF Shaped, Process, WithManifest
<1>4. q.loaded
  BY <1>1 DEF Shaped, Process, WithManifest
<1>5. \/ q.at = "answer" /\ p.op = "check"
      \/ q.at = "enter" /\ p.op \in {"save", "delete"}
  BY <1>1 DEF Shaped, Phase, Process, Methods, WithManifest
<1> HIDE DEF q
<1>6. Shaped(c, q, ids)
  <2>1. Phase(c, q)
    BY <1>1, <1>3, <1>5 DEF Shaped, Phase
  <2>2. Holds(q)
    BY <1>1, <1>3, <1>4, <1>5 DEF Shaped, Holds, Uses
  <2> QED BY <1>1, <1>2, <1>3, <2>1, <2>2 DEF Shaped
<1>7. ASSUME Single, c \in Writers PROVE Knows(q, files, folders, fails, losses)
  <2>1. Knows(p, files, folders, fails, losses)
    BY <1>7 DEF Single
  <2>2. FoundIs(q, files) /\ Entered(q)
    BY <1>1, <1>3, <1>5 DEF Shaped, Holds, Uses, FoundIs, Entered
  <2>3. SaveDone(q, files, folders) /\ DeleteDone(q, files)
    BY <1>1, <1>3, <1>5, <2>1 DEF Knows, SaveDone, DeleteDone, Late
  <2>4. Alive(q, files, folders, losses)
    BY <1>3, <2>1 DEF Knows, Alive
  <2>5. Trust(q, files, folders, fails, losses)
    BY <1>1, <1>3, <1>4, <1>5, <2>1 DEF Knows, Trust
  <2> QED BY <2>2, <2>3, <2>4, <2>5 DEF Knows
<1> QED BY <1>1, <1>6, <1>7, OwnStep

LEMMA ReloadOK == ASSUME Typed, NEW c \in Clients, Reload(c) PROVE Kept
<1> DEFINE p == proc[c]
           q == [p EXCEPT !.at = IF p.folder = None THEN "resolve" ELSE "find manifest", !.loaded = FALSE]
<1>1. /\ UNCHANGED <<drive, saves, fails, losses>> /\ p.at = "lookup" /\ Shaped(c, p, ids)
      /\ saves \in Nat /\ fails \in Nat /\ Becomes(c, q)
  BY OneShaped DEF Reload, count
<1>2. q \in Process
  BY <1>1 DEF Shaped, Process, Requests
<1>3. /\ q.op = p.op /\ q.tool = p.tool /\ q.key = p.key /\ q.found = p.found /\ q.version = p.version
      /\ q.folder = p.folder /\ q.memory = p.memory
  BY <1>1 DEF Shaped, Process
<1>4. ~q.loaded
  BY <1>1 DEF Shaped, Process
<1>5. \/ q.at = "resolve" /\ p.folder = None
      \/ q.at = "find manifest" /\ p.folder # None
  BY <1>1 DEF Shaped, Process
<1> HIDE DEF q
<1>6. Shaped(c, q, ids)
  <2>1. Phase(c, q)
    BY <1>1, <1>3, <1>5 DEF Shaped, Phase
  <2>2. Holds(q)
    BY <1>1, <1>3, <1>5 DEF Shaped, Holds, Uses
  <2> QED BY <1>1, <1>2, <1>3, <2>1, <2>2 DEF Shaped
<1>7. ASSUME Single, c \in Writers PROVE Knows(q, files, folders, fails, losses)
  <2>1. Knows(p, files, folders, fails, losses)
    BY <1>7 DEF Single
  <2>2. FoundIs(q, files) /\ Entered(q)
    BY <1>1, <1>3, <1>5 DEF Shaped, Holds, Uses, FoundIs, Entered
  <2>3. SaveDone(q, files, folders) /\ DeleteDone(q, files)
    BY <1>1, <1>3, <1>5, <2>1 DEF Knows, SaveDone, DeleteDone, Late
  <2>4. Alive(q, files, folders, losses)
    BY <1>3, <2>1 DEF Knows, Alive
  <2>5. Trust(q, files, folders, fails, losses)
    BY <1>4 DEF Trust
  <2> QED BY <2>2, <2>3, <2>4, <2>5 DEF Knows
<1> QED BY <1>1, <1>6, <1>7, OwnStep

LEMMA EnterOK == ASSUME Typed, NEW c \in Clients, Enter(c) PROVE Kept
<1> DEFINE p == proc[c]
           q == [p EXCEPT !.at = "find old", !.memory = Edited(p)]
<1>1. /\ UNCHANGED <<drive, saves, fails, losses>> /\ p.at = "enter" /\ Shaped(c, p, ids)
      /\ saves \in Nat /\ fails \in Nat /\ Becomes(c, q)
  BY OneShaped DEF Enter, count
<1>2. p.op \in {"save", "delete"} /\ p.key \in Keys /\ p.folder # None /\ p.loaded /\ p.memory \subseteq Keys /\ p.found = {}
  BY <1>1 DEF Shaped, Phase, Holds, Process, Uses
<1>3. Edited(p) \subseteq Keys
  BY <1>2 DEF Edited
<1>4. q \in Process
  BY <1>1, <1>3 DEF Shaped, Process, Requests
<1>5. /\ q.at = "find old" /\ q.op = p.op /\ q.tool = p.tool /\ q.key = p.key /\ q.found = p.found
      /\ q.version = p.version /\ q.folder = p.folder /\ q.memory = Edited(p)
  BY <1>1 DEF Shaped, Process
<1>6. q.loaded = p.loaded
  BY <1>1 DEF Shaped, Process
<1> HIDE DEF q
<1>7. Shaped(c, q, ids)
  BY <1>1, <1>2, <1>4, <1>5, <1>6 DEF Shaped, Phase, Holds, Uses
<1>8. ASSUME Single, c \in Writers PROVE Knows(q, files, folders, fails, losses)
  <2>1. Knows(p, files, folders, fails, losses)
    BY <1>8 DEF Single
  <2>2. FoundIs(q, files)
    BY <1>2, <1>5 DEF FoundIs
  <2>3. Entered(q)
    BY <1>2, <1>5 DEF Entered, Edited
  <2>4. SaveDone(q, files, folders) /\ DeleteDone(q, files)
    BY <1>1, <1>5, <2>1 DEF Knows, SaveDone, DeleteDone, Late
  <2>5. Alive(q, files, folders, losses)
    BY <1>5, <2>1 DEF Knows, Alive
  <2>6. Trust(q, files, folders, fails, losses)
    <3> SUFFICES ASSUME losses = 0, fails <= 1, \A f, g \in folders : f = g, NEW k \in q.memory
                 PROVE  k \in InManifest(files) \cup Cached(files)
      BY <1>5 DEF Trust
    <3>1. k \in p.memory => \/ k \in InManifest(files) \cup Cached(files)
                            \/ k = p.key /\ p.op = "delete"
      BY <1>2, <2>1 DEF Knows, Trust
    <3>2. CASE p.op = "save" /\ k = p.key
      <4>1. p.folder \in folders
        BY <1>2, <2>1 DEF Knows, Alive
      <4>2. \E x \in files : x.name = p.key
        BY <1>1, <2>1, <3>2, <4>1 DEF Knows, SaveDone, Late
      <4> QED BY <3>2, <4>2 DEF Cached
    <3>3. CASE p.op = "save" /\ k # p.key
      BY <1>5, <3>1, <3>3 DEF Edited
    <3>4. CASE p.op = "delete"
      BY <1>5, <3>1, <3>4 DEF Edited
    <3> QED BY <1>2, <3>2, <3>3, <3>4
  <2> QED BY <2>2, <2>3, <2>4, <2>5, <2>6 DEF Knows
<1> QED BY <1>1, <1>7, <1>8, OwnStep

(******************************** listings *********************************)

\* What the first file of a listing is.
LEMMA FirstFound ==
    ASSUME Typed, NEW f, NEW name, NEW found \in First(Named(f, name))
    PROVE  /\ found \subseteq 1..ids
           /\ \A x \in files : x.id \in found => x.folder = f /\ x.name = name
           /\ \A i \in found : \E x \in files : x.id = i
           /\ found = {} => \A x \in files : ~(x.folder = f /\ x.name = name)
<1>1. \A x \in files : x.id \in 1..ids
  BY DEF Typed
<1>2. CASE Named(f, name) = {}
  <2>1. found = {}
    BY <1>2 DEF First
  <2> QED BY <1>2, <2>1 DEF Named
<1>3. CASE Named(f, name) # {}
  <2>1. PICK y \in Named(f, name) : found = {y.id}
    BY <1>3 DEF First
  <2>2. y \in files /\ y.folder = f /\ y.name = name
    BY DEF Named
  <2>3. \A x \in files : x.id = y.id => x = y
    BY <2>2 DEF Typed
  <2> QED BY <1>1, <2>1, <2>2, <2>3
<1> QED BY <1>2, <1>3

LEMMA FindManifestOK == ASSUME Typed, NEW c \in Clients, FindManifest(c) PROVE Kept
<1> DEFINE p == proc[c]
<1>1. /\ UNCHANGED <<drive, saves, fails, losses>> /\ p.at = "find manifest" /\ Shaped(c, p, ids)
      /\ saves \in Nat /\ fails \in Nat
  BY OneShaped DEF FindManifest, count
<1>2. PICK found \in First(Named(p.folder, Manifest)) :
        Becomes(c, IF found = {} THEN [WithManifest(p) EXCEPT !.memory = {}, !.loaded = TRUE]
                   ELSE [p EXCEPT !.at = "get manifest", !.found = found])
  BY DEF FindManifest
<1>3. /\ found \subseteq 1..ids
      /\ \A x \in files : x.id \in found => x.folder = p.folder /\ x.name = Manifest
      /\ \A i \in found : \E x \in files : x.id = i
  BY <1>2, FirstFound
<1>4. found \subseteq Nat
  <2>1. found \subseteq 1..ids
    BY <1>3
  <2> QED BY <2>1
<1>5. p.key \in Keys /\ p.found = {} /\ p.folder # None /\ p.op \in {"check", "save", "delete"}
  BY <1>1 DEF Shaped, Holds, Phase, Uses, Process, Methods
<1>6. CASE found = {}
  <2> DEFINE q == [WithManifest(p) EXCEPT !.memory = {}, !.loaded = TRUE]
  <2>1. q \in Process
    BY <1>1 DEF Shaped, Process, WithManifest, Local
  <2>2. /\ q.op = p.op /\ q.tool = p.tool /\ q.key = p.key /\ q.found = p.found /\ q.version = p.version
        /\ q.folder = p.folder /\ q.memory = {}
    BY <1>1 DEF Shaped, Process, WithManifest
  <2>3. q.loaded
    BY <1>1 DEF Shaped, Process, WithManifest
  <2>4. \/ q.at = "answer" /\ p.op = "check"
        \/ q.at = "enter" /\ p.op \in {"save", "delete"}
    BY <1>1, <1>5 DEF Shaped, Process, WithManifest
  <2>5. Becomes(c, q)
    BY <1>2, <1>6
  <2> HIDE DEF q
  <2>6. Shaped(c, q, ids)
    <3>1. Phase(c, q)
      BY <1>1, <2>2, <2>4 DEF Shaped, Phase
    <3>2. Holds(q)
      BY <1>5, <2>2, <2>3, <2>4 DEF Holds, Uses
    <3> QED BY <1>1, <2>1, <2>2, <3>1, <3>2 DEF Shaped
  <2>7. ASSUME Single, c \in Writers PROVE Knows(q, files, folders, fails, losses)
    <3>1. Knows(p, files, folders, fails, losses)
      BY <2>7 DEF Single
    <3>2. FoundIs(q, files) /\ Entered(q)
      BY <1>5, <2>2, <2>4 DEF FoundIs, Entered
    <3>3. SaveDone(q, files, folders) /\ DeleteDone(q, files)
      BY <1>1, <2>2, <2>4, <3>1 DEF Knows, SaveDone, DeleteDone, Late
    <3>4. Alive(q, files, folders, losses)
      BY <2>2, <3>1 DEF Knows, Alive
    <3>5. Trust(q, files, folders, fails, losses)
      BY <2>2 DEF Trust
    <3> QED BY <3>2, <3>3, <3>4, <3>5 DEF Knows
  <2> QED BY <1>1, <2>5, <2>6, <2>7, QuietStep
<1>7. CASE found # {}
  <2> DEFINE q == [p EXCEPT !.at = "get manifest", !.found = found]
  <2>1. q \in Process
    BY <1>1, <1>4 DEF Shaped, Process, Requests
  <2>2. /\ q.at = "get manifest" /\ q.op = p.op /\ q.tool = p.tool /\ q.key = p.key /\ q.found = found
        /\ q.version = p.version /\ q.folder = p.folder /\ q.memory = p.memory
    BY <1>1 DEF Shaped, Process
  <2>3. q.loaded = p.loaded
    BY <1>1 DEF Shaped, Process
  <2>4. Becomes(c, q)
    BY <1>2, <1>7
  <2> HIDE DEF q
  <2>5. Shaped(c, q, ids)
    <3>1. Phase(c, q)
      BY <1>1, <1>5, <2>2 DEF Shaped, Phase
    <3>2. Holds(q)
      BY <1>5, <1>7, <2>2 DEF Holds, Uses
    <3> QED BY <1>1, <1>3, <2>1, <2>2, <3>1, <3>2 DEF Shaped
  <2>6. ASSUME Single, c \in Writers PROVE Knows(q, files, folders, fails, losses)
    <3>1. Knows(p, files, folders, fails, losses)
      BY <2>6 DEF Single
    <3>2. FoundIs(q, files) /\ Entered(q)
      BY <1>3, <2>2 DEF FoundIs, Entered, LookedFor
    <3>3. SaveDone(q, files, folders) /\ DeleteDone(q, files)
      BY <1>1, <2>2, <3>1 DEF Knows, SaveDone, DeleteDone, Late
    <3>4. Alive(q, files, folders, losses)
      BY <1>3, <2>2, <3>1 DEF Knows, Alive
    <3>5. Trust(q, files, folders, fails, losses)
      BY <1>1, <2>2, <2>3, <3>1 DEF Knows, Trust
    <3> QED BY <3>2, <3>3, <3>4, <3>5 DEF Knows
  <2> QED BY <1>1, <2>4, <2>5, <2>6, QuietStep
<1> QED BY <1>6, <1>7

LEMMA GetManifestOK == ASSUME Typed, NEW c \in Clients, GetManifest(c) PROVE Kept
<1> DEFINE p == proc[c]
<1>1. /\ UNCHANGED <<drive, saves, fails, losses>> /\ p.at = "get manifest" /\ Shaped(c, p, ids)
      /\ saves \in Nat /\ fails \in Nat
  BY OneShaped DEF GetManifest, count
<1>2. PICK x \in files :
        /\ x.id \in p.found
        /\ Becomes(c, [WithManifest(p) EXCEPT !.memory = x.entries, !.loaded = TRUE, !.found = {}])
  BY DEF GetManifest
<1>3. x.entries \subseteq Keys
  BY DEF Typed, File
<1>4. p.key \in Keys /\ p.folder # None /\ p.op \in {"check", "save", "delete"}
  BY <1>1 DEF Shaped, Holds, Phase, Uses, Process, Methods
<1> DEFINE q == [WithManifest(p) EXCEPT !.memory = x.entries, !.loaded = TRUE, !.found = {}]
<1>5. q \in Process
  BY <1>1, <1>3 DEF Shaped, Process, WithManifest, Local
<1>6. /\ q.op = p.op /\ q.tool = p.tool /\ q.key = p.key /\ q.found = {} /\ q.version = p.version
      /\ q.folder = p.folder /\ q.memory = x.entries
  BY <1>1 DEF Shaped, Process, WithManifest
<1>7. q.loaded
  BY <1>1 DEF Shaped, Process, WithManifest
<1>8. \/ q.at = "answer" /\ p.op = "check"
      \/ q.at = "enter" /\ p.op \in {"save", "delete"}
  BY <1>1, <1>4 DEF Shaped, Process, WithManifest
<1>9. Becomes(c, q)
  BY <1>2
<1> HIDE DEF q
<1>10. Shaped(c, q, ids)
  <2>1. Phase(c, q)
    BY <1>1, <1>6, <1>8 DEF Shaped, Phase
  <2>2. Holds(q)
    BY <1>4, <1>6, <1>7, <1>8 DEF Holds, Uses
  <2> QED BY <1>1, <1>5, <1>6, <2>1, <2>2 DEF Shaped
<1>11. ASSUME Single, c \in Writers PROVE Knows(q, files, folders, fails, losses)
  <2>1. Knows(p, files, folders, fails, losses)
    BY <1>11 DEF Single
  <2>2. FoundIs(q, files) /\ Entered(q)
    BY <1>6, <1>8 DEF FoundIs, Entered
  <2>3. SaveDone(q, files, folders) /\ DeleteDone(q, files)
    BY <1>1, <1>6, <1>8, <2>1 DEF Knows, SaveDone, DeleteDone, Late
  <2>4. Alive(q, files, folders, losses)
    BY <1>6, <2>1 DEF Knows, Alive
  <2>5. Trust(q, files, folders, fails, losses)
    <3>1. x.name = Manifest
      BY <1>1, <1>2, <2>1 DEF Knows, FoundIs, LookedFor
    <3>2. x.entries \subseteq InManifest(files)
      BY <3>1 DEF InManifest
    <3> QED BY <1>6, <3>2 DEF Trust
  <2> QED BY <2>2, <2>3, <2>4, <2>5 DEF Knows
<1> QED BY <1>1, <1>9, <1>10, <1>11, QuietStep

LEMMA FindOldOK == ASSUME Typed, NEW c \in Clients, FindOld(c) PROVE Kept
<1> DEFINE p == proc[c]
<1>1. /\ UNCHANGED <<drive, saves, fails, losses>> /\ p.at = "find old" /\ Shaped(c, p, ids)
      /\ saves \in Nat /\ fails \in Nat
  BY OneShaped DEF FindOld, count
<1>2. PICK found \in First(Named(p.folder, Manifest)) : Becomes(c, [p EXCEPT !.at = "publish", !.found = found])
  BY DEF FindOld
<1>3. /\ found \subseteq 1..ids
      /\ \A x \in files : x.id \in found => x.folder = p.folder /\ x.name = Manifest
      /\ \A i \in found : \E x \in files : x.id = i
      /\ found = {} => \A x \in files : ~(x.folder = p.folder /\ x.name = Manifest)
  BY <1>2, FirstFound
<1>4. found \subseteq Nat
  <2>1. found \subseteq 1..ids
    BY <1>3
  <2> QED BY <2>1
<1>5. p.key \in Keys /\ p.folder # None /\ p.op \in {"save", "delete"} /\ p.loaded
  BY <1>1 DEF Shaped, Holds, Phase
<1> DEFINE q == [p EXCEPT !.at = "publish", !.found = found]
<1>6. q \in Process
  BY <1>1, <1>4 DEF Shaped, Process, Requests
<1>7. /\ q.at = "publish" /\ q.op = p.op /\ q.tool = p.tool /\ q.key = p.key /\ q.found = found
      /\ q.version = p.version /\ q.folder = p.folder /\ q.memory = p.memory
  BY <1>1 DEF Shaped, Process
<1>8. q.loaded = p.loaded
  BY <1>1 DEF Shaped, Process
<1>9. Becomes(c, q)
  BY <1>2
<1> HIDE DEF q
<1>10. Shaped(c, q, ids)
  <2>1. Phase(c, q)
    BY <1>1, <1>5, <1>7 DEF Shaped, Phase
  <2>2. Holds(q)
    BY <1>5, <1>7, <1>8 DEF Holds, Uses
  <2> QED BY <1>1, <1>3, <1>6, <1>7, <2>1, <2>2 DEF Shaped
<1>11. ASSUME Single, c \in Writers PROVE Knows(q, files, folders, fails, losses)
  <2>1. Knows(p, files, folders, fails, losses)
    BY <1>11 DEF Single
  <2>2. FoundIs(q, files)
    BY <1>3, <1>7 DEF FoundIs, LookedFor
  <2>3. SaveDone(q, files, folders) /\ DeleteDone(q, files) /\ Entered(q)
    BY <1>1, <1>7, <2>1 DEF Knows, SaveDone, DeleteDone, Entered, Late
  <2>4. Alive(q, files, folders, losses)
    BY <1>3, <1>7, <2>1 DEF Knows, Alive
  <2>5. Trust(q, files, folders, fails, losses)
    BY <1>1, <1>7, <1>8, <2>1 DEF Knows, Trust
  <2> QED BY <2>2, <2>3, <2>4, <2>5 DEF Knows
<1> QED BY <1>1, <1>9, <1>10, <1>11, QuietStep

\* The file of the key has been looked for: what the three methods do next.
AtFind(p) == p.at = "find" /\ p.key \in Keys /\ p.folder # None /\ p.found = {}
FoundNext(p, found) ==
    CASE p.op = "save" -> "upload"
      [] p.op = "delete" -> IF found = {} THEN "lookup" ELSE "remove"
      [] OTHER -> "get"

LEMMA FindOK == ASSUME Typed, NEW c \in Clients, Find(c) PROVE Kept
<1> DEFINE p == proc[c]
<1>1. /\ UNCHANGED <<drive, saves, fails, losses>> /\ p.at = "find" /\ Shaped(c, p, ids)
      /\ saves \in Nat /\ fails \in Nat
  BY OneShaped DEF Find, count
<1>2. PICK found \in IF p.op = "delete" THEN {{x.id : x \in Listed(p)}} ELSE First(Listed(p)) :
        Becomes(c, AfterFind(p, found))
  BY DEF Find
<1>3. /\ found \subseteq 1..ids
      /\ \A x \in files : x.id \in found => x.folder = p.folder /\ x.name = p.key
      /\ \A i \in found : \E x \in files : x.id = i
      /\ found = {} => \A x \in files : ~(x.folder = p.folder /\ x.name = p.key)
      /\ p.op = "delete" => \A x \in files : x.folder = p.folder /\ x.name = p.key => x.id \in found
  <2>1. CASE p.op = "delete"
    <3>1. found = {x.id : x \in Named(p.folder, p.key)}
      BY <1>2, <2>1 DEF Listed
    <3>2. \A x \in files : x.id \in 1..ids
      BY DEF Typed
    <3>3. \A x, y \in files : x.id = y.id => x = y
      BY DEF Typed
    <3> QED BY <3>1, <3>2, <3>3 DEF Named
  <2>2. CASE p.op # "delete"
    <3>1. found \in First(Named(p.folder, p.key))
      BY <1>2, <2>2 DEF Listed
    <3> QED BY <2>2, <3>1, FirstFound
  <2> QED BY <2>1, <2>2
<1>4. found \subseteq Nat
  <2>1. found \subseteq 1..ids
    BY <1>3
  <2> QED BY <2>1
<1>5. AtFind(p)
  BY <1>1 DEF Shaped, Holds, Uses, AtFind
<1>6. CASE Becomes(c, End(p, "gone"))
  BY <1>1, <1>6, EndsOK DEF Results, EndsAfter, EndedAs, Busy
<1>7. CASE /\ p.op \in {"save", "delete"} \/ found # {}
           /\ Becomes(c, [p EXCEPT !.at = FoundNext(p, found), !.found = found])
  <2> DEFINE q == [p EXCEPT !.at = FoundNext(p, found), !.found = found]
  <2>1. q \in Process
    BY <1>1, <1>4 DEF Shaped, Process, Requests, Local, FoundNext
  <2>2. /\ q.at = FoundNext(p, found) /\ q.op = p.op /\ q.tool = p.tool /\ q.key = p.key /\ q.found = found
        /\ q.version = p.version /\ q.folder = p.folder /\ q.memory = p.memory
    BY <1>1 DEF Shaped, Process
  <2>3. q.loaded = p.loaded
    BY <1>1 DEF Shaped, Process
  <2>4. \/ q.at = "upload" /\ q.op = "save"
        \/ q.at = "remove" /\ q.op = "delete" /\ found # {}
        \/ q.at = "lookup" /\ q.op = "delete" /\ found = {}
        \/ q.at = "get" /\ q.op \notin {"save", "delete"} /\ found # {}
    BY <1>7, <2>2 DEF FoundNext
  <2>5. Becomes(c, q)
    BY <1>7
  <2> HIDE DEF q, p
  <2>6. Shaped(c, q, ids)
    <3>1. Phase(c, q)
      BY <1>1, <2>2, <2>4 DEF Shaped, Phase
    <3>2. Holds(q)
      BY <1>5, <2>2, <2>4 DEF Holds, Uses, AtFind
    <3> QED BY <1>1, <1>3, <2>1, <2>2, <3>1, <3>2 DEF Shaped
  <2>7. ASSUME Single, c \in Writers PROVE Knows(q, files, folders, fails, losses)
    <3>1. Knows(p, files, folders, fails, losses)
      BY <2>7 DEF Single, p
    <3>2. FoundIs(q, files)
      BY <1>3, <2>2, <2>4 DEF FoundIs, LookedFor
    <3>3. SaveDone(q, files, folders)
      BY <2>4 DEF SaveDone, Late
    <3>4. DeleteDone(q, files) /\ Entered(q)
      BY <1>3, <2>2, <2>4 DEF DeleteDone, Entered, Late
    <3>5. Alive(q, files, folders, losses)
      BY <1>3, <2>2, <3>1 DEF Knows, Alive
    <3>6. Trust(q, files, folders, fails, losses)
      BY <1>1, <2>2, <2>3, <2>4, <3>1 DEF Knows, Trust
    <3> QED BY <3>2, <3>3, <3>4, <3>5, <3>6 DEF Knows
  <2> QED BY <1>1, <2>5, <2>6, <2>7, QuietStep
<1> QED
  <2>1. CASE p.op = "save"
    BY <1>2, <1>7, <2>1 DEF AfterFind, FoundNext
  <2>2. CASE p.op = "delete"
    BY <1>2, <1>7, <2>2 DEF AfterFind, FoundNext
  <2>3. CASE p.op \notin {"save", "delete"} /\ found = {}
    BY <1>2, <1>6, <2>3 DEF AfterFind
  <2>4. CASE p.op \notin {"save", "delete"} /\ found # {}
    BY <1>2, <1>7, <2>4 DEF AfterFind, FoundNext
  <2> QED BY <2>1, <2>2, <2>3, <2>4

(***************************** changes on Drive ****************************)

\* The processes after a step of one of them that gave out an id or none.
LEMMA Others ==
    ASSUME Typed, NEW c \in Clients, NEW q, Becomes(c, q), ids' \in {ids, ids + 1}, Shaped(c, q, ids')
    PROVE  /\ ids' \in Nat /\ proc' = [d \in Clients |-> proc'[d]] /\ proc'[c] = q
           /\ \A d \in Clients : Shaped(d, proc'[d], ids') /\ (d # c => proc'[d] = proc[d])
<1>1. proc' = [proc EXCEPT ![c] = q]
  BY DEF Becomes
<1>2. proc'[c] = q /\ proc' = [d \in Clients |-> proc'[d]] /\ \A d \in Clients : d # c => proc'[d] = proc[d]
  BY <1>1 DEF Typed
<1>3. ids \in Nat
  BY DEF Typed
<1>4. ASSUME NEW d \in Clients, d # c PROVE Shaped(d, proc'[d], ids')
  <2>1. Shaped(d, proc[d], ids) /\ Shaped(d, proc[d], ids + 1)
    BY <1>3, OneShaped, ShapedMore
  <2> QED BY <1>2, <1>4, <2>1
<1>5. ids' \in Nat
  BY <1>3
<1> QED BY <1>2, <1>4, <1>5

LEMMA WriterStep ==
    ASSUME Typed, NEW c \in Writers, OneWriter, OneFilePerName',
           Knows(proc'[c], files', folders', fails', losses')
    PROVE  Single'
<1>1. \A w \in Writers : w = c
  BY DEF OneWriter
<1> QED BY <1>1 DEF Single

LEMMA MakeFolderOK == ASSUME Typed, NEW c \in Clients, MakeFolder(c) PROVE Kept
<1> DEFINE p == proc[c]
<1>1. /\ UNCHANGED <<files, saves, losses>> /\ p.at = "make" /\ Shaped(c, p, ids)
      /\ saves \in Nat /\ fails \in Nat /\ ids \in Nat
      /\ ids' = ids + 1 /\ folders' = folders \cup {ids + 1}
  BY OneShaped DEF MakeFolder
<1>2. Shaped(c, p, ids') /\ ids' \in 1..ids'
  BY <1>1, ShapedMore
<1>3. PICK q : /\ Becomes(c, q)
               /\ \/ HasFolder(p, q, ids') /\ fails' = fails
                  \/ (\E r \in Results : EndedAs(p, q, r)) /\ fails' = fails + 1
  BY <1>1, RaisedEnds DEF MakeFolder, AnswerOrLost, HasFolder
<1>4. \/ /\ q.at = FolderNext(p) /\ q.op = p.op /\ q.folder = ids' /\ fails' = fails /\ HasFolder(p, q, ids')
      \/ /\ q.at = "idle" /\ q.op = "check" /\ q.folder \in {p.folder, None} /\ fails' = fails + 1
  <2>1. CASE HasFolder(p, q, ids') /\ fails' = fails
    <3> HIDE DEF p
    <3>1. ids' \in Nat
      BY <1>1
    <3>2. q.at = FolderNext(p) /\ q.op = p.op /\ q.folder = ids'
      BY <1>2, <2>1, <3>1, FolderShaped
    <3> QED BY <2>1, <3>2
  <2>2. CASE (\E r \in Results : EndedAs(p, q, r)) /\ fails' = fails + 1
    <3> HIDE DEF p
    <3>1. PICK r \in Results : EndedAs(p, q, r)
      BY <2>2
    <3>2. q.at = "idle" /\ q.op = "check" /\ q.folder \in {p.folder, None}
      BY <1>2, <3>1, Ended
    <3> QED BY <2>2, <3>2
  <2> QED BY <1>3, <2>1, <2>2
<1>5. Shaped(c, q, ids') /\ q.found = {} /\ q.memory = p.memory /\ q.loaded = p.loaded
  <2> HIDE DEF p
  <2>1. CASE HasFolder(p, q, ids')
    <3>1. ids' \in Nat
      BY <1>1
    <3> QED BY <1>2, <2>1, <3>1, FolderShaped
  <2>2. CASE \E r \in Results : EndedAs(p, q, r)
    <3>1. PICK r \in Results : EndedAs(p, q, r)
      BY <2>2
    <3> QED BY <1>2, <3>1, Ended
  <2> QED BY <1>3, <2>1, <2>2
<1>6. /\ ids' \in Nat /\ proc' = [d \in Clients |-> proc'[d]] /\ proc'[c] = q
      /\ \A d \in Clients : Shaped(d, proc'[d], ids') /\ (d # c => proc'[d] = proc[d])
  BY <1>1, <1>3, <1>5, Others
<1>7. Typed'
  <2>1. fails' \in Nat /\ saves' \in Nat /\ losses' \in Nat
    BY <1>1, <1>4 DEF Typed
  <2>2. folders' \subseteq 1..ids'
    BY <1>1 DEF Typed
  <2>3. files' \subseteq File /\ \A x, y \in files' : x.id = y.id => x = y
    BY <1>1 DEF Typed
  <2>4. \A x \in files' : x.id \in 1..ids' /\ x.folder \in folders'
    BY <1>1 DEF Typed
  <2> QED BY <1>6, <2>1, <2>2, <2>3, <2>4 DEF Typed
<1>8. ASSUME Single PROVE Single'
  <2>1. OneFilePerName'
    BY <1>1, <1>8 DEF Single, OneFilePerName
  <2>2. (\A f, g \in folders' : f = g) => \A f, g \in folders : f = g
    BY <1>1
  <2>3. ASSUME NEW w \in Writers, w # c PROVE Knows(proc'[w], files', folders', fails', losses')
    <3> DEFINE s == proc[w]
    <3>1. w \in Clients /\ proc'[w] = s /\ Shaped(w, s, ids) /\ Knows(s, files, folders, fails, losses)
      BY <1>6, <1>8, <2>3, DriveConstants, OneShaped DEF Single
    <3>2. fails' \in Nat /\ fails <= fails'
      BY <1>1, <1>4
    <3>3. Knows(s, files, folders, fails', losses)
      BY <1>1, <3>1, <3>2, KnowsLater
    <3> HIDE DEF s
    <3>4. s.folder \in folders' => s.folder \in folders
      <4>1. s.folder # ids + 1
        BY <1>1, <3>1, DriveConstants DEF Shaped
      <4> QED BY <1>1, <4>1
    <3>5. FoundIs(s, files) /\ SaveDone(s, files, folders') /\ DeleteDone(s, files) /\ Entered(s)
      BY <3>3, <3>4 DEF Knows, SaveDone
    <3>6. Alive(s, files, folders', losses)
      BY <1>1, <3>3 DEF Knows, Alive
    <3>7. Trust(s, files, folders', fails', losses)
      BY <2>2, <3>3 DEF Knows, Trust
    <3> QED BY <1>1, <3>1, <3>5, <3>6, <3>7 DEF Knows
  <2>4. ASSUME c \in Writers PROVE Knows(q, files', folders', fails', losses')
    <3>1. Alive(p, files, folders, losses) /\ Trust(p, files, folders, fails, losses)
      BY <1>8, <2>4 DEF Single, Knows
    <3> HIDE DEF p
    <3>2. Trust(p, files, folders', fails, losses)
      BY <2>2, <3>1 DEF Trust
    <3>3. CASE HasFolder(p, q, ids') /\ q.at = FolderNext(p) /\ q.op = p.op /\ q.folder = ids' /\ fails' = fails
      <4>1. p.at \in {"resolve", "make"} /\ q.folder \in folders' /\ files' = files /\ losses' = losses
        BY <1>1, <3>3
      <4>2. Knows(q, files, folders', fails, losses)
        BY <1>5, <3>2, <3>3, <4>1, FolderKnows
      <4> QED BY <3>3, <4>1, <4>2
    <3>4. CASE q.at = "idle" /\ q.op = "check" /\ q.folder \in {p.folder, None} /\ fails' = fails + 1
      <4>1. losses = 0 /\ p.folder # None => p.folder \in folders'
        BY <1>1, <3>1 DEF Alive
      <4>2. fails' \in Nat /\ files' = files /\ losses' = losses
        BY <1>1, <3>4
      <4>3. Trust(q, files, folders', fails', losses)
        BY <1>1, <1>5, <3>2, <3>4, <4>2, IdleTrust
      <4>4. Knows(q, files, folders', fails', losses)
        BY <1>5, <3>4, <4>1, <4>3, IdleKnows
      <4> QED BY <4>2, <4>4
    <3> QED BY <1>4, <3>3, <3>4
  <2>5. \A w \in Writers : Knows(proc'[w], files', folders', fails', losses')
    BY <1>6, <2>3, <2>4
  <2> QED BY <2>1, <2>5 DEF Single
<1> QED BY <1>7, <1>8 DEF Kept

LEMMA LoseFolderOK == ASSUME Typed, LoseFolder PROVE Kept
<1>1. UNCHANGED <<proc, ids, saves, fails>> /\ losses' = losses + 1
  BY DEF LoseFolder
<1>2. PICK f \in folders : folders' = folders \ {f} /\ files' = {x \in files : x.folder # f}
  BY DEF LoseFolder
<1>3. Typed'
  <2>1. files' \subseteq files /\ folders' \subseteq folders
    BY <1>2
  <2>2. \A x \in files' : x.folder \in folders'
    BY <1>2 DEF Typed
  <2>3. losses' \in Nat
    BY <1>1 DEF Typed
  <2> QED BY <1>1, <2>1, <2>2, <2>3 DEF Typed
<1>4. ASSUME Single PROVE Single'
  <2>1. OneFilePerName'
    BY <1>2, <1>4 DEF Single, OneFilePerName
  <2>2. losses' # 0
    BY <1>1 DEF Typed
  <2>3. ASSUME NEW w \in Writers PROVE Knows(proc[w], files', folders', fails, losses')
    <3> DEFINE p == proc[w]
    <3>1. Knows(p, files, folders, fails, losses)
      BY <1>4 DEF Single
    <3> HIDE DEF p
    <3>2. FoundIs(p, files') /\ DeleteDone(p, files') /\ Entered(p)
      BY <1>2, <3>1 DEF Knows, FoundIs, DeleteDone
    <3>3. SaveDone(p, files', folders')
      BY <1>2, <3>1 DEF Knows, SaveDone
    <3>4. Alive(p, files', folders', losses') /\ Trust(p, files', folders', fails, losses')
      BY <2>2 DEF Alive, Trust
    <3> QED BY <3>2, <3>3, <3>4 DEF Knows, p
  <2> QED BY <1>1, <2>1, <2>3 DEF Single
<1> QED BY <1>3, <1>4 DEF Kept

\* What create or update does to the files, for one process that writes: a file with
\* the new content takes the place of the one of its name, if there was one.
LEMMA PutTyped ==
    ASSUME Typed, NEW p, NEW name \in Keys \cup {Manifest}, NEW version \in Nat, NEW entries \in SUBSET Keys,
           Put(p, name, version, entries), UNCHANGED folders
    PROVE  /\ ids' \in {ids, ids + 1} /\ files' \subseteq File
           /\ \A x \in files' : x.id \in 1..ids' /\ x.folder \in folders'
           /\ \A x, y \in files' : x.id = y.id => x = y
<1>1. ids \in Nat /\ files \subseteq File /\ folders \subseteq 1..ids /\ (\A x, y \in files : x.id = y.id => x = y)
  BY DEF Typed
<1>2. \A x \in files : x.id \in 1..ids /\ x.folder \in folders
  BY DEF Typed
<1>3. CASE /\ p.folder \in folders /\ ids' = ids + 1
           /\ files' = files \cup {[id |-> ids + 1, folder |-> p.folder, name |-> name,
                                   version |-> version, entries |-> entries]}
  <2> DEFINE y == [id |-> ids + 1, folder |-> p.folder, name |-> name, version |-> version, entries |-> entries]
  <2>1. p.folder \in Nat /\ ids + 1 \in Nat
    <3>1. p.folder \in 1..ids
      BY <1>1, <1>3
    <3> QED BY <1>1, <3>1
  <2>2. y \in File /\ y.id = ids + 1 /\ y.folder = p.folder
    BY <2>1 DEF File
  <2>3. files' = files \cup {y}
    BY <1>3
  <2> HIDE DEF y
  <2>4. \A x \in files : x.id # ids + 1 /\ x.id \in 1..(ids + 1)
    BY <1>1, <1>2
  <2>5. ids + 1 \in 1..(ids + 1)
    BY <1>1
  <2>6. \A x \in files' : x.id \in 1..ids' /\ x.folder \in folders'
    BY <1>2, <1>3, <2>2, <2>3, <2>4, <2>5
  <2>7. \A x, z \in files' : x.id = z.id => x = z
    BY <1>1, <2>2, <2>3, <2>4
  <2> QED BY <1>1, <1>3, <2>2, <2>3, <2>6, <2>7
<1>4. CASE \E x \in files : /\ files' = (files \ {x}) \cup {[x EXCEPT !.version = version, !.entries = entries]}
                            /\ UNCHANGED ids
  <2>1. PICK x \in files : files' = (files \ {x}) \cup {[x EXCEPT !.version = version, !.entries = entries]}
    BY <1>4
  <2> DEFINE y == [x EXCEPT !.version = version, !.entries = entries]
  <2>2. x \in File
    BY <1>1
  <2>3. y \in File /\ y.id = x.id /\ y.folder = x.folder
    BY <2>2 DEF File
  <2>4. files' = (files \ {x}) \cup {y} /\ ids' = ids
    BY <1>4, <2>1
  <2> HIDE DEF y
  <2> QED BY <1>1, <1>2, <2>3, <2>4
<1> QED BY <1>3, <1>4 DEF Put

LEMMA PutSingle ==
    ASSUME Typed, OneFilePerName, NEW p, NEW name, NEW version, NEW entries, Put(p, name, version, entries),
           \A x \in files : x.id \in p.found => x.folder = p.folder /\ x.name = name,
           p.found = {} => \A x \in files : ~(x.folder = p.folder /\ x.name = name)
    PROVE  \E y \in files' :
             /\ y.folder = p.folder /\ y.name = name /\ y.version = version /\ y.entries = entries
             /\ \A x \in files' : x = y \/ (x \in files /\ ~(x.folder = p.folder /\ x.name = name))
             /\ \A x \in files : x \in files' \/ (x.folder = p.folder /\ x.name = name)
<1>1. CASE /\ p.found = {}
           /\ files' = files \cup {[id |-> ids + 1, folder |-> p.folder, name |-> name,
                                   version |-> version, entries |-> entries]}
  <2> DEFINE y == [id |-> ids + 1, folder |-> p.folder, name |-> name, version |-> version, entries |-> entries]
  <2>1. y.folder = p.folder /\ y.name = name /\ y.version = version /\ y.entries = entries
    OBVIOUS
  <2>2. files' = files \cup {y} /\ \A x \in files : ~(x.folder = p.folder /\ x.name = name)
    BY <1>1
  <2> HIDE DEF y
  <2> QED BY <2>1, <2>2
<1>2. CASE \E x \in files : /\ x.id \in p.found
                            /\ files' = (files \ {x}) \cup {[x EXCEPT !.version = version, !.entries = entries]}
  <2>1. PICK x \in files : /\ x.id \in p.found
                           /\ files' = (files \ {x}) \cup {[x EXCEPT !.version = version, !.entries = entries]}
    BY <1>2
  <2> DEFINE y == [x EXCEPT !.version = version, !.entries = entries]
  <2>2. x \in File /\ x.folder = p.folder /\ x.name = name
    BY <2>1 DEF Typed
  <2>3. y.folder = p.folder /\ y.name = name /\ y.version = version /\ y.entries = entries
    BY <2>2 DEF File
  <2>4. files' = (files \ {x}) \cup {y}
    BY <2>1
  <2>5. \A z \in files : z.folder = p.folder /\ z.name = name => z = x
    BY <2>2 DEF OneFilePerName
  <2> HIDE DEF y
  <2> QED BY <2>2, <2>3, <2>4, <2>5
<1> QED BY <1>1, <1>2 DEF Put

\* What is known of a manifest copy stays true when Drive lists and holds as much.
LEMMA TrustMore ==
    ASSUME NEW p, NEW fs, NEW more, NEW fo, NEW fl, NEW ls, Trust(p, fs, fo, fl, ls),
           InManifest(fs) \subseteq InManifest(more), Cached(fs) \subseteq Cached(more)
    PROVE  Trust(p, more, fo, fl, ls)
  BY DEF Trust

LEMMA UploadOK == ASSUME Typed, NEW c \in Clients, Upload(c) PROVE Kept
<1> DEFINE p == proc[c]
           ok == [p EXCEPT !.at = "lookup", !.found = {}]
<1>1. /\ UNCHANGED <<folders, saves, losses>> /\ p.at = "upload" /\ Shaped(c, p, ids)
      /\ saves \in Nat /\ fails \in Nat /\ losses \in Nat /\ Put(p, p.key, p.version, {})
  BY OneShaped DEF Upload
<1>2. PICK q : /\ Becomes(c, q)
               /\ \/ q = ok /\ fails' = fails
                  \/ (\E r \in Results : EndedAs(p, q, r)) /\ fails' = fails + 1
  BY RaisedEnds DEF Upload, AnswerOrLost
<1>3. p.key \in Keys /\ p.version \in Nat /\ p.op = "save" /\ c \in Writers /\ p.folder # None
  BY <1>1 DEF Shaped, Holds, Phase, Process
<1>4. /\ ids' \in {ids, ids + 1} /\ files' \subseteq File
      /\ \A x \in files' : x.id \in 1..ids' /\ x.folder \in folders'
      /\ \A x, y \in files' : x.id = y.id => x = y
  <2> HIDE DEF p
  <2>1. p.key \in Keys \cup {Manifest} /\ {} \in SUBSET Keys
    BY <1>3
  <2> QED BY <1>1, <1>3, <2>1, PutTyped
<1>5. Shaped(c, p, ids')
  BY <1>1, <1>4, OneShaped, ShapedMore
<1>6. ASSUME Single
      PROVE  /\ Knows(p, files, folders, fails, losses)
             /\ OneFilePerName' /\ InManifest(files) \subseteq InManifest(files') /\ Cached(files) \subseteq Cached(files')
             /\ \E y \in files' : y.folder = p.folder /\ y.name = p.key /\ y.version = p.version
  <2>1. Knows(p, files, folders, fails, losses) /\ OneFilePerName
    BY <1>3, <1>6 DEF Single
  <2>2. /\ \A x \in files : x.id \in p.found => x.folder = p.folder /\ x.name = p.key
        /\ p.found = {} => \A x \in files : ~(x.folder = p.folder /\ x.name = p.key)
    BY <1>1, <2>1 DEF Knows, FoundIs, LookedFor
  <2>3. PICK y \in files' :
           /\ y.folder = p.folder /\ y.name = p.key /\ y.version = p.version /\ y.entries = {}
           /\ \A x \in files' : x = y \/ (x \in files /\ ~(x.folder = p.folder /\ x.name = p.key))
           /\ \A x \in files : x \in files' \/ (x.folder = p.folder /\ x.name = p.key)
    BY <1>1, <2>1, <2>2, PutSingle
  <2>4. OneFilePerName'
    BY <2>1, <2>3 DEF OneFilePerName
  <2>5. InManifest(files) \subseteq InManifest(files')
    <3>1. Manifest # p.key
      BY <1>3, DriveConstants
    <3>2. \A x \in files : x.name = Manifest => x \in files'
      BY <2>3, <3>1
    <3> QED BY <3>2 DEF InManifest
  <2>6. Cached(files) \subseteq Cached(files')
    BY <2>3 DEF Cached
  <2> QED BY <2>1, <2>3, <2>4, <2>5, <2>6
<1>7. CASE q = ok /\ fails' = fails
  <2>1. ok \in Process
    BY <1>1 DEF Shaped, Process, Local
  <2>2. /\ ok.at = "lookup" /\ ok.op = p.op /\ ok.tool = p.tool /\ ok.key = p.key /\ ok.found = {}
        /\ ok.version = p.version /\ ok.folder = p.folder /\ ok.memory = p.memory
    BY <1>1 DEF Shaped, Process
  <2>3. ok.loaded = p.loaded
    BY <1>1 DEF Shaped, Process
  <2> HIDE DEF ok, p
  <2>4. Shaped(c, ok, ids')
    <3>1. Phase(c, ok)
      BY <1>3, <1>5, <2>2 DEF Shaped, Phase
    <3>2. Holds(ok)
      BY <1>3, <2>2 DEF Holds, Uses
    <3> QED BY <1>5, <2>1, <2>2, <3>1, <3>2 DEF Shaped
  <2>5. ASSUME Single PROVE OneFilePerName' /\ Knows(ok, files', folders', fails', losses')
    <3>1. FoundIs(ok, files') /\ DeleteDone(ok, files') /\ Entered(ok)
      BY <1>3, <2>2 DEF FoundIs, DeleteDone, Entered
    <3>2. SaveDone(ok, files', folders')
      BY <1>6, <2>2, <2>5 DEF SaveDone
    <3>3. Alive(ok, files', folders', losses')
      BY <1>1, <1>6, <2>2, <2>5 DEF Knows, Alive
    <3>4. Trust(ok, files', folders', fails', losses')
      <4>1. Trust(p, files', folders, fails, losses)
        BY <1>6, <2>5, TrustMore DEF Knows
      <4> QED BY <1>1, <1>7, <2>2, <2>3, <4>1 DEF Trust
    <3> QED BY <1>6, <2>5, <3>1, <3>2, <3>3, <3>4 DEF Knows
  <2>6. Becomes(c, ok)
    BY <1>2, <1>7
  <2>7. /\ ids' \in Nat /\ proc' = [d \in Clients |-> proc'[d]] /\ proc'[c] = ok
        /\ \A d \in Clients : Shaped(d, proc'[d], ids')
    BY <1>4, <2>4, <2>6, Others
  <2>8. Typed'
    <3>1. folders' \subseteq 1..ids'
      BY <1>1, <1>4, OneShaped DEF Typed
    <3>2. saves' \in Nat /\ fails' \in Nat /\ losses' \in Nat
      BY <1>1, <1>7
    <3> QED BY <1>4, <2>7, <3>1, <3>2 DEF Typed
  <2> QED BY <1>3, <2>5, <2>7, <2>8, WriterStep DEF Kept
<1>8. CASE (\E r \in Results : EndedAs(p, q, r)) /\ fails' = fails + 1
  <2> HIDE DEF ok, p
  <2>1. PICK r \in Results : EndedAs(p, q, r)
    BY <1>8
  <2>2. /\ Shaped(c, q, ids') /\ q.at = "idle" /\ q.op = "check" /\ q.found = {} /\ q.memory = p.memory
        /\ q.folder \in {p.folder, None} /\ q.loaded = p.loaded
    BY <1>5, <2>1, Ended
  <2>3. ASSUME Single PROVE OneFilePerName' /\ Knows(q, files', folders', fails', losses')
    <3>1. Trust(p, files', folders, fails, losses)
      BY <1>6, <2>3, TrustMore DEF Knows
    <3>2. fails' \in Nat /\ folders' = folders /\ losses' = losses
      BY <1>1, <1>8
    <3>3. Trust(q, files', folders, fails', losses)
      BY <1>1, <1>8, <2>2, <3>1, <3>2, IdleTrust
    <3>4. losses = 0 /\ p.folder # None => p.folder \in folders
      BY <1>6, <2>3 DEF Knows, Alive
    <3>5. Knows(q, files', folders, fails', losses)
      BY <2>2, <3>3, <3>4, IdleKnows
    <3> QED BY <1>6, <2>3, <3>2, <3>5
  <2>4. /\ ids' \in Nat /\ proc' = [d \in Clients |-> proc'[d]] /\ proc'[c] = q
        /\ \A d \in Clients : Shaped(d, proc'[d], ids')
    BY <1>2, <1>4, <2>2, Others
  <2>5. Typed'
    <3>1. folders' \subseteq 1..ids'
      BY <1>1, <1>4, OneShaped DEF Typed
    <3>2. saves' \in Nat /\ fails' \in Nat /\ losses' \in Nat
      BY <1>1, <1>8
    <3> QED BY <1>4, <2>4, <3>1, <3>2 DEF Typed
  <2> QED BY <1>3, <2>3, <2>4, <2>5, WriterStep DEF Kept
<1> QED BY <1>2, <1>7, <1>8

LEMMA PublishOK == ASSUME Typed, NEW c \in Clients, Publish(c) PROVE Kept
<1> DEFINE p == proc[c]
<1>1. /\ UNCHANGED <<folders, saves, losses>> /\ p.at = "publish" /\ Shaped(c, p, ids)
      /\ saves \in Nat /\ fails \in Nat /\ losses \in Nat /\ Put(p, Manifest, 0, p.memory)
  BY OneShaped DEF Publish
<1>2. PICK q : Becomes(c, q) /\ (\E r \in Results : EndedAs(p, q, r)) /\ fails' \in {fails, fails + 1}
  <2>1. CASE Becomes(c, End(p, IF p.op = "save" THEN "fetched" ELSE "deleted")) /\ fails' = fails
    <3> DEFINE s == IF p.op = "save" THEN "fetched" ELSE "deleted"
    <3>1. s \in Results /\ EndedAs(p, End(p, s), s) /\ Becomes(c, End(p, s)) /\ fails' \in {fails, fails + 1}
      BY <2>1 DEF Results, EndedAs
    <3> HIDE DEF s
    <3> QED BY <3>1
  <2>2. CASE Becomes(c, Raised(p)) /\ fails' = fails + 1
    BY <2>2, RaisedEnds
  <2> QED BY <2>1, <2>2 DEF Publish, AnswerOrLost
<1>3. p.key \in Keys /\ p.memory \subseteq Keys /\ p.op \in {"save", "delete"} /\ c \in Writers
  BY <1>1 DEF Shaped, Holds, Phase, Process
<1>4. /\ ids' \in {ids, ids + 1} /\ files' \subseteq File
      /\ \A x \in files' : x.id \in 1..ids' /\ x.folder \in folders'
      /\ \A x, y \in files' : x.id = y.id => x = y
  <2> HIDE DEF p
  <2>1. Manifest \in Keys \cup {Manifest} /\ 0 \in Nat
    OBVIOUS
  <2> QED BY <1>1, <1>3, <2>1, PutTyped
<1>5. Shaped(c, p, ids')
  BY <1>1, <1>4, OneShaped, ShapedMore
<1>6. ASSUME Single
      PROVE  /\ Knows(p, files, folders, fails, losses)
             /\ OneFilePerName' /\ p.memory \subseteq InManifest(files')
  <2>1. Knows(p, files, folders, fails, losses) /\ OneFilePerName
    BY <1>3, <1>6 DEF Single
  <2>2. /\ \A x \in files : x.id \in p.found => x.folder = p.folder /\ x.name = Manifest
        /\ p.found = {} => \A x \in files : ~(x.folder = p.folder /\ x.name = Manifest)
    BY <1>1, <2>1 DEF Knows, FoundIs, LookedFor
  <2>3. PICK y \in files' :
           /\ y.folder = p.folder /\ y.name = Manifest /\ y.version = 0 /\ y.entries = p.memory
           /\ \A x \in files' : x = y \/ (x \in files /\ ~(x.folder = p.folder /\ x.name = Manifest))
           /\ \A x \in files : x \in files' \/ (x.folder = p.folder /\ x.name = Manifest)
    BY <1>1, <2>1, <2>2, PutSingle
  <2>4. OneFilePerName'
    BY <2>1, <2>3 DEF OneFilePerName
  <2>5. p.memory \subseteq InManifest(files')
    BY <2>3 DEF InManifest
  <2> QED BY <2>1, <2>4, <2>5
<1> HIDE DEF p
<1>7. /\ Shaped(c, q, ids') /\ q.at = "idle" /\ q.op = "check" /\ q.found = {} /\ q.memory = p.memory
      /\ q.folder \in {p.folder, None} /\ q.loaded = p.loaded
  <2>1. PICK r \in Results : EndedAs(p, q, r)
    BY <1>2
  <2> QED BY <1>5, <2>1, Ended
<1>8. ASSUME Single PROVE OneFilePerName' /\ Knows(q, files', folders', fails', losses')
  <2>1. Trust(q, files', folders', fails', losses')
    BY <1>6, <1>7, <1>8 DEF Trust
  <2>2. losses' = 0 /\ p.folder # None => p.folder \in folders'
    BY <1>1, <1>6, <1>8 DEF Knows, Alive
  <2> QED BY <1>6, <1>7, <1>8, <2>1, <2>2, IdleKnows
<1>9. /\ ids' \in Nat /\ proc' = [d \in Clients |-> proc'[d]] /\ proc'[c] = q
      /\ \A d \in Clients : Shaped(d, proc'[d], ids')
  BY <1>2, <1>4, <1>7, Others
<1>10. Typed'
  <2>1. folders' \subseteq 1..ids'
    BY <1>1, <1>4, OneShaped DEF Typed
  <2>2. saves' \in Nat /\ fails' \in Nat /\ losses' \in Nat
    BY <1>1, <1>2
  <2> QED BY <1>4, <1>9, <2>1, <2>2 DEF Typed
<1> QED BY <1>3, <1>8, <1>9, <1>10, WriterStep DEF Kept

LEMMA RemoveOK == ASSUME Typed, NEW c \in Clients, Remove(c) PROVE Kept
<1> DEFINE p == proc[c]
<1>1. /\ UNCHANGED <<folders, ids, saves, losses>> /\ p.at = "remove" /\ Shaped(c, p, ids)
      /\ saves \in Nat /\ fails \in Nat /\ losses \in Nat /\ ids \in Nat
  BY OneShaped DEF Remove
<1>2. PICK x \in files :
        /\ x.id \in p.found /\ files' = files \ {x}
        /\ AnswerOrLost(c, [p EXCEPT !.found = @ \ {x.id}, !.at = IF p.found = {x.id} THEN "lookup" ELSE "remove"])
  BY DEF Remove
<1> DEFINE ok == [p EXCEPT !.found = @ \ {x.id}, !.at = IF p.found = {x.id} THEN "lookup" ELSE "remove"]
<1>3. p.key \in Keys /\ p.op = "delete" /\ c \in Writers /\ p.folder # None
  BY <1>1 DEF Shaped, Holds, Phase
<1>4. PICK q : /\ Becomes(c, q)
               /\ \/ q = ok /\ fails' = fails
                  \/ (\E r \in Results : EndedAs(p, q, r)) /\ fails' = fails + 1
  BY <1>2, RaisedEnds DEF AnswerOrLost
<1>5. Typed' <=> /\ proc' = [d \in Clients |-> proc'[d]]
                 /\ \A d \in Clients : Shaped(d, proc'[d], ids)
  <2>1. /\ files' \subseteq files /\ folders' = folders /\ ids' = ids
        /\ saves' \in Nat /\ fails' \in Nat /\ losses' \in Nat
    BY <1>1, <1>2, <1>4
  <2> QED BY <2>1 DEF Typed
<1>6. ASSUME Single
      PROVE  /\ Knows(p, files, folders, fails, losses) /\ OneFilePerName'
             /\ x.folder = p.folder /\ x.name = p.key
             /\ InManifest(files) \subseteq InManifest(files') /\ Cached(files) \subseteq Cached(files') \cup {p.key}
  <2>1. Knows(p, files, folders, fails, losses) /\ OneFilePerName
    BY <1>3, <1>6 DEF Single
  <2>2. x.folder = p.folder /\ x.name = p.key
    BY <1>1, <1>2, <2>1 DEF Knows, FoundIs, LookedFor
  <2>3. OneFilePerName'
    BY <1>2, <2>1 DEF OneFilePerName
  <2>4. p.key # Manifest
    BY <1>3, DriveConstants
  <2>5. InManifest(files) \subseteq InManifest(files')
    BY <1>2, <2>2, <2>4 DEF InManifest
  <2>6. Cached(files) \subseteq Cached(files') \cup {p.key}
    BY <1>2, <2>2 DEF Cached
  <2> QED BY <2>1, <2>2, <2>3, <2>5, <2>6
<1>7. CASE q = ok /\ fails' = fails
  <2>1. ok \in Process
    BY <1>1 DEF Shaped, Process, Local, Requests
  <2>2. /\ ok.op = p.op /\ ok.tool = p.tool /\ ok.key = p.key /\ ok.found = p.found \ {x.id}
        /\ ok.version = p.version /\ ok.folder = p.folder /\ ok.memory = p.memory
    BY <1>1 DEF Shaped, Process
  <2>3. ok.loaded = p.loaded
    BY <1>1 DEF Shaped, Process
  <2>4. \/ ok.at = "lookup" /\ ok.found = {} /\ p.found = {x.id}
        \/ ok.at = "remove" /\ ok.found # {}
    BY <1>1, <1>2, <2>2 DEF Shaped, Process
  <2> HIDE DEF ok, p
  <2>5. Shaped(c, ok, ids)
    <3>1. Phase(c, ok)
      BY <1>1, <1>3, <2>2, <2>4 DEF Shaped, Phase
    <3>2. Holds(ok)
      BY <1>3, <2>2, <2>4 DEF Holds, Uses
    <3> QED BY <1>1, <2>1, <2>2, <3>1, <3>2 DEF Shaped
  <2>6. ASSUME Single PROVE Knows(ok, files', folders', fails', losses')
    <3>1. Knows(p, files, folders, fails, losses)
      BY <1>6, <2>6
    <3>2. FoundIs(ok, files')
      BY <1>1, <1>2, <2>2, <2>4, <3>1 DEF Knows, FoundIs, LookedFor
    <3>3. SaveDone(ok, files', folders') /\ Entered(ok)
      BY <1>3, <2>2, <2>4 DEF SaveDone, Entered
    <3>4. DeleteDone(ok, files')
      <4>1. \A y \in files' : y \in files /\ y.id # x.id
        BY <1>2 DEF Typed
      <4>2. \A y \in files : y.folder = p.folder /\ y.name = p.key => y.id \in p.found
        BY <1>1, <3>1 DEF Knows, DeleteDone
      <4>3. CASE ok.at = "lookup"
        <5>1. p.found = {x.id}
          BY <2>4, <4>3
        <5> QED BY <2>2, <4>1, <4>2, <4>3, <5>1 DEF DeleteDone
      <4>4. CASE ok.at = "remove"
        BY <2>2, <4>1, <4>2, <4>4 DEF DeleteDone, Late
      <4> QED BY <2>4, <4>3, <4>4
    <3>5. Alive(ok, files', folders', losses')
      <4>1. losses = 0 => \A i \in p.found : \E y \in files : y.id = i
        BY <3>1 DEF Knows, Alive
      <4>2. losses = 0 => \A i \in ok.found : \E y \in files' : y.id = i
        BY <1>2, <2>2, <4>1
      <4> QED BY <1>1, <2>2, <3>1, <4>2 DEF Knows, Alive
    <3>6. Trust(ok, files', folders', fails', losses')
      <4>1. /\ Trust(p, files, folders, fails, losses)
            /\ InManifest(files) \subseteq InManifest(files') /\ Cached(files) \subseteq Cached(files') \cup {p.key}
        BY <1>6, <2>6, <3>1 DEF Knows
      <4> SUFFICES ASSUME losses = 0, fails <= 1, \A f, g \in folders : f = g, p.loaded
                   PROVE  /\ fails = 0 => p.memory \subseteq InManifest(files')
                          /\ \A k \in p.memory : k \in InManifest(files') \cup Cached(files') \/ k = p.key
        BY <1>1, <1>3, <1>7, <2>2, <2>3, <2>4 DEF Trust
      <4>2. /\ fails = 0 => p.memory \subseteq InManifest(files)
            /\ \A k \in p.memory : k \in InManifest(files) \cup Cached(files) \/ k = p.key
        BY <1>1, <4>1 DEF Trust
      <4> QED BY <4>1, <4>2
    <3> QED BY <3>2, <3>3, <3>4, <3>5, <3>6 DEF Knows
  <2>7. Becomes(c, ok) /\ ids' = ids
    BY <1>1, <1>4, <1>7
  <2>8. /\ proc' = [d \in Clients |-> proc'[d]] /\ proc'[c] = ok
        /\ \A d \in Clients : Shaped(d, proc'[d], ids')
    BY <2>5, <2>7, Others
  <2> QED BY <1>1, <1>3, <1>5, <1>6, <2>6, <2>7, <2>8, WriterStep DEF Kept
<1>8. CASE (\E r \in Results : EndedAs(p, q, r)) /\ fails' = fails + 1
  <2> HIDE DEF ok, p
  <2>1. PICK r \in Results : EndedAs(p, q, r)
    BY <1>8
  <2>2. /\ Shaped(c, q, ids) /\ q.at = "idle" /\ q.op = "check" /\ q.found = {} /\ q.memory = p.memory
        /\ q.folder \in {p.folder, None} /\ q.loaded = p.loaded
    BY <1>1, <2>1, Ended
  <2>3. ASSUME Single PROVE Knows(q, files', folders', fails', losses')
    <3>1. Knows(p, files, folders, fails, losses) /\ InManifest(files) \subseteq InManifest(files')
      BY <1>6, <2>3
    <3>2. Trust(q, files', folders', fails', losses')
      <4>1. fails' <= 1 => fails = 0 /\ fails <= 1
        BY <1>1, <1>8
      <4>2. losses = 0 /\ fails' <= 1 /\ (\A f, g \in folders : f = g) /\ p.loaded => p.memory \subseteq InManifest(files)
        BY <1>1, <3>1, <4>1 DEF Knows, Trust
      <4> QED BY <1>1, <2>2, <3>1, <4>2 DEF Trust
    <3>3. losses' = 0 /\ p.folder # None => p.folder \in folders'
      BY <1>1, <3>1 DEF Knows, Alive
    <3> QED BY <2>2, <3>2, <3>3, IdleKnows
  <2>4. Becomes(c, q) /\ ids' = ids
    BY <1>1, <1>4
  <2>5. /\ proc' = [d \in Clients |-> proc'[d]] /\ proc'[c] = q
        /\ \A d \in Clients : Shaped(d, proc'[d], ids')
    BY <2>2, <2>4, Others
  <2> QED BY <1>1, <1>3, <1>5, <1>6, <2>3, <2>4, <2>5, WriterStep DEF Kept
<1> QED BY <1>4, <1>7, <1>8

(******************************** all steps ********************************)

LEMMA DriveInit == Init => Typed /\ Single
<1> SUFFICES ASSUME Init PROVE Typed /\ Single
  OBVIOUS
<1> DEFINE p == [at |-> "idle", tool |-> "check_cache", op |-> "check", key |-> None,
                 found |-> {}, version |-> 0, result |-> "", folder |-> None, memory |-> {}, loaded |-> FALSE]
<1>1. /\ proc = [c \in Clients |-> p] /\ folders = {} /\ files = {} /\ ids = 0
      /\ saves = 0 /\ fails = 0 /\ losses = 0
  BY DEF Init
<1>2. p \in Process
  BY DEF Process, Local, Tools, ReadTools, Methods, Results
<1>3. p.at = "idle" /\ p.tool = "check_cache" /\ p.op = "check" /\ p.found = {} /\ p.folder = None /\ p.memory = {}
  OBVIOUS
<1>4. ~p.loaded
  OBVIOUS
<1> HIDE DEF p
<1>5. \A c \in Clients : Shaped(c, p, 0)
  BY <1>2, <1>3 DEF Shaped, Phase, Holds, ReadTools
<1>6. Typed
  BY <1>1, <1>5 DEF Typed
<1>7. Knows(p, {}, {}, 0, 0)
  BY <1>3, <1>4 DEF Knows, FoundIs, SaveDone, DeleteDone, Entered, Alive, Trust, Late
<1>8. Single
  BY <1>1, <1>7, DriveConstants DEF Single, OneFilePerName
<1> QED BY <1>6, <1>8

LEMMA DriveSteps == Typed /\ [Next]_vars => Kept
<1> SUFFICES ASSUME Typed, [Next]_vars PROVE Kept
  OBVIOUS
<1>1. ASSUME NEW c \in Clients, Begin(c) \/ Fail(c) \/ Crash(c) PROVE Kept
  BY <1>1, BeginOK, FailOK, CrashOK
<1>2. ASSUME NEW c \in Clients, Step(c) PROVE Kept
  <2>1. CASE Answer(c) \/ Fetch(c) \/ Resolve(c) \/ MakeFolder(c) \/ UseCopy(c)
    BY <2>1, AnswerOK, FetchOK, ResolveOK, MakeFolderOK, UseCopyOK
  <2>2. CASE Reload(c) \/ FindManifest(c) \/ GetManifest(c) \/ Enter(c) \/ FindOld(c)
    BY <2>2, ReloadOK, FindManifestOK, GetManifestOK, EnterOK, FindOldOK
  <2>3. CASE Publish(c) \/ Find(c) \/ Get(c) \/ Upload(c) \/ Remove(c) \/ DriveError(c)
    BY <2>3, PublishOK, FindOK, GetOK, UploadOK, RemoveOK, DriveErrorOK
  <2> QED BY <1>2, <2>1, <2>2, <2>3 DEF Step
<1>3. CASE LoseFolder
  BY <1>3, LoseFolderOK
<1>4. CASE UNCHANGED vars
  <2>1. UNCHANGED <<proc, folders, files, ids, saves, fails, losses>>
    BY <1>4 DEF vars, drive, count
  <2>2. Typed'
    BY <2>1 DEF Typed
  <2>3. Single => Single'
    BY <2>1 DEF Single, OneFilePerName
  <2> QED BY <2>2, <2>3 DEF Kept
<1> QED BY <1>1, <1>2, <1>3, <1>4 DEF Next

LEMMA TypedAlways == Spec => []Typed
<1>1. Init => Typed
  BY DriveInit
<1>2. Typed /\ [Next]_vars => Typed'
  BY DriveSteps DEF Kept
<1> QED BY <1>1, <1>2, PTL DEF Spec

LEMMA SingleAlways == ASSUME OneWriter PROVE Spec => [](Typed /\ Single)
<1>1. Init => Typed /\ Single
  BY DriveInit
<1>2. (Typed /\ Single) /\ [Next]_vars => (Typed /\ Single)'
  BY DriveSteps DEF Kept
<1> QED BY <1>1, <1>2, PTL DEF Spec

(******************************* what is said ******************************)

\* A step that says neither "Saved" nor "Deleted".
Silent == \A d \in Clients : ~Ends(d, "fetched") /\ ~Ends(d, "deleted")

LEMMA SilentStep ==
    ASSUME Typed, NEW c \in Clients, NEW q, Becomes(c, q),
           q.result \in {proc[c].result} \/ q.result \notin {"fetched", "deleted"}
    PROVE  Silent
<1>1. proc'[c] = q /\ \A d \in Clients : d # c => proc'[d] = proc[d]
  BY DEF Becomes, Typed
<1> QED BY <1>1 DEF Silent, Ends

LEMMA RaisedSays == ASSUME NEW p \in Process PROVE Raised(p).result \in {"gone", "raised"}
  BY DEF Raised, End, Process

\* Only a publication says so, when its answer arrives.
LEMMA Speaks ==
    ASSUME Typed, [Next]_vars, NEW d \in Clients, Ends(d, "fetched") \/ Ends(d, "deleted")
    PROVE  /\ Publish(d)
           /\ Ends(d, "fetched") => proc[d].op = "save"
           /\ Ends(d, "deleted") => proc[d].op = "delete"
<1>1. ~Silent
  BY DEF Silent
<1>2. ASSUME NEW c \in Clients PROVE proc[c] \in Process /\ Raised(proc[c]).result \in {"gone", "raised"}
  BY RaisedSays, OneShaped DEF Shaped
<1>3. ASSUME NEW c \in Clients, NEW p \in Process, NEW r
      PROVE End(p, r).result = r /\ Restarted(p, r).result = r
  BY DEF End, Restarted, Process
<1>4. ASSUME NEW c \in Clients, Begin(c) PROVE FALSE
  <2>1. PICK t \in Tools, k \in Keys :
          Becomes(c, [proc[c] EXCEPT !.at = "lookup", !.op = "check", !.tool = t, !.key = k, !.result = ""])
    BY <1>4 DEF Begin
  <2>2. [proc[c] EXCEPT !.at = "lookup", !.op = "check", !.tool = t, !.key = k, !.result = ""].result = ""
    BY <1>2 DEF Process
  <2> QED BY <1>1, <2>1, <2>2, SilentStep
<1>5. ASSUME NEW c \in Clients, Fail(c) \/ DriveError(c) PROVE FALSE
  <2>1. Becomes(c, Raised(proc[c]))
    BY <1>5 DEF Fail, DriveError
  <2> QED BY <1>1, <1>2, <2>1, SilentStep
<1>6. ASSUME NEW c \in Clients, Crash(c) PROVE FALSE
  <2>1. Becomes(c, Restarted(proc[c], "crashed"))
    BY <1>6 DEF Crash
  <2> QED BY <1>1, <1>2, <1>3, <2>1, SilentStep
<1>7. ASSUME NEW c \in Clients, Get(c) PROVE FALSE
  <2>1. Becomes(c, End(proc[c], "loaded"))
    BY <1>7 DEF Get
  <2> QED BY <1>1, <1>2, <1>3, <2>1, SilentStep
<1>8. ASSUME NEW c \in Clients, NEW op PROVE Start(proc[c], op).result = proc[c].result
  BY <1>2 DEF Start, Process
<1>9. ASSUME NEW c \in Clients, Answer(c) PROVE FALSE
  <2>1. PICK q : Becomes(c, q) /\ q \in {End(proc[c], "hit"), End(proc[c], "miss"), Start(proc[c], "delete"),
                                         Start(proc[c], "load"), [proc[c] EXCEPT !.at = "ibkr"]}
    BY <1>9 DEF Answer, OnHit, OnMiss
  <2>2. [proc[c] EXCEPT !.at = "ibkr"].result = proc[c].result
    BY <1>2 DEF Process
  <2>3. q.result \in {"hit", "miss", proc[c].result}
    <3>1. CASE q = End(proc[c], "hit") \/ q = End(proc[c], "miss")
      BY <1>2, <1>3, <3>1
    <3>2. CASE q = Start(proc[c], "delete") \/ q = Start(proc[c], "load")
      BY <1>8, <3>2
    <3>3. CASE q = [proc[c] EXCEPT !.at = "ibkr"]
      BY <2>2, <3>3
    <3> QED BY <2>1, <3>1, <3>2, <3>3
  <2> QED BY <1>1, <2>1, <2>3, SilentStep
<1>10. ASSUME NEW c \in Clients, Fetch(c) PROVE FALSE
  <2>1. PICK q : Becomes(c, q) /\ q \in {[Start(proc[c], "save") EXCEPT !.version = saves + 1],
                                         End(proc[c], "not saved")}
    BY <1>10 DEF Fetch
  <2>2. [Start(proc[c], "save") EXCEPT !.version = saves + 1].result = proc[c].result
    BY <1>2 DEF Start, Process
  <2>3. CASE q = [Start(proc[c], "save") EXCEPT !.version = saves + 1]
    <3>1. q.result = proc[c].result
      BY <2>2, <2>3
    <3> QED BY <1>1, <2>1, <3>1, SilentStep
  <2>4. CASE q = End(proc[c], "not saved")
    <3>1. q.result = "not saved"
      BY <1>2, <1>3, <2>4
    <3> QED BY <1>1, <2>1, <3>1, SilentStep
  <2> QED BY <2>1, <2>3, <2>4
<1>11. ASSUME NEW c \in Clients, Resolve(c) \/ MakeFolder(c) PROVE FALSE
  <2>1. PICK f, q : Becomes(c, q) /\ q \in {[proc[c] EXCEPT !.at = "make"], AfterFolder(proc[c], f), Raised(proc[c])}
    BY <1>11 DEF Resolve, MakeFolder, AnswerOrLost
  <2>2. [proc[c] EXCEPT !.at = "make"].result = proc[c].result /\ AfterFolder(proc[c], f).result = proc[c].result
    BY <1>2 DEF AfterFolder, Process
  <2> QED BY <1>1, <1>2, <2>1, <2>2, SilentStep
<1>12. ASSUME NEW c \in Clients, UseCopy(c) \/ Reload(c) \/ Enter(c) PROVE FALSE
  <2>1. PICK q : Becomes(c, q) /\ q \in {WithManifest(proc[c]),
             [proc[c] EXCEPT !.at = IF proc[c].folder = None THEN "resolve" ELSE "find manifest", !.loaded = FALSE],
             [proc[c] EXCEPT !.at = "find old", !.memory = Edited(proc[c])]}
    BY <1>12 DEF UseCopy, Reload, Enter
  <2>2. q.result = proc[c].result
    BY <1>2, <2>1 DEF WithManifest, Process
  <2> QED BY <1>1, <2>1, <2>2, SilentStep
<1>13. ASSUME NEW c \in Clients, FindManifest(c) \/ GetManifest(c) \/ FindOld(c) PROVE FALSE
  <2>1. PICK q, found, entries : Becomes(c, q) /\ q \in {
             [WithManifest(proc[c]) EXCEPT !.memory = {}, !.loaded = TRUE],
             [proc[c] EXCEPT !.at = "get manifest", !.found = found],
             [WithManifest(proc[c]) EXCEPT !.memory = entries, !.loaded = TRUE, !.found = {}],
             [proc[c] EXCEPT !.at = "publish", !.found = found]}
    <3>1. CASE FindManifest(c)
      <4>1. PICK found \in First(Named(proc[c].folder, Manifest)) :
              Becomes(c, IF found = {} THEN [WithManifest(proc[c]) EXCEPT !.memory = {}, !.loaded = TRUE]
                         ELSE [proc[c] EXCEPT !.at = "get manifest", !.found = found])
        BY <3>1 DEF FindManifest
      <4> QED BY <4>1
    <3>2. CASE GetManifest(c)
      BY <3>2 DEF GetManifest
    <3>3. CASE FindOld(c)
      BY <3>3 DEF FindOld
    <3> QED BY <1>13, <3>1, <3>2, <3>3
  <2>2. q.result = proc[c].result
    BY <1>2, <2>1 DEF WithManifest, Process
  <2> QED BY <1>1, <2>1, <2>2, SilentStep
<1>14. ASSUME NEW c \in Clients, Find(c) PROVE FALSE
  <2>1. PICK found : Becomes(c, AfterFind(proc[c], found))
    BY <1>14 DEF Find
  <2>2. AfterFind(proc[c], found).result \in {proc[c].result, "gone"}
    BY <1>2 DEF AfterFind, End, Process
  <2> QED BY <1>1, <2>1, <2>2, SilentStep
<1>15. ASSUME NEW c \in Clients, Upload(c) \/ Remove(c) PROVE FALSE
  <2>1. PICK q, x : Becomes(c, q) /\ q \in {
             [proc[c] EXCEPT !.at = "lookup", !.found = {}], Raised(proc[c]),
             [proc[c] EXCEPT !.found = @ \ {x.id}, !.at = IF proc[c].found = {x.id} THEN "lookup" ELSE "remove"]}
    BY <1>15 DEF Upload, Remove, AnswerOrLost
  <2>2. /\ [proc[c] EXCEPT !.at = "lookup", !.found = {}].result = proc[c].result
        /\ [proc[c] EXCEPT !.found = @ \ {x.id}, !.at = IF proc[c].found = {x.id} THEN "lookup" ELSE "remove"].result
              = proc[c].result
    BY <1>2 DEF Process
  <2> QED BY <1>1, <1>2, <2>1, <2>2, SilentStep
<1>16. CASE LoseFolder \/ UNCHANGED vars
  <2>1. proc' = proc
    BY <1>16 DEF LoseFolder, vars
  <2> QED BY <1>1, <2>1 DEF Silent, Ends
<1>17. PICK c \in Clients : Publish(c)
  BY <1>4, <1>5, <1>6, <1>7, <1>9, <1>10, <1>11, <1>12, <1>13, <1>14, <1>15, <1>16 DEF Next, Step
<1>18. Shaped(c, proc[c], ids) /\ proc[c].op \in {"save", "delete"}
  BY <1>17, OneShaped DEF Shaped, Phase, Publish
<1>19. Becomes(c, End(proc[c], IF proc[c].op = "save" THEN "fetched" ELSE "deleted"))
  <2>1. CASE Becomes(c, Raised(proc[c]))
    BY <1>1, <1>2, <2>1, SilentStep
  <2> QED BY <1>17, <2>1 DEF Publish, AnswerOrLost
<1>20. proc'[c].result = (IF proc[c].op = "save" THEN "fetched" ELSE "deleted") /\ \A b \in Clients : b # c => proc'[b] = proc[b]
  BY <1>2, <1>3, <1>19 DEF Becomes, Typed
<1>21. d = c
  BY <1>20 DEF Ends
<1> QED BY <1>17, <1>18, <1>20, <1>21 DEF Ends

\* A publication goes to a folder that is there, and touches no file but the manifest.
LEMMA Published ==
    ASSUME Typed, Single, NEW c \in Clients, Publish(c)
    PROVE  /\ Knows(proc[c], files, folders, fails, losses) /\ proc[c].key \in Keys /\ proc[c].at = "publish"
           /\ proc[c].loaded /\ proc[c].folder \in folders
           /\ \E y \in files' :
                /\ y.folder = proc[c].folder /\ y.name = Manifest /\ y.entries = proc[c].memory
                /\ \A x \in files' : x = y \/ (x \in files /\ ~(x.folder = proc[c].folder /\ x.name = Manifest))
                /\ \A x \in files : x \in files' \/ x.name = Manifest
<1> DEFINE p == proc[c]
<1>1. Shaped(c, p, ids) /\ p.at = "publish" /\ Put(p, Manifest, 0, p.memory)
  BY OneShaped DEF Publish
<1>2. c \in Writers /\ p.key \in Keys
  BY <1>1 DEF Shaped, Phase, Holds
<1>3. p.loaded
  BY <1>1 DEF Shaped, Holds
<1>4. Knows(p, files, folders, fails, losses) /\ OneFilePerName
  BY <1>2 DEF Single
<1> HIDE DEF p
<1>5. /\ \A x \in files : x.id \in p.found => x.folder = p.folder /\ x.name = Manifest
      /\ p.found = {} => \A x \in files : ~(x.folder = p.folder /\ x.name = Manifest)
  BY <1>1, <1>4 DEF Knows, FoundIs, LookedFor
<1>6. p.folder \in folders
  <2>1. CASE \E x \in files : x.id \in p.found
    BY <1>5, <2>1 DEF Typed
  <2>2. CASE p.folder \in folders
    BY <2>2
  <2> QED BY <1>1, <2>1, <2>2 DEF Put
<1>7. \E y \in files' :
        /\ y.folder = p.folder /\ y.name = Manifest /\ y.version = 0 /\ y.entries = p.memory
        /\ \A x \in files' : x = y \/ (x \in files /\ ~(x.folder = p.folder /\ x.name = Manifest))
        /\ \A x \in files : x \in files' \/ (x.folder = p.folder /\ x.name = Manifest)
  BY <1>1, <1>4, <1>5, PutSingle
<1> QED BY <1>1, <1>2, <1>3, <1>4, <1>6, <1>7 DEF p

LEMMA SaidSaved ==
    ASSUME Typed, Single, [Next]_vars, NEW c \in Clients, Ends(c, "fetched")
    PROVE  /\ \E x \in Bars(files', proc[c]) : x.version = proc[c].version
           /\ Listing(files', proc[c]) # {}
<1> DEFINE p == proc[c]
<1>1. Publish(c) /\ p.op = "save"
  BY Speaks
<1>2. /\ Knows(p, files, folders, fails, losses) /\ p.key \in Keys /\ p.at = "publish" /\ p.folder \in folders
  BY <1>1, Published
<1>3. PICK y \in files' :
        /\ y.folder = p.folder /\ y.name = Manifest /\ y.entries = p.memory
        /\ \A x \in files : x \in files' \/ x.name = Manifest
  BY <1>1, Published
<1> HIDE DEF p
<1>4. PICK x \in files : x.folder = p.folder /\ x.name = p.key /\ x.version = p.version
  BY <1>1, <1>2 DEF Knows, SaveDone, Late
<1>5. x \in Bars(files', p)
  BY <1>2, <1>3, <1>4, DriveConstants DEF Bars
<1>6. y \in Listing(files', p)
  BY <1>1, <1>2, <1>3 DEF Knows, Entered, Listing
<1>7. (\E z \in Bars(files', p) : z.version = p.version) /\ Listing(files', p) # {}
  BY <1>4, <1>5, <1>6
<1> QED BY <1>7 DEF p

LEMMA SaidDeleted ==
    ASSUME Typed, Single, [Next]_vars, NEW c \in Clients, Ends(c, "deleted")
    PROVE  Bars(files', proc[c]) = {} /\ Listing(files', proc[c]) = {}
<1> DEFINE p == proc[c]
<1>1. Publish(c) /\ p.op = "delete"
  BY Speaks
<1>2. /\ Knows(p, files, folders, fails, losses) /\ p.key \in Keys /\ p.at = "publish"
  BY <1>1, Published
<1>3. PICK y \in files' :
        /\ y.folder = p.folder /\ y.name = Manifest /\ y.entries = p.memory
        /\ \A x \in files' : x = y \/ (x \in files /\ ~(x.folder = p.folder /\ x.name = Manifest))
  BY <1>1, Published
<1> HIDE DEF p
<1>4. /\ \A x \in files : ~(x.folder = p.folder /\ x.name = p.key)
      /\ p.key \notin p.memory
  BY <1>1, <1>2 DEF Knows, DeleteDone, Entered, Late
<1>5. Bars(files', p) = {}
  BY <1>2, <1>3, <1>4, DriveConstants DEF Bars
<1>6. Listing(files', p) = {}
  BY <1>3, <1>4 DEF Listing
<1>7. Bars(files', p) = {} /\ Listing(files', p) = {}
  BY <1>5, <1>6
<1> QED BY <1>7 DEF p

(************************* entries and their files *************************)

LEMMA OneFolder ==
    ASSUME Typed, Cardinality(folders) <= 1 PROVE \A f, g \in folders : f = g
<1> SUFFICES ASSUME NEW f \in folders, NEW g \in folders, f # g PROVE FALSE
  OBVIOUS
<1>1. IsFiniteSet(1..ids) /\ folders \subseteq 1..ids
  <2>1. 1 \in Int /\ ids \in Int /\ folders \subseteq 1..ids
    BY DEF Typed
  <2> QED BY <2>1, FS_Interval
<1>2. IsFiniteSet(folders)
  BY <1>1, FS_Subset
<1>3. IsFiniteSet({f}) /\ Cardinality({f}) = 1
  BY FS_Singleton
<1>4. Cardinality({f} \cup {g}) = 2
  <2>1. g \notin {f}
    OBVIOUS
  <2>2. Cardinality({f} \cup {g}) = Cardinality({f}) + 1
    BY <1>3, <2>1, FS_AddElement
  <2> QED BY <1>3, <2>2
<1>5. {f} \cup {g} \subseteq folders
  OBVIOUS
<1>6. Cardinality({f} \cup {g}) <= Cardinality(folders)
  BY <1>2, <1>5, FS_Subset
<1>7. Cardinality(folders) \in Nat
  BY <1>2, FS_CardinalityType
<1> QED BY <1>4, <1>6, <1>7

\* A step adds the orphan o, and not by removing the file of its key.
NewOrphan(o) ==
    /\ o \in Orphans' \ Orphans /\ Bars(files, o) = {}

\* Such a step lists o's key in a manifest that did not list it.
LEMMA NewListing ==
    ASSUME Typed, NEW o, NewOrphan(o)
    PROVE  \E x \in files' \ files : x.folder = o.folder /\ x.name = Manifest /\ o.key \in x.entries
<1>1. /\ o \in [folder : folders', key : Keys] /\ Listing(files', o) # {}
      /\ ~(o \in [folder : folders, key : Keys] /\ Listing(files, o) # {})
  BY DEF NewOrphan, Orphans
<1>2. PICK x \in files' : x.folder = o.folder /\ x.name = Manifest /\ o.key \in x.entries
  BY <1>1 DEF Listing
<1>3. CASE x \in files
  <2>1. o.folder \in folders /\ Listing(files, o) # {}
    BY <1>2, <1>3 DEF Typed, Listing
  <2> QED BY <1>1, <2>1
<1> QED BY <1>2, <1>3

\* No upload does, ...
LEMMA UploadListsNothing ==
    ASSUME Typed, NEW c \in Clients, Upload(c), NEW x \in files' \ files, x.name = Manifest, NEW k \in x.entries
    PROVE  FALSE
<1> DEFINE p == proc[c]
<1>1. Shaped(c, p, ids) /\ p.at = "upload" /\ Put(p, p.key, p.version, {})
  BY OneShaped DEF Upload
<1> HIDE DEF p
<1>2. CASE /\ p.found = {}
           /\ files' = files \cup {[id |-> ids + 1, folder |-> p.folder, name |-> p.key,
                                   version |-> p.version, entries |-> {}]}
  BY <1>2
<1>3. CASE \E y \in files : files' = (files \ {y}) \cup {[y EXCEPT !.version = p.version, !.entries = {}]}
  <2>1. PICK y \in files : files' = (files \ {y}) \cup {[y EXCEPT !.version = p.version, !.entries = {}]}
    BY <1>3
  <2>2. [y EXCEPT !.version = p.version, !.entries = {}].entries = {}
    BY DEF Typed, File
  <2> QED BY <2>1, <2>2
<1> QED BY <1>1, <1>2, <1>3 DEF Put

\* ... and a publication lists what was listed in the one folder before, or has a file.
LEMMA PublishFollows ==
    ASSUME Typed, Single, NEW c \in Clients, Publish(c), losses = 0, fails' <= 1,
           \A f, g \in folders : f = g, NEW o, NewOrphan(o)
    PROVE  FALSE
<1> DEFINE p == proc[c]
<1>1. /\ Knows(p, files, folders, fails, losses) /\ p.at = "publish" /\ p.loaded /\ p.folder \in folders
  BY Published
<1>2. PICK y \in files' :
        /\ y.folder = p.folder /\ y.entries = p.memory
        /\ \A x \in files' : x = y \/ x \in files
  BY Published
<1>3. fails <= 1
  BY OneShaped DEF Publish, AnswerOrLost
<1> HIDE DEF p
<1>4. o.folder = p.folder /\ o.key \in p.memory
  BY <1>2, NewListing
<1>5. o.key \in InManifest(files) \cup Cached(files)
  BY <1>1, <1>3, <1>4 DEF Knows, Trust
<1>6. \A x \in files : x.folder = o.folder
  BY <1>1, <1>4 DEF Typed
<1>7. Bars(files, o) = {} /\ o.key \notin Cached(files)
  BY <1>6 DEF NewOrphan, Bars, Cached
<1>8. Listing(files, o) # {}
  BY <1>5, <1>6, <1>7 DEF InManifest, Listing
<1>9. o \in [folder : folders, key : Keys] /\ o \notin Orphans
  BY <1>1, <1>4 DEF NewOrphan, Orphans
<1> QED BY <1>7, <1>8, <1>9 DEF Orphans

LEMMA Follows ==
    ASSUME Typed, Single, [Next]_vars, losses = 0, Cardinality(folders) <= 1, fails' <= 1, NEW o, NewOrphan(o)
    PROVE  FALSE
<1>1. PICK x \in files' \ files : x.name = Manifest /\ o.key \in x.entries
  BY NewListing
<1>2. ASSUME NEW c \in Clients, Publish(c) PROVE FALSE
  BY <1>2, OneFolder, PublishFollows
<1>3. ASSUME NEW c \in Clients, Upload(c) PROVE FALSE
  BY <1>1, <1>3, UploadListsNothing
<1>4. ASSUME NEW c \in Clients, Begin(c) \/ Fail(c) \/ Crash(c) \/ MakeFolder(c) \/ Remove(c) PROVE FALSE
  BY <1>1, <1>4 DEF Begin, Fail, Crash, MakeFolder, Remove, drive
<1>5. ASSUME NEW c \in Clients,
             \/ Answer(c) \/ Fetch(c) \/ Resolve(c) \/ UseCopy(c) \/ Reload(c) \/ FindManifest(c)
             \/ GetManifest(c) \/ Enter(c) \/ FindOld(c) \/ Find(c) \/ Get(c) \/ DriveError(c)
      PROVE  FALSE
  BY <1>1, <1>5 DEF Answer, Fetch, Resolve, UseCopy, Reload, FindManifest, GetManifest, Enter, FindOld, Find,
                    Get, DriveError, drive
<1>6. CASE LoseFolder \/ UNCHANGED vars
  BY <1>1, <1>6 DEF LoseFolder, vars, drive
<1> QED BY <1>2, <1>3, <1>4, <1>5, <1>6 DEF Next, Step

(******************************** theorems *********************************)

\* For any number of processes that write: what the processes remember and the files on
\* Drive keep their types, and a request that names a file of a listing has one to name
\* (cache.py, files[0]).
THEOREM DriveIsTyped == Spec => []TypeOK
<1>1. Typed => TypeOK
  BY DEF Typed, TypeOK, Shaped, Holds
<1> QED BY <1>1, TypedAlways, PTL

\* With one process that writes, no folder ever holds two files of one name: save and
\* _save_manifest look before they create.
THEOREM OneFileAlways == OneWriter => (Spec => []OneFilePerName)
<1> SUFFICES ASSUME OneWriter PROVE Spec => []OneFilePerName
  OBVIOUS
<1>1. Typed /\ Single => OneFilePerName
  BY DEF Single
<1> QED BY <1>1, SingleAlways, PTL

\* With one process that writes, "Saved to Drive cache" and "Deleted" are said only when
\* Drive holds the bars and a manifest that lists them, or neither of the two.
THEOREM AnnouncedAlwaysTrue == OneWriter => (Spec => AnnouncedIsTrue)
<1> SUFFICES ASSUME OneWriter PROVE Spec => AnnouncedIsTrue
  OBVIOUS
<1>1. Typed /\ Single /\ [Next]_vars =>
        [\A c \in Clients : Ends(c, "fetched") =>
            /\ \E x \in Bars(files', proc[c]) : x.version = proc[c].version
            /\ Listing(files', proc[c]) # {}]_vars
  BY SaidSaved
<1>2. Typed /\ Single /\ [Next]_vars =>
        [\A c \in Clients : Ends(c, "deleted") =>
            Bars(files', proc[c]) = {} /\ Listing(files', proc[c]) = {}]_vars
  BY SaidDeleted
<1> QED BY <1>1, <1>2, SingleAlways, PTL DEF Spec, AnnouncedIsTrue, SaveMeansCached, DeleteMeansGone

\* With one process that writes, one folder that nobody deletes, and at most one failure, a
\* manifest never comes to list a key without a file, except by the removal of the file.
THEOREM EntriesAlwaysFollow == OneWriter => (Spec => EntriesFollowFiles)
<1> SUFFICES ASSUME OneWriter PROVE Spec => EntriesFollowFiles
  OBVIOUS
<1>1. Typed /\ Single /\ [Next]_vars =>
        [losses = 0 /\ Cardinality(folders) <= 1 /\ fails' <= 1 =>
            \A o \in Orphans' \ Orphans : Bars(files, o) # {}]_vars
  BY Follows DEF NewOrphan
<1> QED BY <1>1, SingleAlways, PTL DEF Spec, EntriesFollowFiles
===============================================================================
