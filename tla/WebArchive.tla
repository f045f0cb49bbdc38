------------------------------ MODULE WebArchive ------------------------------
(***************************************************************************)
(* Reading the web: the tools crawl_site, fetch_page and search_site       *)
(* (claude_tools.py), the browser that reads a page, alone with the login  *)
(* profile it uses (local_browser.py), and the archive of crawled sites on *)
(* Drive with its manifest (WebDocsStore, web_scraper.py).                 *)
(*                                                                         *)
(* The callers are threads of one process.  A request to Drive and a       *)
(* session of the browser are a step each; asking for a file by its name   *)
(* and uploading it are one (the race of two writers is in DriveCache).    *)
(***************************************************************************)
EXTENDS Integers, SequencesExt

CONSTANTS
    Callers,
    Archivers,   \* those of them that may crawl
    Roots,       \* URLs asked for
    Private,     \* those that _validate_public_url refuses
    Pages,       \* URLs of pages on a site
    Slug,        \* URL -> name it has on Drive (_slugify)
    Profile,     \* root -> saved login profile of its host, or None
    Crawls,      \* what a browser may bring: sequences of [url, size]
    MaxAge,      \* age at which a manifest is too old (48 h)
    MaxTime,     \* bound: how long anything is followed
    MaxCalls,    \* bound: calls
    None

VARIABLES
    job,      \* caller -> the call under way
    holder,   \* profile -> the caller whose browser has it (_PROFILE_LOCKS)
    files,    \* folder -> name -> [url, v]: pages as crawled by call v
    index,    \* folder -> manifest: [url, at, pages], or None
    said,     \* caller -> what its last call answered
    now, calls

drive == <<files, index>>
vars == <<job, holder, drive, said, now, calls>>

Folders == {Slug[r] : r \in Roots}
Profiles == Range(Profile) \ {None}
Empty == 0      \* sizes: no markdown; too little to be a page; a page
Stub == 1

NoJob == [at |-> "idle", tool |-> None, url |-> None, got |-> << >>, next |-> 1,
          claimed |-> << >>, entries |-> << >>, v |-> 0]

Init ==
    /\ job = [c \in Callers |-> NoJob] /\ holder = [p \in Profiles |-> None]
    /\ files = [f \in Folders |-> << >>] /\ index = [f \in Folders |-> None]
    /\ said = [c \in Callers |-> None]
    /\ now = 0 /\ calls = 0

Folder(c) == Slug[job[c].url]
Needs(c) == Profile[job[c].url]

TypeOK ==
    /\ \A c \in Callers : job[c].at \in {"idle", "cache", "lock", "browse", "save", "index"}
    /\ \A c \in Callers : job[c].at \in {"save", "index"} => job[c].got # << >>
    /\ \A p \in Profiles : holder[p] # None => job[holder[p]].at = "browse"
    /\ \A f \in Folders : \A n \in DOMAIN files[f] : files[f][n].url \in Pages
    /\ \A f \in Folders : index[f] # None => index[f].at <= now
    /\ now \in 0..MaxTime /\ calls \in 0..MaxCalls

(********************************** calls **********************************)

Goes(c, at) == job' = [job EXCEPT ![c].at = at]
Answers(c, what) == said' = [said EXCEPT ![c] = what] /\ job' = [job EXCEPT ![c] = NoJob]

\* _validate_public_url comes before any request.
Begin(c, tool, at) ==
    /\ job[c].at = "idle" /\ calls < MaxCalls /\ calls' = calls + 1
    /\ \E r \in Roots :
         IF r \in Private THEN Answers(c, "blocked")
         ELSE /\ job' = [job EXCEPT ![c] = [NoJob EXCEPT !.at = at, !.tool = tool, !.url = r, !.v = calls + 1]]
              /\ UNCHANGED said
    /\ UNCHANGED <<holder, drive, now>>

BeginCrawl(c) == c \in Archivers /\ Begin(c, "crawl", "cache")
BeginRefresh(c) == c \in Archivers /\ Begin(c, "crawl", "lock")     \* force_refresh
BeginFetch(c) == Begin(c, "fetch", "lock")

\* search_site has no browser and no profile: "none matched" is an answer only
\* if pages were found and scored.
SearchSite(c) ==
    /\ job[c].at = "idle" /\ calls < MaxCalls /\ calls' = calls + 1
    /\ \E found, scored, matched \in BOOLEAN :
         Answers(c, IF ~found \/ ~scored THEN "not searched" ELSE IF matched THEN "matches" ELSE "no match")
    /\ UNCHANGED <<holder, drive, now>>

\* get_cached_crawl: by the folder of the URL; not a look at the files.
ReadManifest(c) ==
    /\ job[c].at = "cache"
    /\ LET m == index[Folder(c)]
       IN  IF m # None /\ now - m.at <= MaxAge THEN Answers(c, "cached")
           ELSE Goes(c, "lock") /\ UNCHANGED said
    /\ UNCHANGED <<holder, drive, now, calls>>

(******************************* the browser *******************************)

\* Mutant: a lock for each URL, and not for the profile that it leads to.
FreeForUrl(c) == \A d \in Callers \ {c} : job[d].at # "browse" \/ job[d].url # job[c].url

\* _profile_in_use: one browser on a profile; an anonymous one needs none.
Free(c) == Needs(c) = None \/ holder[Needs(c)] = None

OpenBrowser(c) ==
    /\ job[c].at = "lock" /\ Free(c)
    /\ Goes(c, "browse")
    /\ holder' = IF Needs(c) = None THEN holder ELSE [holder EXCEPT ![Needs(c)] = c]
    /\ UNCHANGED <<drive, said, now, calls>>

WaitedTooLong(c) ==
    /\ job[c].at = "lock" /\ ~Free(c) /\ Answers(c, "failed")
    /\ UNCHANGED <<holder, drive, now, calls>>

\* crawl_site: empty results are dropped, one is kept of those with one URL, the
\* largest, at the place of the first.
Larger(raw, u) == CHOOSE r \in Range(raw) : r.url = u /\ \A s \in Range(raw) : s.url = u => s.size <= r.size
Gather(raw, got, r) ==
    IF r.size = Empty \/ \E g \in Range(got) : g.url = r.url THEN got
    ELSE Append(got, Larger(raw, r.url))
Gathered(raw) ==
    LET got[i \in 0..Len(raw)] == IF i = 0 THEN << >> ELSE Gather(raw, got[i - 1], raw[i])
    IN  got
PagesOf(raw) == Gathered(raw)[Len(raw)]

Closes(c) == holder' = [p \in Profiles |-> IF holder[p] = c THEN None ELSE holder[p]]

\* The browser is done.  A crawl with nothing but stubs is not archived.
Browsed(c) ==
    /\ job[c].at = "browse" /\ Closes(c)
    /\ \E raw \in Crawls :
         LET got == PagesOf(raw)
         IN  IF job[c].tool = "fetch" THEN Answers(c, "page")
             ELSE IF \A p \in Range(got) : p.size = Stub THEN Answers(c, "nothing saved")
             ELSE job' = [job EXCEPT ![c].at = "save", ![c].got = got] /\ UNCHANGED said
    /\ UNCHANGED <<drive, now, calls>>

BrowserFails(c) ==
    /\ job[c].at = "browse" /\ Closes(c) /\ Answers(c, "failed")
    /\ UNCHANGED <<drive, now, calls>>

(******************************* save_crawl ********************************)

\* Mutant: the slug alone.
NameOfSlug(c, url) == <<Slug[url], 1>>

\* The slug of a page, with a number if another page of this call has it.
NameOf(c, url) ==
    LET taken == job[c].claimed
        free(n) == <<Slug[url], n>> \notin DOMAIN taken \/ taken[<<Slug[url], n>>] = url
    IN  <<Slug[url], CHOOSE n \in 1..Len(job[c].got) : free(n) /\ \A m \in 1..(n - 1) : ~free(m)>>

Put(f, n, what) == [m \in DOMAIN f \cup {n} |-> IF m = n THEN what ELSE f[m]]

SavePage(c) ==
    /\ job[c].at = "save"
    /\ LET j == job[c]
           p == j.got[j.next]
           n == NameOf(c, p.url)
       IN  /\ files' = [files EXCEPT ![Folder(c)] = Put(@, n, [url |-> p.url, v |-> j.v])]
           /\ job' = [job EXCEPT ![c] =
                        [j EXCEPT !.claimed = Put(@, n, p.url),
                                  !.entries = Append(@, [url |-> p.url, name |-> n]),
                                  !.next = @ + 1,
                                  !.at = IF j.next = Len(j.got) THEN "index" ELSE "save"]]
    /\ UNCHANGED <<holder, index, said, now, calls>>

\* The manifest is last: without it the archive does not know the crawl.
SaveIndex(c) ==
    /\ job[c].at = "index"
    /\ index' = [index EXCEPT ![Folder(c)] = [url |-> job[c].url, at |-> now, pages |-> job[c].entries]]
    /\ Answers(c, "saved")
    /\ UNCHANGED <<holder, files, now, calls>>

DriveFails(c) ==
    /\ job[c].at \in {"cache", "save", "index"} /\ Answers(c, "failed")
    /\ UNCHANGED <<holder, drive, now, calls>>

Tick == now < MaxTime /\ now' = now + 1 /\ UNCHANGED <<job, holder, drive, said, calls>>

Step(c) ==
    \/ ReadManifest(c) \/ OpenBrowser(c) \/ WaitedTooLong(c) \/ Browsed(c) \/ BrowserFails(c)
    \/ SavePage(c) \/ SaveIndex(c) \/ DriveFails(c)

Next ==
    \/ Tick
    \/ \E c \in Callers : BeginCrawl(c) \/ BeginRefresh(c) \/ BeginFetch(c) \/ SearchSite(c) \/ Step(c)

Busy == \E c \in Callers : job[c].at # "idle"

\* A browser session and a request to Drive end; a wait for a profile times out.
Fairness == \A c \in Callers : WF_vars(Step(c))
Spec == Init /\ [][Next]_vars /\ Fairness

(******************************** properties *******************************)

(* OneBrowserPerProfile: no two browsers have one login profile open, by    *)
(* whatever URLs of however many hosts they came to it (_profile_in_use).   *)
OneBrowserPerProfile ==
    \A c, d \in Callers :
        c # d /\ job[c].at = "browse" /\ job[d].at = "browse" => Needs(c) = None \/ Needs(c) # Needs(d)

(* SavedIsArchived: a crawl that is reported as saved has every page that   *)
(* it brought in the archive, each once, under a manifest entry that names  *)
(* the file with that page as it was just crawled, whatever earlier and     *)
(* failed crawls of the site left behind (save_crawl).                      *)
SavedIsArchived ==
    [][\A c \in Callers : job[c].at = "index" /\ said'[c] = "saved" /\ job'[c].at = "idle" =>
         LET m == index'[Folder(c)].pages
         IN  /\ \A i, k \in DOMAIN m : m[i].url = m[k].url => i = k
             /\ {e.url : e \in Range(m)} = {p.url : p \in Range(job[c].got)}
             /\ \A p \in Range(job[c].got) : \E e \in Range(m) :
                  e.url = p.url /\ files'[Folder(c)][e.name] = [url |-> p.url, v |-> job[c].v]]_vars
=============================================================================
