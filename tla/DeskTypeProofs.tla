---------------------------- MODULE DeskTypeProofs ----------------------------
(***************************************************************************)
(* ToolDesk's type invariant: what the state of each service can be, for   *)
(* any constants.  The record of a call in progress is typed field by      *)
(* field; where the range of a field rests on the order of the steps, the  *)
(* place that the call has come to is part of the invariant (a page of     *)
(* bars is read only below the bound, a crawl that saves has a page to     *)
(* save, who holds a profile browses with it).                             *)
(***************************************************************************)
EXTENDS DeskDataProofs, TLAPS

(* The dialog.                                                              *)
DialogTyped ==
    /\ dialogCall \in [at : {"idle", "appkit", "osascript", "tk"}, action : D!Actions,
                       rows : {<< >>} \cup [{"Action", "side", "Side"} -> Sides \cup {None}]]
    /\ proc \in [at : {"none", "starting", "shown", "decided", "exited"},
                 out : {None, "CONFIRMED", "CANCELLED"}, ok : BOOLEAN]
    /\ verdict \in {None, "confirmed", "refused"} /\ shows \in 0..MaxDialogs
    /\ presses \in Seq({"confirm", "abandon"}) /\ Len(presses) <= 2
    /\ dialogCall.at \in {"appkit", "tk"} => Len(presses) <= 1
    /\ proc.at \in {"starting", "shown"} => Len(presses) <= IF dialogCall.at = "osascript" THEN 1 ELSE 0
    /\ dialogCall.at = "idle" <=> proc.at = "none"

LEMMA DialogTypesInit == D!Init => DialogTyped
  BY BoundsAssumption DEF D!Init, DialogTyped, D!Idle, D!NoProc, D!Actions

LEMMA ReturnsTyped ==
    ASSUME DialogTyped, NEW v \in {"confirmed", "refused"}, D!Returns(v),
           presses' \in {presses, << >>}, shows' \in 0..MaxDialogs
    PROVE  DialogTyped'
<1>1. presses' \in Seq({"confirm", "abandon"}) /\ Len(presses') <= 2
  <2>1. CASE presses' = presses
    BY <2>1 DEF DialogTyped
  <2>2. CASE presses' = << >>
    BY <2>2, EmptySeq
  <2> QED BY <2>1, <2>2
<1>2. dialogCall' = D!Idle /\ proc' = D!NoProc /\ verdict' = v
  BY DEF D!Returns
<1>3. D!Idle \in [at : {"idle"}, action : D!Actions, rows : {<< >>}] /\ D!Idle.at = "idle"
  BY DEF D!Idle, D!Actions
<1>4. D!NoProc \in [at : {"none"}, out : {None}, ok : BOOLEAN] /\ D!NoProc.at = "none"
  BY DEF D!NoProc
<1> QED BY <1>1, <1>2, <1>3, <1>4 DEF DialogTyped

LEMMA DialogTypesStep == DialogTyped /\ [D!Next]_(D!vars) => DialogTyped'
<1> SUFFICES ASSUME DialogTyped, [D!Next]_(D!vars) PROVE DialogTyped'
  OBVIOUS
<1>1. CASE D!Show
  <2>1. shows' \in 0..MaxDialogs /\ presses' = << >>
    BY <1>1, BoundsAssumption DEF D!Show, DialogTyped
  <2>2. CASE D!Returns("refused")
    BY <2>1, <2>2, ReturnsTyped
  <2>3. CASE \E p \in Platforms, a \in D!Actions, r \in [{"Action", "side", "Side"} -> Sides \cup {None}] :
               /\ dialogCall' = [at |-> IF p = "tk" THEN "tk" ELSE "appkit", action |-> a, rows |-> r]
               /\ D!Starting /\ verdict' = None
    <3>1. PICK p \in Platforms, a \in D!Actions, r \in [{"Action", "side", "Side"} -> Sides \cup {None}] :
               /\ dialogCall' = [at |-> IF p = "tk" THEN "tk" ELSE "appkit", action |-> a, rows |-> r]
               /\ D!Starting /\ verdict' = None
      BY <2>3
    <3>2. dialogCall' \in [at : {"tk", "appkit"}, action : D!Actions, rows : [{"Action", "side", "Side"} -> Sides \cup {None}]]
      BY <3>1
    <3>3. proc' \in [at : {"starting"}, out : {None}, ok : BOOLEAN]
      BY <3>1 DEF D!Starting, D!NoProc
    <3>4. presses' \in Seq({"confirm", "abandon"}) /\ Len(presses') = 0
      BY <2>1, EmptySeq
    <3> QED BY <2>1, <3>1, <3>2, <3>3, <3>4 DEF DialogTyped
  <2> QED BY <1>1, <2>2, <2>3 DEF D!Show
<1>2. CASE D!TimedOut
  BY <1>2, ReturnsTyped DEF D!TimedOut, DialogTyped
<1>3. CASE D!ReadAppKit
  <2>1. CASE proc.ok
    BY <1>3, <2>1, ReturnsTyped DEF D!ReadAppKit, DialogTyped
  <2>2. CASE ~proc.ok
    BY <1>3, <2>2 DEF D!ReadAppKit, DialogTyped, D!Goes, D!Starting, D!NoProc
  <2> QED BY <2>1, <2>2
<1>4. CASE D!ReadLast
  BY <1>4, ReturnsTyped DEF D!ReadLast, DialogTyped
<1>5. CASE D!Appears
  BY <1>5 DEF D!Appears, D!Process, DialogTyped
<1>6. CASE D!Presses
  <2>1. PICK b \in {"confirm", "abandon"} :
           presses' = Append(presses, b) /\ D!Decided(IF b = "confirm" THEN "CONFIRMED" ELSE "CANCELLED")
    BY <1>6 DEF D!Presses
  <2>2. presses' \in Seq({"confirm", "abandon"}) /\ Len(presses') = Len(presses) + 1 /\ Len(presses) \in Nat
    BY <2>1, AppendProperties DEF DialogTyped
  <2>3. proc' \in [at : {"decided"}, out : {"CONFIRMED", "CANCELLED"}, ok : BOOLEAN]
    BY <2>1 DEF D!Decided, DialogTyped
  <2> QED BY <1>6, <2>2, <2>3 DEF D!Presses, D!OnScreen, D!Process, DialogTyped
<1>7. CASE D!GivesUp
  BY <1>7 DEF D!GivesUp, D!Decided, D!OnScreen, D!Process, DialogTyped
<1>8. CASE D!Quit
  BY <1>8 DEF D!Quit, D!OnScreen, D!Process, DialogTyped
<1>9. CASE D!Exits
  BY <1>9 DEF D!Exits, D!Process, DialogTyped
<1>10. CASE D!Fails
  BY <1>10 DEF D!Fails, D!Process, DialogTyped
<1>11. CASE UNCHANGED D!vars
  BY <1>11 DEF D!vars, DialogTyped
<1> QED BY <1>1, <1>2, <1>3, <1>4, <1>5, <1>6, <1>7, <1>8, <1>9, <1>10, <1>11 DEF D!Next

LEMMA DialogTypes == DialogTyped => D!TypeOK
  BY DEF DialogTyped, D!TypeOK

(* The backtest.                                                            *)
BacktestTyped ==
    /\ caller \in [at : Stages, status : T!Answers \cup {None}]
    /\ child \in {"none", "runs", "sends", "sent", "dead"}
    /\ pipe \in T!Answers \cup {None, "part"}
    /\ dog \in {"none", "waits", "fired", "termed", "done"}
    /\ result.says \in {None, "refused", "timed_out", "exited", "failed", "no_signal", "metrics"}
    /\ saved \in Nat /\ runs \in 0..MaxRuns
    /\ saved <= runs /\ (caller.at # "idle" => saved < runs)

LEMMA BacktestTypesInit == T!Init => BacktestTyped
  BY BoundsAssumption DEF T!Init, BacktestTyped, T!Idle, T!NoResult, Stages

LEMMA BacktestTypesStep == BacktestTyped /\ [T!Next]_(T!vars) => BacktestTyped'
<1> SUFFICES ASSUME BacktestTyped, [T!Next]_(T!vars) PROVE BacktestTyped'
  OBVIOUS
<1>0. runs \in Nat /\ MaxRuns \in Nat
  BY BoundsAssumption DEF BacktestTyped
<1>1. CASE T!Refuse
  BY <1>0, <1>1 DEF T!Refuse, T!Says, T!Idle, T!NoResult, Stages, BacktestTyped
<1>2. CASE T!Start
  BY <1>0, <1>2 DEF T!Start, T!Goes, T!NoResult, Stages, BacktestTyped
<1>3. CASE T!Recv
  BY <1>3 DEF T!Recv, T!Goes, Stages, BacktestTyped
<1>4. CASE T!Close
  BY <1>4 DEF T!Close, T!Goes, Stages, BacktestTyped
<1>5. CASE T!Judge
  BY <1>0, <1>5 DEF T!Judge, T!Goes, T!Says, T!Idle, T!NoResult, Stages, BacktestTyped
<1>6. CASE T!JoinDead
  BY <1>0, <1>6 DEF T!JoinDead, T!Says, T!Idle, T!NoResult, Stages, BacktestTyped
<1>7. CASE T!Reap \/ T!ReapHard
  BY <1>7 DEF T!Reap, T!ReapHard, T!Goes, T!Killed, Stages, BacktestTyped
<1>8. CASE T!Measure
  <2>1. \/ \E what \in {"failed", "no_signal"} : T!Says(what)
        \/ T!Goes("save") /\ result'.says = "metrics"
    BY <1>8 DEF T!Measure
  <2>2. UNCHANGED <<child, pipe, dog, saved, runs>> /\ caller.at = "measure"
    BY <1>8 DEF T!Measure
  <2> QED BY <1>0, <2>1, <2>2 DEF T!Goes, T!Says, T!Idle, T!NoResult, Stages, BacktestTyped
<1>9. CASE T!Save
  BY <1>0, <1>9 DEF T!Save, T!Idle, Stages, BacktestTyped
<1>10. CASE T!DogStep
  BY <1>10 DEF T!DogStep, T!DogGoesHome, T!Deadline, T!Terminate, T!KillAfterGrace, T!Dog, T!Killed, BacktestTyped
<1>11. CASE T!BeginSend \/ T!EndSend \/ T!Dies
  BY <1>11 DEF T!BeginSend, T!EndSend, T!Dies, T!Child, BacktestTyped
<1>12. CASE UNCHANGED T!vars
  BY <1>12 DEF T!vars, BacktestTyped
<1> QED BY <1>1, <1>2, <1>3, <1>4, <1>5, <1>6, <1>7, <1>8, <1>9, <1>10, <1>11, <1>12 DEF T!Next, T!CallerStep

LEMMA BacktestTypes == BacktestTyped => T!TypeOK
  BY BoundsAssumption DEF BacktestTyped, T!TypeOK, Stages

(* The coverage report.                                                     *)
CoverageTyped ==
    /\ clock.day \in 1..LastDay /\ clock.closed \in BOOLEAN /\ DOMAIN clock = {"day", "closed"}
    /\ fills \subseteq TradingDays
    /\ rows \subseteq [day : TradingDays, form : {"iso", "compact", "other"}]
    /\ dataset # None => DOMAIN dataset = {"flex", "live"} /\ dataset.flex \cup dataset.live \subseteq fills
    /\ report.stale \in {None, TRUE, FALSE}

LEMMA CoverageTypesInit == V!Init => CoverageTyped
  BY BoundsAssumption DEF V!Init, CoverageTyped, V!NoReport

LEMMA CoverageTypesStep == CoverageTyped /\ [V!Next]_(V!vars) => CoverageTyped'
<1> SUFFICES ASSUME CoverageTyped, [V!Next]_(V!vars) PROVE CoverageTyped'
  OBVIOUS
<1>1. CASE V!Coverage
  <2>1. \A calendar : V!Stale(calendar) \in BOOLEAN
    <3>1. ASSUME NEW settled, NEW calendar PROVE V!Behind(settled, calendar) \in BOOLEAN
      <4>1. CASE calendar
        <5>1. V!Behind(settled, calendar) = (settled < V!Penultimate)
          BY <4>1, Zenon DEF V!Behind
        <5> QED BY <5>1
      <4>2. CASE ~calendar
        <5>1. V!Behind(settled, calendar) = (clock.day - settled > 2)
          BY <4>2, Zenon DEF V!Behind
        <5> QED BY <5>1
      <4> QED BY <4>1, <4>2
    <3>2. \A calendar : (V!SettledNewest = 0) \in BOOLEAN
      OBVIOUS
    <3> QED BY <3>1, <3>2 DEF V!Stale
  <2>2. report'.stale \in {None, TRUE, FALSE}
    <3>1. PICK calendar \in BOOLEAN : report'.stale \in {None, V!Stale(calendar)}
      BY <1>1 DEF V!Coverage, V!NoReport
    <3> QED BY <2>1, <3>1
  <2> QED BY <1>1, <2>2 DEF V!Coverage, CoverageTyped
<1>2. CASE V!Fill
  <2>1. clock.day \in TradingDays /\ fills' = fills \cup {clock.day} /\ UNCHANGED <<clock, report>>
    BY <1>2 DEF V!Fill
  <2>2. CASE \E form \in {"compact", "other"} : V!Live(form)
    <3>1. PICK form \in {"compact", "other"} : V!Live(form)
      BY <2>2
    <3>2. rows' \subseteq [day : TradingDays, form : {"iso", "compact", "other"}]
      BY <2>1, <3>1 DEF V!Live, CoverageTyped
    <3>3. dataset' # None => DOMAIN dataset' = {"flex", "live"} /\ dataset'.flex \cup dataset'.live \subseteq fills'
      BY <2>1, <3>1 DEF V!Live, CoverageTyped
    <3> QED BY <2>1, <3>2, <3>3 DEF CoverageTyped
  <2>3. CASE UNCHANGED <<rows, dataset>>
    BY <2>1, <2>3 DEF CoverageTyped
  <2> QED BY <1>2, <2>2, <2>3 DEF V!Fill
<1>3. CASE V!Import
  <2>1. PICK from \in TradingDays : LET out == {d \in fills : from <= d /\ d < clock.day}
                                        old == IF dataset = None THEN [flex |-> {}, live |-> {}] ELSE dataset
                                    IN  /\ rows' = rows \cup {[day |-> d, form |-> "iso"] : d \in out}
                                        /\ dataset' = [flex |-> old.flex \cup out, live |-> old.live \ out]
    BY <1>3 DEF V!Import
  <2>2. rows' \subseteq [day : TradingDays, form : {"iso", "compact", "other"}]
    BY <2>1 DEF CoverageTyped
  <2>3. DOMAIN dataset' = {"flex", "live"} /\ dataset'.flex \cup dataset'.live \subseteq fills
    <3>1. CASE dataset = None
      BY <2>1, <3>1
    <3>2. CASE dataset # None
      BY <2>1, <3>2 DEF CoverageTyped
    <3> QED BY <3>1, <3>2
  <2> QED BY <1>3, <2>2, <2>3 DEF V!Import, CoverageTyped
<1>4. CASE V!Emptied
  BY <1>4 DEF V!Emptied, CoverageTyped
<1>5. CASE V!TimePasses
  <2>1. clock'.day \in 1..LastDay /\ clock'.closed \in BOOLEAN /\ DOMAIN clock' = {"day", "closed"}
    <3>1. CASE clock.closed
      BY <1>5, <3>1, BoundsAssumption DEF V!TimePasses, CoverageTyped
    <3>2. CASE ~clock.closed
      BY <1>5, <3>2, BoundsAssumption DEF V!TimePasses, CoverageTyped
    <3> QED BY <3>1, <3>2
  <2> QED BY <1>5, <2>1 DEF V!TimePasses, CoverageTyped
<1>6. CASE UNCHANGED V!vars
  BY <1>6 DEF V!vars, CoverageTyped
<1> QED BY <1>1, <1>2, <1>3, <1>4, <1>5, <1>6 DEF V!Next

LEMMA CoverageTypes == CoverageTyped => V!TypeOK
  BY DEF CoverageTyped, V!TypeOK

(* The session.  Of a login at most one a step, and each is an event.       *)
HostTyped ==
    /\ docker \in [up : BOOLEAN, image : BOOLEAN] /\ container \in {"absent", "stopped", "running"}
    /\ gw \in [up : BOOLEAN, auth : BOOLEAN, asked : BOOLEAN, id : Nat]
    /\ events \in 0..MaxEvents /\ gw.id <= events /\ (gw.auth => gw.up)

MarketTyped ==
    /\ warm \subseteq {"orders", "trades", "pnl"} \cup Conids
    /\ book \subseteq S!Statuses /\ sessionTraded \in BOOLEAN

Stops == {"idle", "docker", "launch", "adopt", "adopt_auth", "run", "start", "relaunch",
          "exists", "build", "create", "reach", "login", "verify", "again", "ready", "failed"}
StartupTyped == startup \in [at : Stops, polls : 0..MaxPolls, free : BOOLEAN]

ReadTyped ==
    /\ DOMAIN read = {"op", "at", "id", "working", "traded", "auth"}
    /\ read.at \in {"idle", "first", "prime", "second", "status", "tickle"}

SessionTyped == HostTyped /\ MarketTyped /\ StartupTyped /\ ReadTyped

LEMMA SessionTypesInit == S!Init => SessionTyped
<1> SUFFICES ASSUME S!Init PROVE SessionTyped
  OBVIOUS
<1>0. events = 0 /\ 0 \in 0..MaxEvents /\ 0 \in 0..MaxPolls
  BY BoundsAssumption DEF S!Init
<1>1. HostTyped
  <2>1. CASE docker = [up |-> FALSE, image |-> FALSE] /\ container = "absent" /\ gw = S!Down
    <3>1. gw \in [up : BOOLEAN, auth : BOOLEAN, asked : BOOLEAN, id : Nat] /\ gw.id = 0 /\ ~gw.auth
      BY <2>1 DEF S!Down
    <3>2. docker \in [up : BOOLEAN, image : BOOLEAN]
      BY <2>1
    <3> QED BY <1>0, <2>1, <3>1, <3>2 DEF HostTyped
  <2>2. CASE /\ docker = [up |-> TRUE, image |-> TRUE] /\ container = "running"
             /\ gw \in [up : {TRUE}, auth : BOOLEAN, asked : {FALSE}, id : {0}]
    <3>0. gw.up = TRUE /\ gw.auth \in BOOLEAN /\ gw.asked = FALSE /\ gw.id = 0
      BY <2>2
    <3>1. gw \in [up : BOOLEAN, auth : BOOLEAN, asked : BOOLEAN, id : Nat] /\ gw.id = 0 /\ gw.up
      <4>1. gw = [up |-> TRUE, auth |-> gw.auth, asked |-> FALSE, id |-> 0]
        BY <2>2
      <4>2. \A u, a, q, n : u \in BOOLEAN /\ a \in BOOLEAN /\ q \in BOOLEAN /\ n \in Nat =>
              [up |-> u, auth |-> a, asked |-> q, id |-> n] \in [up : BOOLEAN, auth : BOOLEAN, asked : BOOLEAN, id : Nat]
        OBVIOUS
      <4>3. [up |-> TRUE, auth |-> gw.auth, asked |-> FALSE, id |-> 0] \in [up : BOOLEAN, auth : BOOLEAN, asked : BOOLEAN, id : Nat]
        BY <3>0, <4>2
      <4>4. gw \in [up : BOOLEAN, auth : BOOLEAN, asked : BOOLEAN, id : Nat]
        BY <4>1, <4>3, Zenon
      <4> QED BY <3>0, <4>4
    <3>2. docker \in [up : BOOLEAN, image : BOOLEAN]
      BY <2>2
    <3> QED BY <1>0, <2>2, <3>1, <3>2 DEF HostTyped
  <2> QED BY <2>1, <2>2 DEF S!Init
<1>2. StartupTyped
  BY <1>0 DEF S!Init, StartupTyped, Stops
<1>3. MarketTyped /\ ReadTyped
  BY DEF S!Init, S!NoRead, MarketTyped, ReadTyped
<1> QED BY <1>1, <1>2, <1>3 DEF SessionTyped

\* What happens to the host and the session, and of itself.
Logout == gw' = [S!Down EXCEPT !.id = gw.id]

LEMMA HostKept ==
    ASSUME HostTyped,
           docker' \in {docker, [docker EXCEPT !.up = TRUE], [docker EXCEPT !.up = FALSE], [docker EXCEPT !.image = TRUE]},
           container' \in {container, "absent", "stopped", "running"},
           events' \in {events, events + 1} /\ events' <= MaxEvents,
           \/ UNCHANGED gw \/ S!Asked \/ Logout \/ gw' = [gw EXCEPT !.up = TRUE]
           \/ gw' = [gw EXCEPT !.auth = FALSE]
    PROVE  HostTyped'
<1>0. docker' \in [up : BOOLEAN, image : BOOLEAN]
  BY DEF HostTyped
<1>1. /\ container' \in {"absent", "stopped", "running"}
      /\ events \in Nat /\ events' \in 0..MaxEvents
  BY BoundsAssumption DEF HostTyped
<1>2. gw' \in [up : BOOLEAN, auth : BOOLEAN, asked : BOOLEAN, id : Nat] /\ gw'.id = gw.id /\ (gw'.auth => gw'.up)
  <2>1. CASE UNCHANGED gw \/ S!Asked
    BY <2>1 DEF HostTyped, S!Asked
  <2>2. CASE Logout
    BY <2>2 DEF HostTyped, Logout, S!Down
  <2>3. CASE gw' = [gw EXCEPT !.up = TRUE] \/ gw' = [gw EXCEPT !.auth = FALSE]
    BY <2>3 DEF HostTyped
  <2> QED BY <2>1, <2>2, <2>3
<1>3. gw'.id <= events'
  BY <1>1, <1>2 DEF HostTyped
<1> QED BY <1>0, <1>1, <1>2, <1>3 DEF HostTyped

LEMMA GoesTyped == ASSUME StartupTyped, NEW at \in Stops, S!Goes(at) PROVE StartupTyped'
<1> DEFINE next == [at |-> at, polls |-> 0, free |-> startup.free]
<1>1. startup' = next
  BY DEF S!Goes, StartupTyped
<1>2. 0 \in 0..MaxPolls /\ startup.free \in BOOLEAN
  BY BoundsAssumption DEF StartupTyped
<1>3. next \in [at : Stops, polls : 0..MaxPolls, free : BOOLEAN]
  BY <1>2
<1> QED BY <1>1, <1>3, Zenon DEF StartupTyped

LEMMA StaysTyped ==
    ASSUME StartupTyped, startup.polls < MaxPolls, startup' = [startup EXCEPT !.polls = @ + 1]
    PROVE  StartupTyped'
<1>1. startup.polls + 1 \in 0..MaxPolls
  BY BoundsAssumption DEF StartupTyped
<1>2. \A n \in 0..MaxPolls : [startup EXCEPT !.polls = n] \in [at : Stops, polls : 0..MaxPolls, free : BOOLEAN]
  BY DEF StartupTyped
<1>3. startup' = [startup EXCEPT !.polls = startup.polls + 1]
  OBVIOUS
<1> QED BY <1>1, <1>2, <1>3 DEF StartupTyped

LEMMA PollTyped ==
    ASSUME StartupTyped, NEW at, NEW ready, NEW yes \in Stops, NEW no \in Stops, S!PollUntil(at, ready, yes, no)
    PROVE  StartupTyped'
  BY GoesTyped, StaysTyped DEF S!PollUntil

LEMMA DockerTyped ==
    ASSUME StartupTyped, NEW at, NEW launch \in Stops, NEW next \in Stops,
           S!EnsureDocker(at, launch, next) \/ S!WaitDocker(launch, next)
    PROVE  StartupTyped'
<1>1. "failed" \in Stops
  BY DEF Stops
<1> QED BY <1>1, GoesTyped, StaysTyped DEF S!EnsureDocker, S!WaitDocker

LEMMA StartupTypes == SessionTyped /\ S!StartupStep => SessionTyped'
<1> SUFFICES ASSUME SessionTyped, S!StartupStep PROVE SessionTyped'
  OBVIOUS
<1> USE DEF SessionTyped
<1>0. events \in 0..MaxEvents /\ MaxEvents \in Nat
  BY BoundsAssumption DEF HostTyped
<1>1. MarketTyped' /\ ReadTyped' /\ UNCHANGED events
  <2>1. CASE S!RemoveOld
    BY <2>1 DEF S!RemoveOld, S!Removed, S!NotRemoved, S!NoSession, S!market, MarketTyped, ReadTyped
  <2>2. CASE ~S!RemoveOld
    <3>1. S!Manager
      BY <2>2, Zenon DEF S!StartupStep, S!EnsureDocker, S!Adopt, S!AdoptAuth, S!StartUnlessRunning, S!BuildImage,
         S!RunContainer, S!WaitDocker, S!WaitGateway, S!WaitAuth, S!EnterPressed, S!EnterAgain
    <3> QED BY <3>1 DEF S!Manager, S!market, MarketTyped, ReadTyped
  <2> QED BY <2>1, <2>2
<1>2. HostTyped'
  <2>1. CASE S!RemoveOld
    BY <1>0, <1>1, <2>1, HostKept DEF S!RemoveOld, S!Removed, S!NotRemoved, Logout
  <2>2. CASE S!BuildImage \/ S!RunContainer
    BY <1>0, <1>1, <2>2, HostKept DEF S!BuildImage, S!RunContainer
  <2>3. CASE ~(S!RemoveOld \/ S!BuildImage \/ S!RunContainer)
    <3>1. UNCHANGED S!host /\ (UNCHANGED gw \/ S!Asked)
      BY <2>3, Zenon DEF S!StartupStep, S!EnsureDocker, S!Adopt, S!AdoptAuth, S!StartUnlessRunning,
         S!WaitDocker, S!WaitGateway, S!WaitAuth, S!EnterPressed, S!EnterAgain, S!host
    <3> QED BY <1>0, <1>1, <3>1, HostKept DEF S!host
  <2> QED BY <2>1, <2>2, <2>3
<1>3. StartupTyped'
  <2>1. \A at \in Stops : S!Goes(at) => StartupTyped'
    BY GoesTyped
  <2>2. CASE \/ S!EnsureDocker("docker", "launch", "adopt") \/ S!WaitDocker("launch", "adopt")
             \/ S!EnsureDocker("start", "relaunch", "exists") \/ S!WaitDocker("relaunch", "exists")
    <3>1. {"launch", "adopt", "relaunch", "exists"} \subseteq Stops
      BY DEF Stops
    <3> QED BY <2>2, <3>1, DockerTyped
  <2>3. CASE S!Adopt \/ S!EnterPressed \/ S!RemoveOld \/ S!BuildImage \/ S!RunContainer
    <3>1. \E at \in {"adopt_auth", "run", "verify", "create", "build", "reach", "failed"} : S!Goes(at)
      BY <2>3, Zenon DEF S!Adopt, S!EnterPressed, S!RemoveOld, S!BuildImage, S!RunContainer
    <3>2. {"adopt_auth", "run", "verify", "create", "build", "reach", "failed"} \subseteq Stops
      BY DEF Stops
    <3> QED BY <2>1, <3>1, <3>2
  <2>4. CASE S!AdoptAuth \/ S!EnterAgain
    <3>1. \E at \in {"ready", "run", "failed"} : S!Goes(at)
      BY <2>4 DEF S!AdoptAuth, S!EnterAgain
    <3>2. {"ready", "run", "failed"} \subseteq Stops
      BY DEF Stops
    <3> QED BY <2>1, <3>1, <3>2
  <2>5. CASE S!StartUnlessRunning
    <3>1. CASE S!Goes("reach")
      BY <2>1, <3>1 DEF Stops
    <3>2. CASE startup' = [at |-> "start", polls |-> 0, free |-> container = "running"]
      BY <3>2, BoundsAssumption DEF StartupTyped, Stops
    <3> QED BY <2>5, <3>1, <3>2 DEF S!StartUnlessRunning
  <2>6. CASE S!WaitGateway \/ S!WaitAuth
    <3>1. {"reach", "login", "failed", "verify", "ready", "again"} \subseteq Stops
      BY DEF Stops
    <3>2. S!PollUntil("reach", gw.up, "login", "failed") \/ S!PollUntil("verify", S!StatusSays, "ready", "again")
      BY <2>6 DEF S!WaitGateway, S!WaitAuth
    <3> QED BY <3>1, <3>2, PollTyped
  <2> QED BY <2>2, <2>3, <2>4, <2>5, <2>6 DEF S!StartupStep
<1> QED BY <1>1, <1>2, <1>3

\* A read goes on or has been answered, and sets up subscriptions.
LEMMA ReplyTyped == ASSUME NEW what, NEW dead, S!Reply(what, dead) PROVE ReadTyped'
  BY DEF S!Reply, S!NoRead, ReadTyped

LEMMA ThenTyped ==
    ASSUME ReadTyped, NEW at \in {"prime", "second", "tickle"}, S!Then(at) PROVE ReadTyped'
  BY DEF S!Then, ReadTyped

LEMMA ReadTypes == SessionTyped /\ S!ReadStep => SessionTyped'
<1> SUFFICES ASSUME SessionTyped, S!ReadStep PROVE SessionTyped'
  OBVIOUS
<1> USE DEF SessionTyped
<1>0. events \in 0..MaxEvents /\ MaxEvents \in Nat
  BY BoundsAssumption DEF HostTyped
<1>1. S!Client /\ (UNCHANGED gw \/ S!Asked)
  BY Zenon DEF S!ReadStep, S!OrdersStep, S!OrdersFirst, S!OrdersPrime, S!OrdersSecond, S!TradesStep, S!TradesFirst, S!TradesSecond,
     S!PnlStep, S!PnlFirst, S!PnlPrime, S!PnlPrimeFails, S!PnlSecond, S!PnlRead, S!SnapshotStep, S!SnapshotFirst, S!SnapshotSecond,
     S!Raises, S!Ping
<1>2. HostTyped' /\ StartupTyped'
  BY <1>0, <1>1, HostKept DEF S!Client, S!host, StartupTyped
<1>3. MarketTyped'
  <2>1. warm' \in {warm, warm \cup {"orders"}, warm \cup {"trades"}, warm \cup {"pnl"}, warm \cup Conids}
    BY DEF S!ReadStep, S!OrdersStep, S!OrdersFirst, S!OrdersPrime, S!OrdersSecond, S!TradesStep, S!TradesFirst, S!TradesSecond,
       S!PnlStep, S!PnlFirst, S!PnlPrime, S!PnlPrimeFails, S!PnlSecond, S!PnlRead, S!SnapshotStep, S!SnapshotFirst, S!SnapshotSecond,
       S!Raises, S!Ping
  <2> QED BY <1>1, <2>1 DEF S!Client, S!market, MarketTyped
<1>4. ReadTyped'
  <2>1. (\E what, dead : S!Reply(what, dead)) \/ \E at \in {"prime", "second", "tickle"} : S!Then(at)
    <3>1. CASE S!OrdersStep
      BY <3>1 DEF S!OrdersStep, S!OrdersFirst, S!OrdersPrime, S!OrdersSecond, S!AfterFirstOrders, S!Raises
    <3>2. CASE S!TradesStep
      BY <3>2 DEF S!TradesStep, S!TradesFirst, S!TradesSecond, S!Raises
    <3>3. CASE S!PnlStep
      BY <3>3 DEF S!PnlStep, S!PnlFirst, S!PnlPrime, S!PnlPrimeFails, S!PnlSecond, S!PnlRead, S!Raises
    <3>4. CASE S!SnapshotStep
      BY <3>4 DEF S!SnapshotStep, S!SnapshotFirst, S!SnapshotSecond, S!AfterFirstSnapshot, S!Raises
    <3>5. CASE S!Ping
      BY <3>5 DEF S!Ping, S!PingLooks
    <3> QED BY <3>1, <3>2, <3>3, <3>4, <3>5 DEF S!ReadStep
  <2> QED BY <2>1, ReplyTyped, ThenTyped
<1> QED BY <1>2, <1>3, <1>4

LEMMA BeginTypes ==
    SessionTyped /\ (\/ S!BeginStartup \/ S!Restart \/ S!BeginOrders \/ S!BeginTrades \/ S!BeginPnl
                     \/ S!BeginSnapshot \/ S!BeginPing \/ S!WarmOne) => SessionTyped'
<1> SUFFICES ASSUME SessionTyped, \/ S!BeginStartup \/ S!Restart \/ S!BeginOrders \/ S!BeginTrades \/ S!BeginPnl
                                  \/ S!BeginSnapshot \/ S!BeginPing \/ S!WarmOne
             PROVE  SessionTyped'
  OBVIOUS
<1> USE DEF SessionTyped
<1>0. events \in 0..MaxEvents /\ MaxEvents \in Nat
  BY BoundsAssumption DEF HostTyped
<1>1. CASE S!BeginStartup
  <2>1. StartupTyped'
    BY <1>1, BoundsAssumption DEF S!BeginStartup, S!Begins, StartupTyped, Stops
  <2> QED BY <1>0, <1>1, <2>1, HostKept DEF S!BeginStartup, S!host, S!market, MarketTyped, ReadTyped
<1>2. CASE S!Restart
  <2>1. StartupTyped'
    BY <1>2, BoundsAssumption DEF S!Restart, S!Begins, StartupTyped, Stops
  <2>2. HostTyped'
    BY <1>0, <1>2, HostKept DEF S!Restart, S!Removed, S!NotRemoved, Logout
  <2> QED BY <1>2, <2>1, <2>2 DEF S!Restart, S!Removed, S!NotRemoved, S!NoSession, S!market, MarketTyped, ReadTyped
<1>3. CASE S!BeginOrders \/ S!BeginTrades \/ S!BeginPnl \/ S!BeginSnapshot \/ S!BeginPing
  <2>1. \E op, at : at \in {"first", "status"} /\ S!BeginRead(op, at)
    BY <1>3 DEF S!BeginOrders, S!BeginTrades, S!BeginPnl, S!BeginSnapshot, S!BeginPing
  <2> QED BY <1>0, <2>1, HostKept DEF S!BeginRead, S!host, S!market, MarketTyped, ReadTyped, StartupTyped
<1>4. CASE S!WarmOne
  BY <1>0, <1>4, HostKept DEF S!WarmOne, S!host, S!market, MarketTyped, ReadTyped, StartupTyped
<1> QED BY <1>1, <1>2, <1>3, <1>4

LEMMA EventTypes == SessionTyped /\ S!Environment => SessionTyped'
<1> SUFFICES ASSUME SessionTyped, S!Environment PROVE SessionTyped'
  OBVIOUS
<1> USE DEF SessionTyped
<1>0. events \in 0..MaxEvents /\ events \in Nat /\ MaxEvents \in Nat
  BY BoundsAssumption DEF HostTyped
<1>1. S!Event
  BY Zenon DEF S!Environment, S!DockerReady, S!DockerStops, S!JavaUp, S!Login, S!SessionEnds, S!ContainerDies, S!BookChanges, S!TradeHappens
<1>2. StartupTyped' /\ events' = events + 1 /\ events' <= MaxEvents
  BY <1>0, <1>1 DEF S!Event, StartupTyped
<1>3. CASE S!DockerReady
  BY <1>2, <1>3, HostKept DEF S!DockerReady, MarketTyped, ReadTyped, S!market
<1>4. CASE S!JavaUp
  BY <1>2, <1>4, HostKept DEF S!JavaUp, S!host, MarketTyped, ReadTyped, S!market
<1>5. CASE S!Login
  <2>1. HostTyped'
    <3>0. gw' = [gw EXCEPT !.auth = TRUE, !.asked = FALSE, !.id = gw.id + 1] /\ gw.up /\ gw.id \in Nat
      BY <1>5 DEF S!Login, HostTyped
    <3>1. gw' \in [up : BOOLEAN, auth : BOOLEAN, asked : BOOLEAN, id : Nat] /\ gw'.id = gw.id + 1 /\ gw'.up
      <4>1. gw \in [up : BOOLEAN, auth : BOOLEAN, asked : BOOLEAN, id : Nat]
        BY DEF HostTyped
      <4>2. gw.id + 1 \in Nat
        BY <3>0
      <4>3. gw' \in [up : BOOLEAN, auth : BOOLEAN, asked : BOOLEAN, id : Nat]
        BY <3>0, <4>1, <4>2
      <4>4. gw'.id = gw.id + 1
        BY <3>0, <4>1
      <4>5. gw'.up
        BY <3>0, <4>1
      <4> QED BY <4>3, <4>4, <4>5
    <3>2. gw.id \in Nat /\ gw.id <= events
      BY DEF HostTyped
    <3>3. gw'.id <= events'
      BY <1>0, <1>2, <3>1, <3>2
    <3> QED BY <1>0, <1>2, <1>5, <3>1, <3>3 DEF S!Login, S!host, HostTyped
  <2> QED BY <1>2, <1>5, <2>1 DEF S!Login, MarketTyped, ReadTyped, S!market
<1>6. CASE S!SessionEnds
  BY <1>2, <1>6, HostKept DEF S!SessionEnds, S!host, S!NoSession, MarketTyped, ReadTyped, S!market
<1>7. CASE S!ContainerDies
  BY <1>2, <1>7, HostKept DEF S!ContainerDies, Logout, S!NoSession, MarketTyped, ReadTyped, S!market
<1>8. CASE S!BookChanges
  BY <1>2, <1>8, HostKept DEF S!BookChanges, S!host, MarketTyped, ReadTyped
<1>9. CASE S!TradeHappens
  BY <1>2, <1>9, HostKept DEF S!TradeHappens, S!host, MarketTyped, ReadTyped
<1>10. CASE S!DockerStops
  BY <1>2, <1>10, HostKept DEF S!DockerStops, Logout, S!NoSession, MarketTyped, ReadTyped, S!market
<1> QED BY <1>3, <1>4, <1>5, <1>6, <1>7, <1>8, <1>9, <1>10 DEF S!Environment

LEMMA SessionTypesStep == SessionTyped /\ [S!Next]_(S!vars) => SessionTyped'
<1>1. SessionTyped /\ UNCHANGED S!vars => SessionTyped'
  BY DEF S!vars, S!host, S!market, SessionTyped, HostTyped, MarketTyped, StartupTyped, ReadTyped
<1> QED BY <1>1, StartupTypes, ReadTypes, BeginTypes, EventTypes DEF S!Next

\* That a session needs a container is SessionInv's.
LEMMA SessionTypes == SessionTyped /\ SessionInv => S!TypeOK
<1> SUFFICES ASSUME SessionTyped, SessionInv PROVE S!TypeOK
  OBVIOUS
<1>1. gw \in [up : BOOLEAN, auth : BOOLEAN, asked : BOOLEAN, id : 0..MaxEvents]
  BY BoundsAssumption DEF SessionTyped, HostTyped
<1>2. gw.auth => gw.up /\ container = "running"
  BY DEF SessionTyped, HostTyped, SessionInv
<1>3. startup.at \in Stops /\ startup.polls \in 0..MaxPolls /\ startup.free \in BOOLEAN
  BY DEF SessionTyped, StartupTyped
<1> QED BY <1>1, <1>2, <1>3 DEF SessionTyped, HostTyped, MarketTyped, ReadTyped, S!TypeOK, Stops

(* The contract.                                                            *)
Judged(a) ==
    /\ a.says \in {None, "contract", "none", "expired", "ask", "chain"}
    /\ a.conid # 0 <=> a.says = "contract"
    /\ a.front \subseteq {r.conid : r \in Futures}

ContractTyped ==
    /\ today \in 1..MaxContractDay /\ contractCalls \in 0..MaxContractCalls
    /\ contractCall.op \in C!Ops \cup {None} /\ contractCall.at \in {"idle", "asked", "answered"}
    /\ contractCall.at = "answered" => contractCall.op \in C!Ops
    /\ contractCall.at = "asked" => contractCall.op \in C!Ops
    /\ contractCall.exchange \in C!Exchanges \cup {None}
    /\ DOMAIN contractCall = {"op", "exchange", "at", "rows"}
    /\ Judged(contractAnswer)

LEMMA ContractTypesInit == C!Init => ContractTyped
<1> SUFFICES ASSUME C!Init PROVE ContractTyped
  OBVIOUS
<1>1. today \in 1..MaxContractDay /\ contractCalls \in 0..MaxContractCalls
  BY BoundsAssumption DEF C!Init
<1>2. Judged(contractAnswer)
  BY ContractAssumption DEF C!Init, C!NoAnswer, Judged
<1> QED BY <1>1, <1>2 DEF C!Init, C!Idle, ContractTyped

(* A verdict names a contract exactly when it is one.                       *)
Verdict(r) == r.says \in {"contract", "none", "expired", "ask", "chain"} /\ (r.conid # 0 <=> r.says = "contract")

LEMMA SaysVerdict ==
    ASSUME NEW what \in {"none", "expired", "ask", "chain"} PROVE Verdict(C!Says(what))
  BY DEF C!Says, Verdict

LEMMA ContractVerdict == ASSUME NEW row PROVE Verdict(C!Contract(row))
  BY DEF C!Contract, C!Says, Verdict

LEMMA PickVerdict ==
    ASSUME NEW chain, NEW of PROVE Verdict(C!Pick(chain, of)) /\ Verdict(C!Pair(chain, of))
<1> DEFINE matches == {i \in DOMAIN chain : chain[i].exchange = of}
<1>1. C!Pick(chain, of) \in {C!Says("ask"), C!Contract(C!First(chain, of))}
  BY Zenon DEF C!Pick
<1>2. C!Pair(chain, of) \in {C!Says("none"), C!Contract(C!First(chain, matches))}
  BY Zenon DEF C!Pair
<1>3. Verdict(C!Contract(C!First(chain, of))) /\ Verdict(C!Contract(C!First(chain, matches)))
  BY ContractVerdict
<1>4. Verdict(C!Says("ask")) /\ Verdict(C!Says("none"))
  BY SaysVerdict
<1> QED BY <1>1, <1>2, <1>3, <1>4

LEMMA StockVerdict ==
    ASSUME NEW chain, NEW exchange
    PROVE  Verdict(C!Stock(chain, exchange)) /\ Verdict(C!Other(chain, exchange))
<1> DEFINE matches == {i \in DOMAIN chain : chain[i].exchange = exchange}
           us == {i \in DOMAIN chain : chain[i].us}
           on == {i \in DOMAIN chain : exchange \in {None, chain[i].exchange}}
<1>1. \/ C!Stock(chain, exchange) \in {C!Says("none"), C!Says("ask")}
      \/ C!Stock(chain, exchange) \in {C!Pick(chain, matches), C!Pick(chain, us)}
  BY Zenon DEF C!Stock
<1>2. C!Other(chain, exchange) \in {C!Says("none"), C!Pick(chain, on)}
  BY Zenon DEF C!Other
<1> HIDE DEF matches, us, on
<1>3. Verdict(C!Pick(chain, matches)) /\ Verdict(C!Pick(chain, us)) /\ Verdict(C!Pick(chain, on))
  BY PickVerdict
<1>4. Verdict(C!Says("none")) /\ Verdict(C!Says("ask"))
  BY SaysVerdict
<1> QED BY <1>1, <1>2, <1>3, <1>4

LEMMA FrontVerdict ==
    ASSUME NEW chain \in Chains, NEW of \in SUBSET DOMAIN chain, NEW day
    PROVE  Verdict(C!FrontMonth(chain, of, day))
<1> DEFINE live == C!StillTradeable(chain, of, day)
           dated == {j \in live : C!Dated(chain[j])}
           k == CHOOSE j \in dated : \A h \in dated : ~C!Before(chain, h, j)
           n == CHOOSE i \in live : \A j \in live : i <= j
<1>1. live \in SUBSET DOMAIN chain /\ dated \in SUBSET DOMAIN chain
  BY DEF C!StillTradeable
<1>2. dated # {} => k \in dated
  <2> HIDE DEF dated
  <2>1. ASSUME dated # {} PROVE \E i \in dated : \A j \in dated : ~C!Before(chain, j, i)
    BY <1>1, <2>1, SomeEarliest
  <2> QED BY <2>1
<1>3. live # {} => n \in live
  <2> HIDE DEF live
  <2>1. live \in SUBSET Nat
    BY <1>1 DEF Chains
  <2>2. ASSUME live # {} PROVE \E i \in live : \A j \in live : i <= j
    BY <2>1, <2>2, SomeFirst
  <2> QED BY <2>2
<1>4. \/ C!FrontMonth(chain, of, day) \in {C!Says("none"), C!Says("expired")}
      \/ dated # {} /\ C!FrontMonth(chain, of, day) = C!Contract(chain[k])
      \/ live # {} /\ C!FrontMonth(chain, of, day) = C!Contract(chain[n])
  BY Zenon DEF C!FrontMonth, C!Earliest, C!First
<1> HIDE DEF live, dated, k, n
<1>5. ASSUME NEW i \in DOMAIN chain PROVE Verdict(C!Contract(chain[i]))
  BY ChainRow, ContractVerdict
<1>6. (dated # {} => k \in DOMAIN chain) /\ (live # {} => n \in DOMAIN chain)
  BY <1>1, <1>2, <1>3
<1>7. Verdict(C!Says("none")) /\ Verdict(C!Says("expired"))
  BY SaysVerdict
<1> QED BY <1>4, <1>5, <1>6, <1>7

LEMMA ResolveVerdict ==
    ASSUME ContractInv, ContractTyped, contractCall.at = "answered"
    PROVE  Verdict(C!Resolved)
<1>1. CASE contractCall.op = "root"
  <2>1. C!Resolved = C!FrontMonth(contractCall.rows, DOMAIN contractCall.rows, today)
    BY <1>1 DEF C!Resolved
  <2>2. contractCall.rows \in Chains
    BY <1>1 DEF ContractInv, Chains
  <2> QED BY <2>1, <2>2, FrontVerdict
<1>2. CASE contractCall.op = "chain"
  <2> DEFINE word == IF contractCall.rows = << >> THEN "none" ELSE "chain"
  <2>1. C!Resolved = C!Says(word) /\ word \in {"none", "chain"}
    BY <1>2 DEF C!Resolved
  <2> QED BY <2>1, SaysVerdict
<1>3. CASE contractCall.op \in {"stock", "other"}
  <2>1. C!Resolved \in {C!Stock(contractCall.rows, contractCall.exchange), C!Other(contractCall.rows, contractCall.exchange)}
    BY <1>3 DEF C!Resolved
  <2> QED BY <2>1, StockVerdict
<1>4. CASE contractCall.op = "pair"
  <2>1. C!Resolved = C!Pair(contractCall.rows, contractCall.exchange)
    BY <1>4 DEF C!Resolved
  <2> QED BY <2>1, PickVerdict
<1> QED BY <1>1, <1>2, <1>3, <1>4 DEF ContractTyped, C!Ops

LEMMA ContractTypesStep == ContractInv /\ ContractTyped /\ [C!Next]_(C!vars) => ContractTyped'
<1> SUFFICES ASSUME ContractInv, ContractTyped, [C!Next]_(C!vars) PROVE ContractTyped'
  OBVIOUS
<1>0. MaxContractDay \in Nat /\ MaxContractCalls \in Nat /\ None \in C!Exchanges \cup {None}
  BY BoundsAssumption
<1>1. CASE C!Ask
  <2>1. PICK op \in C!Ops, e \in C!Exchanges \cup {None} :
          contractCall' = [C!Idle EXCEPT !.op = op, !.exchange = e, !.at = "asked"]
    BY <1>1 DEF C!Ask
  <2>2. contractCall'.op = op /\ contractCall'.at = "asked" /\ contractCall'.exchange = e
        /\ DOMAIN contractCall' = {"op", "exchange", "at", "rows"}
    BY <2>1 DEF C!Idle
  <2>3. contractCalls' \in 0..MaxContractCalls
    BY <1>0, <1>1 DEF C!Ask, ContractTyped
  <2> QED BY <1>1, <2>2, <2>3 DEF C!Ask, ContractTyped
<1>2. CASE C!GatewayAnswers
  <2>1. PICK chain : contractCall' = [contractCall EXCEPT !.at = "answered", !.rows = chain]
    BY <1>2 DEF C!GatewayAnswers
  <2> QED BY <1>2, <2>1 DEF C!GatewayAnswers, ContractTyped
<1>3. CASE C!Resolve
  <2>1. contractCall'.op = None /\ contractCall'.at = "idle" /\ contractCall'.exchange = None
        /\ DOMAIN contractCall' = {"op", "exchange", "at", "rows"}
    BY <1>3 DEF C!Resolve, C!Idle
  <2>2. contractCall.at = "answered"
    BY <1>3 DEF C!Resolve
  <2>3. Verdict(C!Resolved)
    BY <2>2, ResolveVerdict
  <2>4. /\ contractAnswer'.says = C!Resolved.says /\ contractAnswer'.conid = C!Resolved.conid
        /\ contractAnswer'.front = IF contractCall.op = "chain" THEN C!Flagged(contractCall.rows, today) ELSE {}
    <3>1. PICK a : a = contractAnswer'
      OBVIOUS
    <3>2. /\ a.says = C!Resolved.says /\ a.conid = C!Resolved.conid
          /\ a.front = IF contractCall.op = "chain" THEN C!Flagged(contractCall.rows, today) ELSE {}
      BY <1>3, <3>1, Zenon DEF C!Resolve
    <3> QED BY <3>1, <3>2
  <2>5. contractAnswer'.front \subseteq {r.conid : r \in Futures}
    <3>1. CASE contractCall.op = "chain"
      <4>1. contractCall.rows \in Seq(Futures)
        BY <2>2, <3>1 DEF ContractInv
      <4>2. \A i \in DOMAIN contractCall.rows : contractCall.rows[i] \in Futures
        BY <4>1
      <4>3. C!Flagged(contractCall.rows, today) \subseteq {contractCall.rows[i].conid : i \in DOMAIN contractCall.rows}
        BY DEF C!Flagged
      <4> QED BY <2>4, <3>1, <4>2, <4>3
    <3>2. CASE contractCall.op # "chain"
      BY <2>4, <3>2
    <3> QED BY <3>1, <3>2
  <2>6. Judged(contractAnswer')
    BY <2>3, <2>4, <2>5 DEF Verdict, Judged
  <2> QED BY <1>0, <1>3, <2>1, <2>6, ContractAssumption DEF C!Resolve, ContractTyped
<1>4. CASE C!RequestFails
  <2>1. Judged(contractAnswer')
    BY <1>4, ContractAssumption DEF C!RequestFails, C!NoAnswer, Judged
  <2> QED BY <1>0, <1>4, <2>1 DEF C!RequestFails, C!Idle, ContractTyped
<1>5. CASE C!Midnight
  BY <1>0, <1>5 DEF C!Midnight, ContractTyped
<1>6. CASE UNCHANGED C!vars
  BY <1>6 DEF C!vars, ContractTyped
<1> QED BY <1>1, <1>2, <1>3, <1>4, <1>5, <1>6 DEF C!Next

LEMMA ContractTypes == ContractTyped => C!TypeOK
  BY DEF ContractTyped, Judged, C!TypeOK

(* The alerts.                                                              *)
Worded(a) ==
    /\ a.name \in Names /\ a.tif \in {"GTC", "GTD"} /\ a.expire \in Expiries \cup {None}
    /\ a.conds \in Seq(A!Conditions) /\ a.conds # << >>

AlertTyped(a) ==
    /\ DOMAIN a = {"name", "tif", "expire", "conds", "active"}
    /\ Worded(a) /\ a.active \in BOOLEAN

AlertsTyped ==
    /\ \A i \in A!Alive : AlertTyped(alerts[i])
    /\ alertsCall.op \in {None, "create", "modify", "delete", "activate"}
    /\ alertsCall.op \in {"create", "modify"} /\ alertsCall.at = "write" => Worded(alertsCall.body)
    /\ alertsCall.op = "activate" /\ alertsCall.at = "write" => alertsCall.patch.active \in BOOLEAN
    /\ says \in {None, "done", "not_found", "needs_expiry", "blocked", "error"}

LEMMA IdleIs == A!Idle.op = None /\ A!Idle.at = "idle"
  BY DEF A!Idle

LEMMA AlertTypesInit == A!Init => AlertsTyped
  BY IdleIs, AlertsAssumption DEF A!Init, A!Alive, AlertsTyped

LEMMA PatchWords == \A p \in A!Patches :
    /\ "name" \in DOMAIN p => p["name"] \in Names
    /\ "tif" \in DOMAIN p => p["tif"] \in {"GTC", "GTD"}
    /\ "expire" \in DOMAIN p => p["expire"] \in Expiries \cup {None}
    /\ "value" \in DOMAIN p => p["value"] \in Prices
    /\ "operator" \in DOMAIN p => p["operator"] \in Operators
  BY DEF A!Patches

\* A patch of its kind makes of words their like.
LEMMA PatchedWorded ==
    ASSUME NEW b, Worded(b), NEW p \in A!Patches
    PROVE  Worded(A!Patched(b, p))
<1> DEFINE first == [f \in {"operator", "value"} |-> IF f \in DOMAIN p THEN p[f] ELSE b.conds[1][f]]
           Field(f) == IF f \in DOMAIN p THEN p[f] ELSE b[f]
<1>1. A!Patched(b, p) = [name |-> Field("name"), tif |-> Field("tif"), expire |-> Field("expire"),
                       conds |-> A!ReplaceAt(b.conds, 1, first), orderId |-> b.orderId]
  BY DEF A!Patched
<1>2. first \in A!Conditions
  <2>1. b.conds[1] \in A!Conditions
    BY DEF Worded
  <2>2. b.conds[1].operator \in Operators /\ b.conds[1].value \in Prices
    BY <2>1 DEF A!Conditions
  <2>3. DOMAIN first = {"operator", "value"} /\ first["operator"] \in Operators /\ first["value"] \in Prices
    BY <2>2, PatchWords
  <2>4. first = [operator |-> first["operator"], value |-> first["value"]]
    BY <2>3
  <2> QED BY <2>3, <2>4 DEF A!Conditions
<1> HIDE DEF first
<1>3. A!ReplaceAt(b.conds, 1, first) \in Seq(A!Conditions) /\ A!ReplaceAt(b.conds, 1, first) # << >>
  BY <1>2, ReplaceFirst DEF Worded
<1>4. Field("name") \in Names /\ Field("tif") \in {"GTC", "GTD"} /\ Field("expire") \in Expiries \cup {None}
  BY PatchWords DEF Worded
<1> HIDE DEF Field
<1> QED BY <1>1, <1>3, <1>4 DEF Worded

LEMMA AnswersTyped ==
    ASSUME NEW what \in {"done", "not_found", "needs_expiry", "blocked", "error"}, A!Answers(what),
           \A i \in A!Alive' : AlertTyped(alerts'[i])
    PROVE  AlertsTyped'
<1>1. alertsCall'.op = None /\ alertsCall'.at = "idle"
  BY IdleIs DEF A!Answers
<1> QED BY <1>1, AlertsAssumption DEF A!Answers, AlertsTyped

LEMMA AnsweredTyped ==
    ASSUME PatchInv, AlertsTyped, A!Answered, \A i \in A!Alive' : AlertTyped(alerts'[i])
    PROVE  AlertsTyped'
<1>1. CASE A!Answers("done") \/ A!Answers("error")
  BY <1>1, AnswersTyped
<1>2. CASE alertsCall' = [alertsCall EXCEPT !.tries = @ + 1] /\ UNCHANGED says
  <2>1. alertsCall'.op = alertsCall.op /\ alertsCall'.at = alertsCall.at /\ alertsCall'.patch = alertsCall.patch
        /\ alertsCall'.body = alertsCall.body
    BY <1>2 DEF PatchInv, CallShape
  <2> QED BY <1>2, <2>1 DEF AlertsTyped
<1> QED BY <1>1, <1>2 DEF A!Answered

LEMMA AlertTypesBegin ==
    PatchInv /\ AlertsTyped /\ (A!BeginCreate \/ A!BeginModify \/ A!BeginDelete \/ A!BeginActivate) => AlertsTyped'
<1> SUFFICES ASSUME PatchInv, AlertsTyped, A!BeginCreate \/ A!BeginModify \/ A!BeginDelete \/ A!BeginActivate
             PROVE  AlertsTyped'
  OBVIOUS
<1>1. CASE A!BeginCreate
  <2>1. PICK n \in Names, t \in {"GTC", "GTD"}, e \in Expiries \cup {None}, c \in A!Conditions :
          LET body == [name |-> n, tif |-> t, expire |-> e, conds |-> <<c>>, orderId |-> 0]
          IN  /\ IF A!LacksExpiry(body) THEN A!Answers("needs_expiry")
                 ELSE alertsCall' = [A!Idle EXCEPT !.op = "create", !.at = "write", !.body = body] /\ says' = None
              /\ alerts' = alerts
    BY <1>1 DEF A!BeginCreate
  <2> DEFINE body == [name |-> n, tif |-> t, expire |-> e, conds |-> <<c>>, orderId |-> 0]
  <2>2. \A i \in A!Alive' : AlertTyped(alerts'[i])
    BY <2>1 DEF AlertsTyped, A!Alive
  <2>3. CASE A!LacksExpiry(body)
    BY <2>1, <2>2, <2>3, AnswersTyped
  <2>4. CASE ~A!LacksExpiry(body)
    <3>1. Worded(body)
      <4>1. <<c>> \in Seq(A!Conditions) /\ <<c>> # << >>
        OBVIOUS
      <4> QED BY <4>1 DEF Worded
    <3>2. alertsCall' = [A!Idle EXCEPT !.op = "create", !.at = "write", !.body = body] /\ says' = None
      BY <2>1, <2>4
    <3> HIDE DEF body
    <3>3. alertsCall'.op = "create" /\ alertsCall'.at = "write" /\ alertsCall'.body = body
      BY <3>2 DEF A!Idle
    <3> QED BY <2>2, <3>1, <3>2, <3>3 DEF AlertsTyped
  <2> QED BY <2>3, <2>4
<1>2. CASE A!BeginModify \/ A!BeginDelete \/ A!BeginActivate
  <2> DEFINE Fits(op, at, p) == /\ op \in {"modify", "delete", "activate"} /\ (op = "modify" => at = "read")
                                /\ op = "activate" => p.active \in BOOLEAN
  <2>1. PICK op, at, i, p : A!Begin(op, at, i, p) /\ Fits(op, at, p)
    <3>1. ASSUME NEW on \in BOOLEAN PROVE Fits("activate", "write", [active |-> on])
      OBVIOUS
    <3>2. \A p : Fits("modify", "read", p) /\ Fits("delete", "write", p)
      OBVIOUS
    <3> HIDE DEF Fits
    <3> QED BY <1>2, <3>1, <3>2, Zenon DEF A!BeginModify, A!BeginDelete, A!BeginActivate
  <2>2. A!Begin(op, at, i, p)
    BY <2>1
  <2>3. alertsCall'.op = op /\ alertsCall'.at = at /\ alertsCall'.patch = p /\ says' = None /\ alerts' = alerts
    BY <2>2 DEF A!Begin, A!Idle
  <2> QED BY <2>1, <2>3 DEF AlertsTyped, A!Alive
<1> QED BY <1>1, <1>2

LEMMA AlertTypesRead == PatchInv /\ AlertsTyped /\ (A!Read \/ A!Blocked \/ A!Fails) => AlertsTyped'
<1> SUFFICES ASSUME PatchInv, AlertsTyped, A!Read \/ A!Blocked \/ A!Fails PROVE AlertsTyped'
  OBVIOUS
<1>1. alerts' = alerts /\ \A i \in A!Alive' : AlertTyped(alerts'[i])
  BY DEF A!Read, A!Blocked, A!Fails, AlertsTyped, A!Alive
<1>2. CASE A!Blocked \/ A!Fails
  BY <1>1, <1>2, AnswersTyped DEF A!Blocked, A!Fails
<1>3. CASE A!Read
  <2> DEFINE body == A!Patched(A!Translated(alertsCall.id, alerts[alertsCall.id]), alertsCall.patch)
  <2>1. alertsCall.op = "modify" /\ alertsCall.id \in Ids /\ alertsCall.patch \in A!Patches
    BY <1>3 DEF A!Read, PatchInv, CallShape
  <2>2. CASE alerts[alertsCall.id] = None \/ A!LacksExpiry(body)
    BY <1>1, <1>3, <2>2, AnswersTyped DEF A!Read
  <2>3. CASE alerts[alertsCall.id] # None /\ ~A!LacksExpiry(body)
    <3>1. alertsCall' = [alertsCall EXCEPT !.at = "write", !.body = body, !.fresh = TRUE] /\ UNCHANGED says
      BY <1>3, <2>3 DEF A!Read
    <3>2. AlertTyped(alerts[alertsCall.id])
      BY <2>1, <2>3 DEF AlertsTyped, A!Alive
    <3>3. Worded(A!Translated(alertsCall.id, alerts[alertsCall.id]))
      BY <3>2, TranslatedIs DEF AlertTyped, Worded
    <3>4. Worded(body)
      BY <2>1, <3>3, PatchedWorded
    <3> HIDE DEF body
    <3>5. alertsCall'.op = "modify" /\ alertsCall'.at = "write" /\ alertsCall'.body = body
      BY <2>1, <3>1 DEF PatchInv, CallShape
    <3> QED BY <1>1, <3>1, <3>4, <3>5 DEF AlertsTyped
  <2> QED BY <2>2, <2>3
<1> QED BY <1>2, <1>3

LEMMA AlertTypesWrite == PatchInv /\ AlertsTyped /\ (A!Write \/ A!Delete \/ A!Activate) => AlertsTyped'
<1> SUFFICES ASSUME PatchInv, AlertsTyped, A!Write \/ A!Delete \/ A!Activate PROVE AlertsTyped'
  OBVIOUS
<1>1. A!Answered
  BY DEF A!Write, A!Delete, A!Activate
<1>2. DOMAIN alerts = Ids /\ \A i \in A!Alive : AlertTyped(alerts[i])
  BY DEF PatchInv, CallShape, AlertsTyped
<1>3. \A i \in A!Alive' : AlertTyped(alerts'[i])
  <2>1. CASE A!Write
    <3> DEFINE b == alertsCall.body
               a == [A!Stored(b) EXCEPT !.active = alerts[b.orderId].active]
    <3>1. Worded(b)
      BY <2>1 DEF A!Write, AlertsTyped
    <3>2. AlertTyped(A!Stored(b))
      BY <3>1 DEF A!Stored, AlertTyped, Worded
    <3>3. ASSUME b.orderId \in A!Alive PROVE AlertTyped(a)
      <4>1. alerts[b.orderId].active \in BOOLEAN
        BY <1>2, <3>3 DEF AlertTyped
      <4>2. /\ a.active = alerts[b.orderId].active /\ a.name = b.name /\ a.tif = b.tif /\ a.expire = b.expire
            /\ a.conds = b.conds /\ DOMAIN a = {"name", "tif", "expire", "conds", "active"}
        BY DEF A!Stored
      <4> HIDE DEF a
      <4> QED BY <3>1, <4>1, <4>2 DEF AlertTyped, Worded
    <3>4. \/ \E i \in Ids \ A!Alive : alerts' = [alerts EXCEPT ![i] = A!Stored(b)]
          \/ b.orderId \in A!Alive /\ alerts' = [alerts EXCEPT ![b.orderId] = a]
          \/ UNCHANGED alerts
      BY <2>1 DEF A!Write
    <3> HIDE DEF a, b
    <3> QED BY <1>2, <3>2, <3>3, <3>4 DEF A!Alive
  <2>2. CASE A!Delete
    BY <1>2, <2>2 DEF A!Delete, A!Alive
  <2>3. CASE A!Activate
    <3> DEFINE a == [alerts[alertsCall.id] EXCEPT !.active = alertsCall.patch.active]
    <3>1. \/ alertsCall.id \in A!Alive /\ alerts' = [alerts EXCEPT ![alertsCall.id] = a]
          \/ UNCHANGED alerts
      BY <2>3 DEF A!Activate
    <3>2. ASSUME alertsCall.id \in A!Alive PROVE AlertTyped(a)
      <4>1. AlertTyped(alerts[alertsCall.id]) /\ alertsCall.patch.active \in BOOLEAN
        BY <1>2, <2>3, <3>2 DEF A!Activate, AlertsTyped
      <4> QED BY <4>1 DEF AlertTyped, Worded
    <3> HIDE DEF a
    <3> QED BY <1>2, <3>1, <3>2 DEF A!Alive
  <2> QED BY <2>1, <2>2, <2>3
<1> QED BY <1>1, <1>3, AnsweredTyped

LEMMA AlertTypesPhone == PatchInv /\ AlertsTyped /\ (A!Edit \/ A!Discard) => AlertsTyped'
<1> SUFFICES ASSUME PatchInv, AlertsTyped, A!Edit \/ A!Discard PROVE AlertsTyped'
  OBVIOUS
<1>1. PICK i \in Ids, a \in Phoned \cup {None} :
        /\ alerts' = [alerts EXCEPT ![i] = a] /\ alertsCall' = [alertsCall EXCEPT !.fresh = @ /\ i # alertsCall.id]
        /\ a = None \/ AlertTyped(a)
  <2>1. CASE A!Edit
    <3>1. \A a \in Phoned : AlertTyped(a)
      BY AlertsAssumption DEF AlertTyped, Worded, A!IsAlert
    <3> QED BY <2>1, <3>1 DEF A!Edit
  <2>2. CASE A!Discard
    BY <2>2 DEF A!Discard, A!Alive
  <2> QED BY <2>1, <2>2
<1>2. alertsCall'.op = alertsCall.op /\ alertsCall'.at = alertsCall.at /\ alertsCall'.patch = alertsCall.patch
      /\ alertsCall'.body = alertsCall.body /\ says' = says
  BY <1>1 DEF PatchInv, CallShape, A!Edit, A!Discard
<1>3. \A j \in A!Alive' : AlertTyped(alerts'[j])
  BY <1>1 DEF PatchInv, CallShape, AlertsTyped, A!Alive
<1> QED BY <1>2, <1>3 DEF AlertsTyped

LEMMA AlertTypesStep == PatchInv /\ AlertsTyped /\ [A!Next]_(A!vars) => AlertsTyped'
<1>1. AlertsTyped /\ UNCHANGED A!vars => AlertsTyped'
  BY DEF A!vars, AlertsTyped, A!Alive
<1> QED BY <1>1, AlertTypesBegin, AlertTypesRead, AlertTypesWrite, AlertTypesPhone DEF A!Next, A!ToolStep

LEMMA AlertTypes == PatchInv /\ AlertsTyped => A!TypeOK
<1> SUFFICES ASSUME PatchInv, AlertsTyped PROVE A!TypeOK
  OBVIOUS
<1>1. ASSUME NEW i \in A!Alive PROVE A!IsAlert(alerts[i])
  <2>1. AlertTyped(alerts[i])
    BY <1>1 DEF AlertsTyped
  <2>2. A!Range(alerts[i].conds) \subseteq A!Conditions
    BY <2>1 DEF AlertTyped, Worded, A!Range
  <2> QED BY <2>1, <2>2 DEF AlertTyped, Worded, A!IsAlert
<1> QED BY <1>1 DEF AlertsTyped, PatchInv, CallShape, A!TypeOK

(* The bars and the positions.                                              *)
WalkTyped ==
    /\ walk.at \in {"idle", "ask", "chunk"} /\ walk.attempt \in 0..Attempts
    /\ walk.got \subseteq historyTraded /\ walk.anchor \in -Span..H!Open
    /\ walk.chunk \in 0..MaxChunks /\ walk.widen \in 0..MaxWidenings
    /\ walk.at = "chunk" => walk.chunk < MaxChunks

StoredTyped == \A k \in DOMAIN stored : stored[k] \subseteq historyTraded /\ stored[k] # {}

PagesTyped ==
    /\ pages.at \in {"idle", "read"} /\ pages.page \in 0..MaxPages
    /\ pages.held \in 0..Held /\ pages.got \subseteq 1..pages.held

HistoryTyped == WalkTyped /\ StoredTyped /\ PagesTyped

LEMMA NoWalkTyped ==
    /\ H!NoWalk.at = "idle" /\ H!NoWalk.attempt = 0 /\ H!NoWalk.got = {} /\ H!NoWalk.anchor = H!Open
    /\ H!NoWalk.chunk = 0 /\ H!NoWalk.widen = 0
    /\ 0 \in 0..Attempts /\ H!Open \in -Span..H!Open /\ 0 \in 0..MaxChunks /\ 0 \in 0..MaxWidenings
<1>1. 0 \in 0..Attempts /\ 0 \in 0..MaxChunks /\ 0 \in 0..MaxWidenings
  BY HistoryAssumption, BoundsAssumption
<1>2. H!Open \in -Span..H!Open
  BY HistoryAssumption DEF H!Now, H!Open
<1> QED BY <1>1, <1>2 DEF H!NoWalk

LEMMA NoPagesTyped ==
    /\ H!NoPages.at = "idle" /\ H!NoPages.page = 0 /\ H!NoPages.held = 0 /\ H!NoPages.got = {}
    /\ 0 \in 0..MaxPages /\ 0 \in 0..Held
  BY BoundsAssumption DEF H!NoPages

LEMMA HistoryTypesInit == H!Init => HistoryTyped
<1> SUFFICES ASSUME H!Init PROVE HistoryTyped
  OBVIOUS
<1>1. walk = H!NoWalk /\ pages = H!NoPages /\ DOMAIN stored = {}
  BY DEF H!Init
<1> QED BY <1>1, NoWalkTyped, NoPagesTyped DEF HistoryTyped, WalkTyped, StoredTyped, PagesTyped

LEMMA AfterWalkTyped ==
    ASSUME HistoryInv, WalkTyped, StoredTyped, NEW got \in SUBSET historyTraded, NEW warn, H!AfterWalk(got, warn),
           UNCHANGED historyTraded
    PROVE  WalkTyped' /\ StoredTyped'
<1>1. CASE got # {}
  <2>1. walk' = H!NoWalk
    BY <1>1 DEF H!AfterWalk, H!Says
  <2>2. WalkTyped'
    BY <2>1, NoWalkTyped DEF WalkTyped
  <2>3. ASSUME NEW k \in DOMAIN stored' PROVE stored'[k] = got \/ (k \in DOMAIN stored /\ stored'[k] = stored[k])
    BY <1>1, <2>3 DEF H!AfterWalk
  <2> QED BY <1>1, <2>2, <2>3 DEF StoredTyped
<1>2. CASE got = {}
  <2>1. UNCHANGED stored
    BY <1>2 DEF H!AfterWalk
  <2>2. CASE walk' = H!NoWalk
    BY <2>1, <2>2, NoWalkTyped DEF WalkTyped, StoredTyped
  <2>3. CASE walk.attempt + 1 < Attempts /\ walk' = [walk EXCEPT !.attempt = @ + 1, !.at = "ask"]
    <3>1. /\ walk'.at = "ask" /\ walk'.attempt = walk.attempt + 1 /\ walk'.got = walk.got /\ walk'.anchor = walk.anchor
          /\ walk'.chunk = walk.chunk /\ walk'.widen = walk.widen
      BY <2>3 DEF HistoryInv, HistoryShape
    <3>2. walk'.attempt \in 0..Attempts
      BY <2>3, <3>1, BoundsAssumption DEF WalkTyped
    <3> QED BY <2>1, <3>1, <3>2 DEF WalkTyped, StoredTyped
  <2> QED BY <1>2, <2>2, <2>3 DEF H!AfterWalk, H!Says
<1> QED BY <1>1, <1>2

LEMMA ChunkTyped == HistoryInv /\ HistoryInv' /\ HistoryTyped /\ H!Chunk => HistoryTyped'
<1> SUFFICES ASSUME HistoryInv, HistoryInv', HistoryTyped, H!Chunk PROVE HistoryTyped'
  OBVIOUS
<1> DEFINE width == H!ChunkDays(walk.bar) * walk.bar.perDay * 2^walk.widen
           win == H!Window(walk.anchor, width)
           got == walk.got \cup win
           anchor == IF win = {} THEN walk.anchor ELSE H!NextAnchor(win, width)
           last == walk.chunk + 1 = MaxChunks
           stalled == win # {} /\ walk.anchor # H!Open /\ anchor >= walk.anchor
           reached == win # {} /\ anchor <= H!Target(walk)
           next == [walk EXCEPT !.got = got, !.chunk = @ + 1, !.anchor = H!Most(anchor, -Span),
                                !.widen = IF win = {} THEN @ + 1 ELSE 0]
<1>1. /\ walk.at = "chunk" /\ UNCHANGED <<historyTraded, pages>>
      /\ IF stalled \/ reached \/ (win = {} /\ ~H!Widens) THEN H!AfterWalk(got, FALSE)
         ELSE IF last THEN H!AfterWalk(got, TRUE)
         ELSE walk' = next /\ UNCHANGED <<stored, historySaid>>
  BY DEF H!Chunk, H!Answered
<1>2. got \subseteq historyTraded
  BY DEF H!Window, H!Newest, HistoryTyped, WalkTyped
<1>3. PagesTyped'
  BY <1>1 DEF HistoryTyped, PagesTyped
<1>4. CASE ~last /\ walk' = next /\ UNCHANGED stored
  <2>1. /\ walk'.at = "chunk" /\ walk'.attempt = walk.attempt /\ walk'.got = got /\ walk'.chunk = walk.chunk + 1
    BY <1>1, <1>4 DEF HistoryInv, HistoryShape
  <2>2. walk'.widen \in 0..MaxWidenings /\ walk'.anchor \in -Span..H!Open
    BY <2>1 DEF HistoryInv, HistoryShape
  <2> HIDE DEF got, next
  <2>3. walk'.chunk \in 0..MaxChunks /\ walk'.chunk < MaxChunks
    BY <1>1, <1>4, <2>1, BoundsAssumption DEF HistoryTyped, WalkTyped
  <2> QED BY <1>1, <1>2, <1>3, <1>4, <2>1, <2>2, <2>3 DEF HistoryTyped, WalkTyped, StoredTyped
<1>5. CASE H!AfterWalk(got, FALSE) \/ H!AfterWalk(got, TRUE)
  <2> HIDE DEF got
  <2> QED BY <1>1, <1>2, <1>3, <1>5, AfterWalkTyped DEF HistoryTyped
<1> HIDE DEF got, next, last, stalled, reached, win
<1> QED BY <1>1, <1>4, <1>5

LEMMA WalkTypes ==
    HistoryInv /\ HistoryTyped /\ (H!Fetch \/ H!FirstChunk \/ H!FastPath \/ H!NoAnswerYet \/ H!EmptyBody \/ H!ChunkRefused)
        => HistoryTyped'
<1> SUFFICES ASSUME HistoryInv, HistoryTyped,
                    H!Fetch \/ H!FirstChunk \/ H!FastPath \/ H!NoAnswerYet \/ H!EmptyBody \/ H!ChunkRefused
             PROVE  HistoryTyped'
  OBVIOUS
<1>1. UNCHANGED <<historyTraded, pages>>
  BY DEF H!Fetch, H!FirstChunk, H!FastPath, H!NoAnswerYet, H!EmptyBody, H!ChunkRefused, H!Empty, H!Answered
<1>2. PagesTyped'
  BY <1>1 DEF HistoryTyped, PagesTyped
<1>3. CASE H!Fetch
  <2>1. UNCHANGED stored /\ \/ UNCHANGED walk
                            \/ \E d, b : walk' = [H!NoWalk EXCEPT !.at = "ask", !.days = d, !.bar = b]
    BY <1>3 DEF H!Fetch
  <2>2. CASE UNCHANGED walk
    BY <1>1, <1>2, <2>1, <2>2 DEF HistoryTyped, WalkTyped, StoredTyped
  <2>3. CASE \E d, b : walk' = [H!NoWalk EXCEPT !.at = "ask", !.days = d, !.bar = b]
    <3>1. /\ walk'.at = "ask" /\ walk'.attempt = H!NoWalk.attempt /\ walk'.got = H!NoWalk.got
          /\ walk'.anchor = H!NoWalk.anchor /\ walk'.chunk = H!NoWalk.chunk /\ walk'.widen = H!NoWalk.widen
      BY <2>3, NoWalkIs
    <3> QED BY <1>1, <1>2, <2>1, <3>1, NoWalkTyped DEF HistoryTyped, WalkTyped, StoredTyped
  <2> QED BY <2>1, <2>2, <2>3
<1>4. CASE H!FirstChunk
  <2>1. /\ walk' = [walk EXCEPT !.at = "chunk", !.anchor = H!Open, !.widen = 0, !.chunk = 0, !.got = {}] /\ UNCHANGED stored
    BY <1>4 DEF H!FirstChunk
  <2>2. /\ walk'.at = "chunk" /\ walk'.attempt = walk.attempt /\ walk'.got = {} /\ walk'.anchor = H!Open
        /\ walk'.chunk = 0 /\ walk'.widen = 0
    BY <2>1 DEF HistoryInv, HistoryShape
  <2>3. 0 < MaxChunks
    BY BoundsAssumption
  <2> QED BY <1>1, <1>2, <2>1, <2>2, <2>3, NoWalkTyped DEF HistoryTyped, WalkTyped, StoredTyped
<1>5. CASE H!FastPath \/ H!NoAnswerYet \/ H!EmptyBody \/ H!ChunkRefused
  <2>1. \E got \in SUBSET historyTraded : H!AfterWalk(got, FALSE)
    <3>1. H!Window(H!Open, walk.days * walk.bar.perDay) \in SUBSET historyTraded
      BY DEF H!Window, H!Newest
    <3>2. walk.got \in SUBSET historyTraded /\ {} \in SUBSET historyTraded
      BY DEF HistoryTyped, WalkTyped
    <3> QED BY <1>5, <3>1, <3>2, Zenon DEF H!FastPath, H!NoAnswerYet, H!EmptyBody, H!ChunkRefused
  <2> QED BY <1>1, <1>2, <2>1, AfterWalkTyped DEF HistoryTyped
<1> QED BY <1>3, <1>4, <1>5

LEMMA PagesTypes == HistoryInv /\ HistoryTyped /\ (H!BeginPositions \/ H!ReadPage) => HistoryTyped'
<1> SUFFICES ASSUME HistoryInv, HistoryTyped, H!BeginPositions \/ H!ReadPage PROVE HistoryTyped'
  OBVIOUS
<1>1. WalkTyped' /\ StoredTyped'
  BY DEF H!BeginPositions, H!ReadPage, HistoryTyped, WalkTyped, StoredTyped
<1>2. PagesTyped'
  <2>1. CASE H!BeginPositions
    <3>1. PICK h \in 0..Held : pages' = [H!NoPages EXCEPT !.at = "read", !.held = h]
      BY <2>1 DEF H!BeginPositions
    <3>2. pages'.at = "read" /\ pages'.held = h /\ pages'.page = 0 /\ pages'.got = {}
      BY <3>1 DEF H!NoPages
    <3> QED BY <3>1, <3>2, NoPagesTyped DEF PagesTyped
  <2>2. CASE H!ReadPage
    <3> DEFINE held == H!Page(pages.page)
               got == pages.got \cup held
    <3>1. \/ pages' = H!NoPages
          \/ pages.page # MaxPages /\ \E n : pages' = [pages EXCEPT !.page = @ + 1, !.previous = n, !.got = got]
      BY <2>2, Zenon DEF H!ReadPage, H!Returned
    <3>2. got \subseteq 1..pages.held
      BY DEF H!Page, HistoryTyped, PagesTyped
    <3> HIDE DEF got
    <3>3. CASE pages' = H!NoPages
      BY <3>3, NoPagesTyped DEF PagesTyped
    <3>4. CASE pages.page # MaxPages /\ \E n : pages' = [pages EXCEPT !.page = @ + 1, !.previous = n, !.got = got]
      <4>1. pages'.at = pages.at /\ pages'.held = pages.held /\ pages'.page = pages.page + 1 /\ pages'.got = got
        BY <3>4 DEF HistoryInv, PagesRead
      <4>2. pages'.page \in 0..MaxPages
        BY <3>4, <4>1, BoundsAssumption DEF HistoryTyped, PagesTyped
      <4> QED BY <3>2, <4>1, <4>2 DEF HistoryTyped, PagesTyped
    <3> QED BY <3>1, <3>3, <3>4
  <2> QED BY <2>1, <2>2
<1> QED BY <1>1, <1>2 DEF HistoryTyped

LEMMA HistoryTypesStep == HistoryInv /\ HistoryTyped /\ [H!Next]_(H!vars) => HistoryTyped'
<1>1. HistoryTyped /\ UNCHANGED H!vars => HistoryTyped'
  BY DEF H!vars, HistoryTyped, WalkTyped, StoredTyped, PagesTyped
<1> QED BY <1>1, HistoryStep, ChunkTyped, WalkTypes, PagesTypes DEF H!Next

LEMMA HistoryTypes == HistoryTyped => H!TypeOK
<1> SUFFICES ASSUME HistoryTyped PROVE H!TypeOK
  OBVIOUS
<1>1. pages.got \subseteq 1..Held
  BY BoundsAssumption DEF HistoryTyped, PagesTyped
<1> QED BY <1>1 DEF HistoryTyped, WalkTyped, StoredTyped, PagesTyped, H!TypeOK

(* The bracket, for quantities within the bound of the model.               *)
SizesInBounds ==
    /\ MaxLots >= 1
    /\ \A t \in Parents \cup Kids \cup More : t.qty \in 1..MaxLots \cup {B!Absent, B!NaN}

PairTyped ==
    /\ DOMAIN pair = {"at", "parent", "kids", "alone"}
    /\ pair.at \in {"idle", "tickets", "gate2", "shown", "sent", "answered", "read", "live", "refused"}
    /\ pair.alone \in BOOLEAN /\ (pair.alone => pair.at \in {"shown", "refused"})
    /\ pair.at \notin {"idle", "live"} => pair.parent \in Parents /\ pair.kids \in KidLists
    /\ pair.at \notin {"idle", "live", "refused"} => pair.kids # << >>
    /\ screen.disclosed \in BOOLEAN /\ problems \in BOOLEAN

ChildTyped ==
    /\ lots \in 0..MaxLots /\ fill \in 0..lots /\ size \in 0..MaxLots /\ modifies \in 0..MaxModifies
    /\ change \in [at : {"idle", "order", "parent", "gate2"}, qty : 0..MaxLots, told : BOOLEAN, held : BOOLEAN]
    /\ change.at # "idle" => change.qty > 0
    /\ size > 0 <=> pair.at = "live"
    /\ pair.at # "live" => fill = 0 /\ change.at = "idle"

BracketTyped == PairTyped /\ ChildTyped

LEMMA BracketTypesInit == SizesInBounds /\ B!Init => BracketTyped
<1> SUFFICES ASSUME SizesInBounds, B!Init PROVE BracketTyped
  OBVIOUS
<1>1. PairTyped
  BY DEF B!Init, B!NoPair, B!NoScreen, PairTyped
<1>2. 0 \in 0..MaxLots /\ 0 \in 0..0 /\ 0 \in 0..MaxModifies
  BY BracketAssumption, BoundsAssumption
<1>3. pair.at = "idle"
  BY DEF B!Init, B!NoPair
<1>4. change \in [at : {"idle", "order", "parent", "gate2"}, qty : 0..MaxLots, told : BOOLEAN, held : BOOLEAN] /\ change.at = "idle"
  BY <1>2 DEF B!Init, B!NoChange
<1>5. ChildTyped
  BY <1>2, <1>3, <1>4 DEF B!Init, ChildTyped
<1> QED BY <1>1, <1>5 DEF BracketTyped

LEMMA NoPairTyped ==
    /\ B!NoPair.at = "idle" /\ B!NoPair.alone = FALSE /\ DOMAIN B!NoPair = {"at", "parent", "kids", "alone"}
    /\ B!NoScreen.disclosed = FALSE
  BY DEF B!NoPair, B!NoScreen

LEMMA ShowTyped ==
    ASSUME PairTyped, NEW p \in Parents, NEW kids \in KidLists, NEW alone \in BOOLEAN, B!Show(p, kids, alone), UNCHANGED problems
    PROVE  PairTyped' /\ pair'.at # "live"
<1>1. CASE B!DialogRefuses(p, kids)
  <2>1. pair' = [at |-> "refused", parent |-> p, kids |-> kids, alone |-> alone] /\ UNCHANGED screen
    BY <1>1 DEF B!Show
  <2> QED BY <2>1 DEF PairTyped
<1>2. CASE ~B!DialogRefuses(p, kids)
  <2>1. /\ pair' = [at |-> "shown", parent |-> p, kids |-> kids, alone |-> alone]
        /\ screen' = [labels |-> B!Labels(kids), disclosed |-> B!Discloses(p, kids)]
    BY <1>2 DEF B!Show
  <2>2. kids # << >>
    BY <1>2 DEF B!DialogRefuses
  <2>3. B!Discloses(p, kids) \in BOOLEAN
    BY DEF B!Discloses
  <2> QED BY <2>1, <2>2, <2>3 DEF PairTyped
<1> QED BY <1>1, <1>2

LEMMA AskingTypes ==
    PairTyped /\ (B!Tickets \/ B!TouchID \/ B!Gate2 \/ B!Gate2Alone \/ B!Decides \/ B!IbkrAnswers \/ B!ReadBack)
        => PairTyped' /\ UNCHANGED B!later /\ pair.at # "live" /\ pair'.at # "live"
<1> SUFFICES ASSUME PairTyped, B!Tickets \/ B!TouchID \/ B!Gate2 \/ B!Gate2Alone \/ B!Decides \/ B!IbkrAnswers \/ B!ReadBack
             PROVE  PairTyped' /\ UNCHANGED B!later /\ pair.at # "live" /\ pair'.at # "live"
  OBVIOUS
<1>1. CASE B!Tickets
  <2>1. PICK p \in Parents, k \in Kids, n \in 0..2, m \in More :
          pair' = [at |-> IF B!BuilderRefuses(p, SubSeq(<<k, m>>, 1, n)) THEN "refused" ELSE "tickets",
                   parent |-> p, kids |-> SubSeq(<<k, m>>, 1, n), alone |-> FALSE]
    BY <1>1 DEF B!Tickets
  <2> DEFINE kids == SubSeq(<<k, m>>, 1, n)
  <2>2. kids \in KidLists
    BY DEF KidLists
  <2> HIDE DEF kids
  <2>3. pair' = [at |-> IF B!BuilderRefuses(p, kids) THEN "refused" ELSE "tickets",
                 parent |-> p, kids |-> kids, alone |-> FALSE]
    BY <2>1 DEF kids
  <2>4. ~B!BuilderRefuses(p, kids) => kids # << >>
    BY DEF B!BuilderRefuses
  <2> QED BY <1>1, <2>2, <2>3, <2>4 DEF B!Tickets, PairTyped
<1>2. CASE B!TouchID
  <2>1. pair.at = "tickets" /\ (pair' = [pair EXCEPT !.at = "gate2"] \/ pair' = B!NoPair) /\ UNCHANGED <<screen, problems, B!later>>
    BY <1>2 DEF B!TouchID
  <2>2. CASE pair' = [pair EXCEPT !.at = "gate2"]
    BY <2>1, <2>2 DEF PairTyped
  <2>3. CASE pair' = B!NoPair
    BY <2>1, <2>3, NoPairTyped DEF PairTyped
  <2> QED BY <2>1, <2>2, <2>3
<1>3. CASE B!Gate2
  <2>1. pair.parent \in Parents /\ pair.kids \in KidLists
    BY <1>3 DEF B!Gate2, PairTyped
  <2>2. B!Show(pair.parent, pair.kids, FALSE) /\ UNCHANGED <<problems, B!later>> /\ pair.at = "gate2"
    BY <1>3 DEF B!Gate2
  <2> QED BY <2>1, <2>2, ShowTyped
<1>4. CASE B!Gate2Alone
  <2>1. PICK p \in Parents, k \in Kids, n \in 0..2, m \in More : B!Show(p, SubSeq(<<k, m>>, 1, n), TRUE)
    BY <1>4 DEF B!Gate2Alone
  <2>2. SubSeq(<<k, m>>, 1, n) \in KidLists
    BY DEF KidLists
  <2>3. UNCHANGED <<problems, B!later>> /\ pair.at = "idle"
    BY <1>4 DEF B!Gate2Alone
  <2> QED BY <2>1, <2>2, <2>3, ShowTyped
<1>5. CASE B!Decides
  <2>1. /\ pair.at = "shown" /\ screen' = B!NoScreen /\ UNCHANGED <<problems, B!later>>
        /\ \/ ~pair.alone /\ pair' = [pair EXCEPT !.at = "sent"]
           \/ pair' = B!NoPair
    BY <1>5 DEF B!Decides
  <2>2. CASE ~pair.alone /\ pair' = [pair EXCEPT !.at = "sent"]
    BY <2>1, <2>2, NoPairTyped DEF PairTyped
  <2>3. CASE pair' = B!NoPair
    BY <2>1, <2>3, NoPairTyped DEF PairTyped
  <2> QED BY <2>1, <2>2, <2>3
<1>6. CASE B!IbkrAnswers
  <2>1. pair.at = "sent" /\ pair' = [pair EXCEPT !.at = "answered"] /\ UNCHANGED <<screen, problems, B!later>>
    BY <1>6 DEF B!IbkrAnswers
  <2> QED BY <2>1 DEF PairTyped
<1>7. CASE B!ReadBack
  <2>1. pair.at = "answered" /\ pair' = [pair EXCEPT !.at = "read"] /\ UNCHANGED <<screen, B!later>>
        /\ problems' = B!FindsProblems
    BY <1>7 DEF B!ReadBack
  <2>2. B!FindsProblems \in BOOLEAN
    BY Zenon DEF B!FindsProblems
  <2> QED BY <2>1, <2>2 DEF PairTyped
<1> QED BY <1>1, <1>2, <1>3, <1>4, <1>5, <1>6, <1>7

LEMMA LotsTyped ==
    ASSUME SizesInBounds, NEW q \in 1..MaxLots \cup {B!Absent, B!NaN}
    PROVE  B!Lots(q) \in 1..MaxLots
<1>1. CASE B!Number(q)
  BY <1>1 DEF B!Lots, B!Number
<1>2. CASE ~B!Number(q)
  BY <1>2, BracketAssumption DEF B!Lots, SizesInBounds
<1> QED BY <1>1, <1>2

LEMMA FirstKid == ASSUME NEW kids \in KidLists, kids # << >> PROVE kids[1] \in Kids
<1>1. CASE \E k \in Kids : kids = <<k>>
  BY <1>1
<1>2. CASE \E k \in Kids, m \in More : kids = <<k, m>>
  BY <1>2
<1> QED BY <1>1, <1>2, KidListIs

LEMMA LiveTypes == SizesInBounds /\ BracketTyped /\ B!Live => BracketTyped'
<1> SUFFICES ASSUME SizesInBounds, BracketTyped, B!Live PROVE BracketTyped'
  OBVIOUS
<1>1. /\ pair.at = "read" /\ pair' = [B!NoPair EXCEPT !.at = "live"] /\ problems' = FALSE
      /\ lots' = B!Lots(pair.parent.qty) /\ size' = B!Lots(B!KidQty(pair.parent, pair.kids[1]))
      /\ UNCHANGED <<screen, fill, change, modifies>>
  BY DEF B!Live
<1>2. pair.parent \in Parents /\ pair.kids[1] \in Kids
  BY <1>1, FirstKid DEF BracketTyped, PairTyped
<1>3. lots' \in 1..MaxLots /\ size' \in 1..MaxLots
  <2>1. pair.parent.qty \in 1..MaxLots \cup {B!Absent, B!NaN} /\ pair.kids[1].qty \in 1..MaxLots \cup {B!Absent, B!NaN}
    BY <1>2 DEF SizesInBounds
  <2>2. B!KidQty(pair.parent, pair.kids[1]) \in 1..MaxLots \cup {B!Absent, B!NaN}
    BY <2>1 DEF B!KidQty
  <2> QED BY <1>1, <2>1, <2>2, LotsTyped
<1>4. pair'.at = "live" /\ pair'.alone = FALSE /\ DOMAIN pair' = {"at", "parent", "kids", "alone"}
  BY <1>1 DEF B!NoPair
<1>5. PairTyped'
  BY <1>1, <1>4 DEF BracketTyped, PairTyped
<1>6. ChildTyped'
  <2>1. fill = 0 /\ MaxLots \in Nat
    BY <1>1, BracketAssumption DEF BracketTyped, ChildTyped
  <2>2. fill' \in 0..lots' /\ lots' \in 0..MaxLots /\ size' \in 0..MaxLots /\ size' > 0
    BY <1>1, <1>3, <2>1
  <2> QED BY <1>1, <1>4, <2>2 DEF BracketTyped, ChildTyped
<1> QED BY <1>5, <1>6 DEF BracketTyped

LEMMA ChildTypes ==
    SizesInBounds /\ BracketTyped
    /\ (B!Fills \/ B!Modify \/ B!StatusUnread \/ B!ReadOrder \/ B!ReadParent \/ B!Confirmed) => BracketTyped'
<1> SUFFICES ASSUME SizesInBounds, BracketTyped,
                    B!Fills \/ B!Modify \/ B!StatusUnread \/ B!ReadOrder \/ B!ReadParent \/ B!Confirmed
             PROVE  BracketTyped'
  OBVIOUS
<1>1. UNCHANGED B!asked
  BY DEF B!Fills, B!Modify, B!StatusUnread, B!ReadOrder, B!ReadParent, B!Confirmed, B!Changing
<1>2. PairTyped' /\ pair' = pair
  BY <1>1 DEF B!asked, BracketTyped, PairTyped
<1>3. MaxLots \in Nat /\ MaxModifies \in Nat /\ lots \in Nat /\ fill \in Nat /\ fill <= lots /\ size \in Nat
      /\ change.qty \in 0..MaxLots
  BY BracketAssumption, BoundsAssumption DEF BracketTyped, ChildTyped
<1>4. pair.at = "live"
  BY DEF B!Fills, B!Modify, B!StatusUnread, B!ReadOrder, B!ReadParent, B!Confirmed, BracketTyped, ChildTyped
<1>5. ChildTyped'
  <2>1. CASE B!Fills
    BY <1>2, <1>3, <1>4, <2>1 DEF B!Fills, BracketTyped, ChildTyped
  <2>2. CASE B!Modify
    <3>1. PICK q \in 1..MaxLots : change' = [at |-> "order", qty |-> q, told |-> FALSE, held |-> FALSE]
      BY <2>2 DEF B!Modify, B!NoChange
    <3>2. change' \in [at : {"idle", "order", "parent", "gate2"}, qty : 0..MaxLots, told : BOOLEAN, held : BOOLEAN] /\ change'.qty > 0
      BY <1>3, <3>1
    <3>3. modifies' \in 0..MaxModifies
      <4>1. modifies' = modifies + 1 /\ modifies < MaxModifies
        BY <2>2 DEF B!Modify
      <4>2. modifies \in 0..MaxModifies
        BY DEF BracketTyped, ChildTyped
      <4> QED BY <1>3, <4>1, <4>2
    <3> QED BY <1>2, <1>4, <2>2, <3>2, <3>3 DEF B!Modify, BracketTyped, ChildTyped
  <2>3. CASE B!StatusUnread \/ B!ReadOrder
    BY <1>2, <1>4, <2>3 DEF B!StatusUnread, B!ReadOrder, B!Changing, BracketTyped, ChildTyped
  <2>4. CASE B!ReadParent
    <3>1. change' \in [at : {"idle", "order", "parent", "gate2"}, qty : 0..MaxLots, told : BOOLEAN, held : BOOLEAN]
          /\ (change'.at # "idle" => change'.qty > 0)
      <4>1. change \in [at : {"idle", "order", "parent", "gate2"}, qty : 0..MaxLots, told : BOOLEAN, held : BOOLEAN]
            /\ change.at = "parent" /\ change.qty > 0
        BY <2>4 DEF B!ReadParent, BracketTyped, ChildTyped
      <4>2. CASE change' = B!NoChange
        BY <1>3, <4>2 DEF B!NoChange
      <4>3. CASE change' = [change EXCEPT !.at = "gate2", !.held = fill = 0]
        <5>1. PICK none \in BOOLEAN : change' = [change EXCEPT !.at = "gate2", !.held = none]
          BY <4>3
        <5>2. change' = [at |-> "gate2", qty |-> change.qty, told |-> change.told, held |-> none]
          BY <4>1, <5>1
        <5> QED BY <4>1, <5>2
      <4> QED BY <2>4, <4>2, <4>3 DEF B!ReadParent
    <3> QED BY <1>2, <1>4, <2>4, <3>1 DEF B!ReadParent, B!Changing, BracketTyped, ChildTyped
  <2>5. CASE B!Confirmed
    <3>1. change' \in [at : {"idle", "order", "parent", "gate2"}, qty : 0..MaxLots, told : BOOLEAN, held : BOOLEAN] /\ change'.at = "idle"
      BY <1>3, <2>5 DEF B!Confirmed, B!NoChange
    <3>2. size' \in 0..MaxLots /\ size' > 0
      BY <1>3, <1>4, <2>5 DEF B!Confirmed, BracketTyped, ChildTyped
    <3> QED BY <1>2, <1>4, <2>5, <3>1, <3>2 DEF B!Confirmed, B!Changing, BracketTyped, ChildTyped
  <2> QED BY <2>1, <2>2, <2>3, <2>4, <2>5
<1> QED BY <1>2, <1>5 DEF BracketTyped

LEMMA BracketTypesStep == SizesInBounds /\ BracketTyped /\ [B!Next]_(B!vars) => BracketTyped'
<1> SUFFICES ASSUME SizesInBounds, BracketTyped, [B!Next]_(B!vars) PROVE BracketTyped'
  OBVIOUS
<1>1. CASE B!Tickets \/ B!TouchID \/ B!Gate2 \/ B!Gate2Alone \/ B!Decides \/ B!IbkrAnswers \/ B!ReadBack
  <2>1. PairTyped' /\ UNCHANGED B!later /\ pair.at # "live" /\ pair'.at # "live"
    BY <1>1, AskingTypes DEF BracketTyped
  <2> QED BY <2>1 DEF B!later, BracketTyped, ChildTyped
<1>2. CASE UNCHANGED B!vars
  BY <1>2 DEF B!vars, B!asked, B!later, BracketTyped, PairTyped, ChildTyped
<1> QED BY <1>1, <1>2, LiveTypes, ChildTypes DEF B!Next

LEMMA BracketTypes == BracketTyped => B!TypeOK
<1> SUFFICES ASSUME BracketTyped PROVE B!TypeOK
  OBVIOUS
<1>1. change.at \in {"idle", "order", "parent", "gate2"} /\ change.qty \in 0..MaxLots
  BY DEF BracketTyped, ChildTyped
<1> QED BY <1>1 DEF BracketTyped, PairTyped, ChildTyped, B!TypeOK

(* The crawls and what they leave on Drive.  Who has a profile is at work   *)
(* with it, and a call that saves has something to save.                    *)
CallTyped(j) ==
    /\ DOMAIN j = JobFields
    /\ j.at \in {"idle", "cache", "lock", "browse", "save", "index"}
    /\ j.got \in Seq(Shots) /\ j.next \in Nat
    /\ j.at \in {"save", "index"} => j.got # << >>
    /\ j.at = "save" => j.next \in DOMAIN j.got
    /\ j.at \notin {"save", "index"} => j.next = 1

HoldersBrowse ==
    \A p \in W!Profiles : holder[p] # None =>
        holder[p] \in Callers /\ job[holder[p]].at = "browse" /\ W!Needs(holder[p]) = p

ArchiveTyped ==
    /\ DOMAIN files = W!Folders /\ \A f \in W!Folders : \A n \in DOMAIN files[f] : files[f][n].url \in Pages
    /\ DOMAIN index = W!Folders /\ \A f \in W!Folders : index[f] # None => index[f].at \in 0..now
    /\ now \in 0..MaxTime

WebTyped ==
    /\ \A c \in Callers : CallTyped(job[c])
    /\ HoldersBrowse /\ ArchiveTyped /\ webCalls \in 0..MaxWebCalls

LEMMA NoCallTyped == CallTyped(W!NoJob)
<1>1. W!NoJob.got \in Seq(Shots)
  BY NoJobIs
<1> QED BY <1>1, NoJobIs DEF CallTyped

LEMMA WebTypesInit == W!Init => WebTyped
<1> SUFFICES ASSUME W!Init PROVE WebTyped
  OBVIOUS
<1>1. \A c \in Callers : CallTyped(job[c])
  BY NoCallTyped DEF W!Init
<1>2. HoldersBrowse
  BY DEF W!Init, HoldersBrowse
<1>3. DOMAIN files = W!Folders /\ \A f \in W!Folders : DOMAIN files[f] = {}
  BY DEF W!Init
<1>4. DOMAIN index = W!Folders /\ (\A f \in W!Folders : index[f] = None) /\ now \in 0..MaxTime
  BY BoundsAssumption DEF W!Init
<1>5. webCalls \in 0..MaxWebCalls
  BY BoundsAssumption DEF W!Init
<1> QED BY <1>1, <1>2, <1>3, <1>4, <1>5 DEF WebTyped, ArchiveTyped

\* What a step of c does to the calls, and to the profiles if it opens no browser.
CallBecomes(c) == \E j : job' = [job EXCEPT ![c] = j] /\ CallTyped(j)
GivesBack(c) == (job[c].at # "browse" /\ holder' = holder) \/ W!Closes(c)

LEMMA CallsKept ==
    ASSUME BrowserInv, WebTyped, NEW c \in Callers, CallBecomes(c)
    PROVE  /\ DOMAIN job' = Callers /\ \A d \in Callers \ {c} : job'[d] = job[d]
           /\ \A d \in Callers : CallTyped(job'[d])
  BY DEF CallBecomes, BrowserInv, JobsShape, WebTyped

LEMMA HoldersKept ==
    ASSUME BrowserInv, WebTyped, NEW c \in Callers, CallBecomes(c), GivesBack(c)
    PROVE  HoldersBrowse'
<1>1. ASSUME NEW p \in W!Profiles, holder'[p] # None
      PROVE  holder'[p] \in Callers /\ job'[holder'[p]].at = "browse" /\ Profile[job'[holder'[p]].url] = p
  <2>1. holder'[p] = holder[p] /\ holder[p] # None
    BY <1>1 DEF GivesBack, W!Closes
  <2>2. holder[p] \in Callers /\ job[holder[p]].at = "browse" /\ W!Needs(holder[p]) = p
    BY <2>1 DEF WebTyped, HoldersBrowse
  <2>3. holder[p] # c
    BY <1>1, <2>1, <2>2 DEF GivesBack, W!Closes
  <2>4. job'[holder[p]] = job[holder[p]]
    BY <2>2, <2>3, CallsKept
  <2>5. job'[holder'[p]] = job[holder[p]]
    BY <2>1, <2>4
  <2>6. Profile[job'[holder'[p]].url] = p
    BY <2>2, <2>5 DEF W!Needs
  <2> QED BY <2>1, <2>2, <2>5, <2>6
<1> QED BY <1>1 DEF HoldersBrowse, W!Needs

LEMMA AnswerTyped ==
    ASSUME NEW c \in Callers, NEW what, W!Answers(c, what)
    PROVE  CallBecomes(c)
  BY NoCallTyped DEF W!Answers, CallBecomes

LEMMA GoTyped ==
    ASSUME BrowserInv, WebTyped, NEW c \in Callers, job[c].at \in {"cache", "lock"}, NEW at \in {"lock", "browse"}, W!Goes(c, at)
    PROVE  CallBecomes(c)
<1>1. PICK j : j = [job[c] EXCEPT !.at = at]
  OBVIOUS
<1>2. job' = [job EXCEPT ![c] = j]
  BY <1>1 DEF W!Goes, BrowserInv, JobsShape
<1>3. CallTyped(job[c])
  BY DEF WebTyped
<1>4. DOMAIN j = JobFields /\ j.at = at /\ j.got = job[c].got /\ j.next = job[c].next
  BY <1>1, <1>3 DEF CallTyped, JobFields
<1>5. CallTyped(j)
  BY <1>3, <1>4 DEF CallTyped
<1> QED BY <1>2, <1>5 DEF CallBecomes

LEMMA BeginTyped ==
    ASSUME NEW c \in Callers, NEW tool, NEW at \in {"cache", "lock"}, W!Begin(c, tool, at)
    PROVE  CallBecomes(c)
<1>1. PICK r \in Roots :
        IF r \in Private THEN W!Answers(c, "blocked")
        ELSE job' = [job EXCEPT ![c] = [W!NoJob EXCEPT !.at = at, !.tool = tool, !.url = r, !.v = webCalls + 1]]
  BY DEF W!Begin
<1>2. CASE r \notin Private
  <2>1. PICK j : j = [W!NoJob EXCEPT !.at = at, !.tool = tool, !.url = r, !.v = webCalls + 1]
    OBVIOUS
  <2>2. DOMAIN j = JobFields /\ j.at = at /\ j.got = W!NoJob.got /\ j.next = W!NoJob.next
    BY <2>1 DEF W!NoJob, JobFields
  <2>3. CallTyped(j)
    BY <2>2, NoCallTyped, NoJobIs DEF CallTyped
  <2> QED BY <1>1, <1>2, <2>1, <2>3 DEF CallBecomes
<1> QED BY <1>1, <1>2, AnswerTyped

LEMMA BrowsedTyped ==
    ASSUME BrowserInv, WebTyped, NEW c \in Callers, W!Browsed(c)
    PROVE  CallBecomes(c)
<1>1. PICK raw \in Crawls :
        \/ \E what : W!Answers(c, what)
        \/ /\ ~(\A p \in W!Range(W!PagesOf(raw)) : p.size = W!Stub)
           /\ job' = [job EXCEPT ![c].at = "save", ![c].got = W!PagesOf(raw)]
  BY Zenon DEF W!Browsed
<1>2. CASE /\ ~(\A p \in W!Range(W!PagesOf(raw)) : p.size = W!Stub)
           /\ job' = [job EXCEPT ![c].at = "save", ![c].got = W!PagesOf(raw)]
  <2>1. PICK got : got = W!PagesOf(raw)
    OBVIOUS
  <2>2. got \in Seq(Shots)
    <3>1. raw \in Seq(Shots)
      BY WebAssumption DEF Shots
    <3> QED BY <2>1, <3>1, PagesDistinct
  <2>3. W!Range(got) # {}
    BY <1>2, <2>1
  <2>4. Len(got) \in Nat /\ Len(got) # 0
    BY <2>2, <2>3 DEF W!Range
  <2>5. got # << >> /\ 1 \in DOMAIN got
    BY <2>2, <2>4
  <2>6. PICK j : j = [job[c] EXCEPT !.at = "save", !.got = got]
    OBVIOUS
  <2>7. job' = [job EXCEPT ![c] = j]
    BY <1>2, <2>1, <2>6 DEF BrowserInv, JobsShape
  <2>8. CallTyped(job[c]) /\ job[c].at = "browse"
    BY DEF WebTyped, W!Browsed
  <2>9. DOMAIN j = JobFields /\ j.at = "save" /\ j.got = got /\ j.next = job[c].next
    BY <2>6, <2>8 DEF CallTyped, JobFields
  <2>10. j.next = 1
    BY <2>8, <2>9 DEF CallTyped
  <2>11. CallTyped(j)
    BY <2>2, <2>5, <2>9, <2>10 DEF CallTyped
  <2> QED BY <2>7, <2>11 DEF CallBecomes
<1> QED BY <1>1, <1>2, AnswerTyped

LEMMA SavedTyped ==
    ASSUME BrowserInv, WebTyped, NEW c \in Callers, W!SavePage(c)
    PROVE  CallBecomes(c) /\ ArchiveTyped'
<1>1. CallTyped(job[c]) /\ job[c].at = "save" /\ job[c].url \in Roots
  BY DEF WebTyped, W!SavePage, BrowserInv, JobsShape
<1>2. PICK n : n = W!NameOf(c, job[c].got[job[c].next].url)
  OBVIOUS
<1>3. PICK p : p = job[c].got[job[c].next]
  OBVIOUS
<1>4. p \in Shots /\ job[c].next \in DOMAIN job[c].got
  BY <1>1, <1>3 DEF CallTyped
<1>5. PICK j : j = [job[c] EXCEPT !.claimed = W!Put(job[c].claimed, n, p.url),
                                  !.entries = Append(job[c].entries, [url |-> p.url, name |-> n]),
                                  !.next = job[c].next + 1,
                                  !.at = IF job[c].next = Len(job[c].got) THEN "index" ELSE "save"]
  OBVIOUS
<1>6. job' = [job EXCEPT ![c] = j]
  <2>1. job' = [job EXCEPT ![c] = [job[c] EXCEPT !.claimed = W!Put(job[c].claimed, n, p.url),
                                  !.entries = Append(job[c].entries, [url |-> p.url, name |-> n]),
                                  !.next = job[c].next + 1,
                                  !.at = IF job[c].next = Len(job[c].got) THEN "index" ELSE "save"]]
    BY <1>1, <1>2, <1>3 DEF W!SavePage, BrowserInv, JobsShape, CallTyped, JobFields
  <2> QED BY <1>5, <2>1
<1>7. /\ DOMAIN j = JobFields /\ j.got = job[c].got /\ j.next = job[c].next + 1
      /\ j.at = IF job[c].next = Len(job[c].got) THEN "index" ELSE "save"
  BY <1>1, <1>5 DEF CallTyped, JobFields
<1>8. job[c].got # << >> /\ Len(job[c].got) \in Nat /\ DOMAIN job[c].got = 1..Len(job[c].got) /\ job[c].got \in Seq(Shots)
  BY <1>1 DEF CallTyped
<1>9. j.next \in Nat /\ (j.at = "save" => j.next \in DOMAIN j.got)
  <2>1. PICK i, len : i = job[c].next /\ len = Len(job[c].got)
    OBVIOUS
  <2>2. i \in 1..len /\ len \in Nat /\ j.next = i + 1 /\ DOMAIN j.got = 1..len /\ (j.at = "save" => i # len)
    BY <1>4, <1>7, <1>8, <2>1
  <2> QED BY <2>2
<1>10. CallTyped(j)
  BY <1>7, <1>8, <1>9 DEF CallTyped
<1>11. W!Folder(c) \in W!Folders
  BY <1>1 DEF W!Folder, W!Folders
<1>12. files' = [files EXCEPT ![W!Folder(c)] = W!Put(files[W!Folder(c)], n, [url |-> p.url, v |-> job[c].v])]
  BY <1>2, <1>3, <1>11 DEF W!SavePage, WebTyped, ArchiveTyped
<1>13. p.url \in Pages
  BY <1>4 DEF Shots
<1>14. ASSUME NEW f \in W!Folders, NEW m \in DOMAIN files'[f] PROVE files'[f][m].url \in Pages
  <2>1. CASE f # W!Folder(c)
    BY <1>12, <1>14, <2>1 DEF WebTyped, ArchiveTyped
  <2>2. CASE f = W!Folder(c)
    <3>1. files'[f] = W!Put(files[f], n, [url |-> p.url, v |-> job[c].v])
      BY <1>11, <1>12, <2>2 DEF WebTyped, ArchiveTyped
    <3>2. files'[f][m] = [url |-> p.url, v |-> job[c].v] \/ (m \in DOMAIN files[f] /\ files'[f][m] = files[f][m])
      BY <1>14, <3>1 DEF W!Put
    <3> QED BY <1>13, <3>2 DEF WebTyped, ArchiveTyped
  <2> QED BY <2>1, <2>2
<1>15. DOMAIN files' = W!Folders /\ UNCHANGED <<index, now>>
  BY <1>12 DEF W!SavePage, WebTyped, ArchiveTyped
<1> QED BY <1>6, <1>10, <1>14, <1>15 DEF CallBecomes, WebTyped, ArchiveTyped, W!Folders

LEMMA OpenTyped ==
    ASSUME BrowserInv, WebTyped, NEW c \in Callers, W!OpenBrowser(c)
    PROVE  CallBecomes(c) /\ HoldersBrowse'
<1>1. CallBecomes(c) /\ job[c].at = "lock"
  BY GoTyped DEF W!OpenBrowser
<1>2. /\ DOMAIN job' = Callers /\ \A d \in Callers \ {c} : job'[d] = job[d]
      /\ job'[c].at = "browse" /\ job'[c].url = job[c].url
  BY JobGoes DEF W!OpenBrowser, BrowserInv
<1>3. ASSUME NEW p \in W!Profiles, holder'[p] # None
      PROVE  holder'[p] \in Callers /\ job'[holder'[p]].at = "browse" /\ Profile[job'[holder'[p]].url] = p
  <2>1. (holder'[p] = c /\ W!Needs(c) = p) \/ holder'[p] = holder[p]
    BY DEF W!OpenBrowser, BrowserInv, JobsShape
  <2>2. CASE holder'[p] = c /\ W!Needs(c) = p
    BY <1>2, <2>2 DEF W!Needs
  <2>3. CASE holder'[p] = holder[p]
    <3>1. holder[p] \in Callers /\ job[holder[p]].at = "browse" /\ Profile[job[holder[p]].url] = p
      BY <1>3, <2>3 DEF WebTyped, HoldersBrowse, W!Needs
    <3>2. holder[p] # c
      BY <1>1, <3>1
    <3>3. job'[holder'[p]] = job[holder[p]]
      BY <1>2, <2>3, <3>1, <3>2
    <3> QED BY <2>3, <3>1, <3>3
  <2> QED BY <2>1, <2>2, <2>3
<1> QED BY <1>1, <1>3 DEF HoldersBrowse, W!Needs

LEMMA IndexTyped ==
    ASSUME BrowserInv, WebTyped, NEW c \in Callers, W!SaveIndex(c)
    PROVE  ArchiveTyped'
<1>1. PICK r : r.at = now /\ index' = [index EXCEPT ![W!Folder(c)] = r]
  BY DEF W!SaveIndex
<1>2. \A f \in W!Folders : index'[f] = r \/ index'[f] = index[f]
  BY <1>1 DEF WebTyped, ArchiveTyped
<1>3. now \in 0..now /\ DOMAIN index' = W!Folders /\ UNCHANGED <<files, now>>
  BY <1>1, BoundsAssumption DEF W!SaveIndex, WebTyped, ArchiveTyped
<1> QED BY <1>1, <1>2, <1>3 DEF WebTyped, ArchiveTyped, W!Folders

LEMMA CallTypes ==
    ASSUME BrowserInv, WebTyped, NEW c \in Callers,
           W!BeginCrawl(c) \/ W!BeginRefresh(c) \/ W!BeginFetch(c) \/ W!SearchSite(c) \/ W!Step(c)
    PROVE  WebTyped'
<1>1. CASE W!BeginCrawl(c) \/ W!BeginRefresh(c) \/ W!BeginFetch(c)
  <2>1. PICK tool, at : at \in {"cache", "lock"} /\ W!Begin(c, tool, at)
    BY <1>1 DEF W!BeginCrawl, W!BeginRefresh, W!BeginFetch
  <2>2. CallBecomes(c)
    BY <2>1, BeginTyped
  <2>3. GivesBack(c) /\ UNCHANGED <<files, index, now>> /\ webCalls < MaxWebCalls /\ webCalls' = webCalls + 1
    BY <2>1 DEF W!Begin, W!drive, GivesBack
  <2>4. webCalls' \in 0..MaxWebCalls
    BY <2>3, BoundsAssumption DEF WebTyped
  <2>5. ArchiveTyped'
    BY <2>3 DEF WebTyped, ArchiveTyped, W!Folders
  <2> QED BY <2>2, <2>3, <2>4, <2>5, CallsKept, HoldersKept DEF WebTyped
<1>2. CASE W!SearchSite(c)
  <2>1. CallBecomes(c)
    BY <1>2, AnswerTyped DEF W!SearchSite
  <2>2. GivesBack(c) /\ UNCHANGED <<files, index, now>> /\ webCalls < MaxWebCalls /\ webCalls' = webCalls + 1
    BY <1>2 DEF W!SearchSite, W!drive, GivesBack
  <2>3. webCalls' \in 0..MaxWebCalls
    BY <2>2, BoundsAssumption DEF WebTyped
  <2>4. ArchiveTyped'
    BY <2>2 DEF WebTyped, ArchiveTyped, W!Folders
  <2> QED BY <2>1, <2>2, <2>3, <2>4, CallsKept, HoldersKept DEF WebTyped
<1>3. ASSUME CallBecomes(c), HoldersBrowse', ArchiveTyped', UNCHANGED webCalls PROVE WebTyped'
  BY <1>3, CallsKept DEF WebTyped
<1>4. UNCHANGED <<files, index, now>> => ArchiveTyped'
  BY DEF WebTyped, ArchiveTyped, W!Folders
<1>5. CASE W!ReadManifest(c)
  <2>1. CallBecomes(c)
    <3>1. job[c].at = "cache" /\ (W!Goes(c, "lock") \/ W!Answers(c, "cached"))
      BY <1>5 DEF W!ReadManifest
    <3> QED BY <3>1, GoTyped, AnswerTyped
  <2>2. GivesBack(c) /\ UNCHANGED <<files, index, now, webCalls>>
    BY <1>5 DEF W!ReadManifest, W!drive, GivesBack
  <2> QED BY <1>3, <1>4, <2>1, <2>2, HoldersKept
<1>6. CASE W!OpenBrowser(c)
  <2>1. UNCHANGED <<files, index, now, webCalls>>
    BY <1>6 DEF W!OpenBrowser, W!drive
  <2> QED BY <1>3, <1>4, <1>6, <2>1, OpenTyped
<1>7. CASE W!WaitedTooLong(c) \/ W!DriveFails(c) \/ W!BrowserFails(c)
  <2>1. CallBecomes(c)
    BY <1>7, AnswerTyped DEF W!WaitedTooLong, W!DriveFails, W!BrowserFails
  <2>2. GivesBack(c) /\ UNCHANGED <<files, index, now, webCalls>>
    BY <1>7 DEF W!WaitedTooLong, W!DriveFails, W!BrowserFails, W!drive, GivesBack
  <2> QED BY <1>3, <1>4, <2>1, <2>2, HoldersKept
<1>8. CASE W!Browsed(c)
  <2>1. GivesBack(c) /\ UNCHANGED <<files, index, now, webCalls>>
    BY <1>8 DEF W!Browsed, W!drive, GivesBack
  <2> QED BY <1>3, <1>4, <1>8, <2>1, BrowsedTyped, HoldersKept
<1>9. CASE W!SavePage(c)
  <2>1. GivesBack(c) /\ UNCHANGED webCalls
    BY <1>9 DEF W!SavePage, GivesBack
  <2> QED BY <1>3, <1>9, <2>1, SavedTyped, HoldersKept
<1>10. CASE W!SaveIndex(c)
  <2>1. GivesBack(c) /\ UNCHANGED webCalls /\ CallBecomes(c)
    BY <1>10, AnswerTyped DEF W!SaveIndex, GivesBack
  <2> QED BY <1>3, <1>10, <2>1, IndexTyped, HoldersKept
<1> QED BY <1>1, <1>2, <1>5, <1>6, <1>7, <1>8, <1>9, <1>10 DEF W!Step

LEMMA WebTypesStep == BrowserInv /\ WebTyped /\ [W!Next]_(W!vars) => WebTyped'
<1> SUFFICES ASSUME BrowserInv, WebTyped, [W!Next]_(W!vars) PROVE WebTyped'
  OBVIOUS
<1>1. ASSUME UNCHANGED <<job, holder, files, index, webCalls>>, now' \in 0..MaxTime, now <= now' PROVE WebTyped'
  <2>1. (\A c \in Callers : CallTyped(job'[c])) /\ HoldersBrowse'
    BY <1>1 DEF WebTyped, HoldersBrowse, W!Needs
  <2>2. now \in Nat /\ now' \in Nat /\ \A i \in 0..now : i \in 0..now'
    BY <1>1, BoundsAssumption DEF WebTyped, ArchiveTyped
  <2>3. ArchiveTyped'
    BY <1>1, <2>2 DEF WebTyped, ArchiveTyped, W!Folders
  <2> QED BY <1>1, <2>1, <2>3 DEF WebTyped
<1>2. CASE W!Tick
  <2>1. now' \in 0..MaxTime /\ now <= now'
    BY <1>2, BoundsAssumption DEF W!Tick, WebTyped, ArchiveTyped
  <2> QED BY <1>1, <1>2, <2>1 DEF W!Tick, W!drive
<1>3. CASE UNCHANGED W!vars
  <2>1. now' \in 0..MaxTime /\ now <= now'
    BY <1>3, BoundsAssumption DEF W!vars, WebTyped, ArchiveTyped
  <2> QED BY <1>1, <1>3, <2>1 DEF W!vars, W!drive
<1> QED BY <1>2, <1>3, CallTypes DEF W!Next

LEMMA WebTypes == WebTyped => W!TypeOK
<1> SUFFICES ASSUME WebTyped PROVE W!TypeOK
  OBVIOUS
<1>1. \A f \in W!Folders : index[f] # None => index[f].at <= now
  BY BoundsAssumption DEF WebTyped, ArchiveTyped
<1>2. \A p \in W!Profiles : holder[p] # None => job[holder[p]].at = "browse"
  BY DEF WebTyped, HoldersBrowse
<1>3. \A f \in W!Folders : \A n \in DOMAIN files[f] : files[f][n].url \in Pages
  BY DEF WebTyped, ArchiveTyped
<1>4. now \in 0..MaxTime /\ webCalls \in 0..MaxWebCalls
  BY DEF WebTyped, ArchiveTyped
<1>5. \A c \in Callers : /\ job[c].at \in {"idle", "cache", "lock", "browse", "save", "index"}
                         /\ job[c].at \in {"save", "index"} => job[c].got # << >>
  BY DEF WebTyped, CallTyped
<1> QED BY <1>1, <1>2, <1>3, <1>4, <1>5 DEF W!TypeOK

(* Every service of the desk is in a state of its type, whatever the number *)
(* of contracts, bars, alerts, threads and days: what a call keeps of its   *)
(* progress is never outside what the code can mean by it.  The quantities  *)
(* of a bracket are among those that the model has room for.                *)
THEOREM DeskIsTyped == SizesInBounds => (Spec => []TypeOK)
<1> DEFINE Services ==
             /\ part \in Parts
             /\ SessionTyped /\ HistoryTyped /\ BracketTyped /\ DialogTyped /\ WebTyped
             /\ BacktestTyped /\ ContractTyped /\ AlertsTyped /\ CoverageTyped
           Others == SessionInv /\ HistoryInv /\ BrowserInv /\ ContractInv /\ PatchInv
<1> SUFFICES ASSUME SizesInBounds PROVE Spec => []TypeOK
  OBVIOUS
<1>1. Init => Services
  <2>1. Init => part \in Parts
    BY DEF Init
  <2> QED BY <2>1, SessionPart, HistoryPart, BracketPart, DialogPart, WebPart, BacktestPart, ContractPart,
             AlertsPart, CoveragePart, SessionTypesInit, HistoryTypesInit, BracketTypesInit, DialogTypesInit,
             WebTypesInit, BacktestTypesInit, ContractTypesInit, AlertTypesInit, CoverageTypesInit
<1>2. Init => Others
  BY SessionPart, HistoryPart, WebPart, ContractPart, AlertsPart,
     SessionInit, HistoryInit, BrowserInit, ContractInit, PatchInit
<1>3. Others /\ [Next]_everything => Others'
  <2>1. SessionInv /\ [S!Next]_(S!vars) => SessionInv'
    BY StartupEffect, SessionOthers
  <2> QED BY <2>1, SessionPart, HistoryPart, WebPart, ContractPart, AlertsPart,
             HistoryStep, BrowserStep, ContractStep, PatchStep
<1>4. Others /\ Services /\ [Next]_everything => Services'
  <2>1. part \in Parts /\ [Next]_everything => part' \in Parts
    BY Zenon DEF Next, everything
  <2> QED BY <2>1, SessionPart, HistoryPart, BracketPart, DialogPart, WebPart, BacktestPart, ContractPart,
             AlertsPart, CoveragePart, SessionTypesStep, HistoryTypesStep, BracketTypesStep, DialogTypesStep,
             WebTypesStep, BacktestTypesStep, ContractTypesStep, AlertTypesStep, CoverageTypesStep
<1>5. Others /\ Services => TypeOK
  BY SessionTypes, HistoryTypes, BracketTypes, DialogTypes, WebTypes, BacktestTypes, ContractTypes,
     AlertTypes, CoverageTypes DEF TypeOK
<1> QED BY <1>1, <1>2, <1>3, <1>4, <1>5, PTL DEF Spec
===============================================================================
