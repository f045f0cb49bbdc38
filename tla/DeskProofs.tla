------------------------------ MODULE DeskProofs ------------------------------
(***************************************************************************)
(* Theorems of ToolDesk about the services that wait for something outside *)
(* the process: the gateway session and its reads, the browser profiles    *)
(* and the archive of what they read, the confirmation dialog, the         *)
(* backtest child and its trades, and the contract a symbol means.  Each   *)
(* has an inductive invariant of its own; a step of the desk is a step of  *)
(* one service or leaves it as it is.                                      *)
(***************************************************************************)
EXTENDS ToolDesk, SequenceTheorems, FiniteSetTheorems, WellFoundedInduction, TLAPS

(* What a behaviour of the desk is to one of its services.                 *)
LEMMA SessionPart == (Init => S!Init) /\ ([Next]_everything => [S!Next]_(S!vars))
  BY DEF Init, Next, everything, sessionState, S!vars, S!host, S!market

LEMMA WebPart == (Init => W!Init) /\ ([Next]_everything => [W!Next]_(W!vars))
  BY DEF Init, Next, everything, webState, W!vars, W!drive

LEMMA DialogPart == (Init => D!Init) /\ ([Next]_everything => [D!Next]_(D!vars))
  BY DEF Init, Next, everything, dialogState, D!vars

LEMMA BacktestPart == (Init => T!Init) /\ ([Next]_everything => [T!Next]_(T!vars))
  BY DEF Init, Next, everything, backtestState, T!vars

(***************************************************************************)
(* A startup ends no session, for any contracts and however often Docker,  *)
(* the container and the session come and go meanwhile (GatewaySession,    *)
(* gateway/manager.py), where docker inspect sees the container that runs. *)
(* A container is removed only at "exists", and a startup that is free of  *)
(* this blindness is on its way there only while none runs: nothing else   *)
(* starts one, so that what StartUnlessRunning saw stays true until the    *)
(* old one is removed.                                                     *)
(***************************************************************************)
SessionShape ==
    /\ DOMAIN gw = {"up", "auth", "asked", "id"}
    /\ DOMAIN startup = {"at", "polls", "free"}

SessionInv ==
    /\ SessionShape
    /\ gw.up \/ gw.auth => container = "running"
    /\ startup.at \in {"start", "relaunch", "exists"} => container # "running" \/ startup.free

LEMMA SessionInit == S!Init => SessionInv
<1> SUFFICES ASSUME S!Init PROVE SessionInv
  OBVIOUS
<1>1. startup.at = "idle" /\ DOMAIN startup = {"at", "polls", "free"}
  BY DEF S!Init
<1>2. CASE container = "absent" /\ gw = S!Down
  BY <1>1, <1>2 DEF SessionInv, SessionShape, S!Down
<1>3. CASE container = "running" /\ gw \in [up : {TRUE}, auth : BOOLEAN, asked : {FALSE}, id : {0}]
  BY <1>1, <1>3 DEF SessionInv, SessionShape
<1> QED BY <1>2, <1>3 DEF S!Init

\* Nobody is logged in on what Down describes; a status changes no session.
LEMMA DownIsDown ==
    /\ ~[S!Down EXCEPT !.id = gw.id].auth /\ ~[S!Down EXCEPT !.id = gw.id].up
    /\ DOMAIN [S!Down EXCEPT !.id = gw.id] = {"up", "auth", "asked", "id"}
  BY DEF S!Down

LEMMA AskedKeeps ==
    SessionShape /\ S!Asked =>
        /\ DOMAIN gw' = {"up", "auth", "asked", "id"}
        /\ gw'.up = gw.up /\ gw'.auth = gw.auth /\ gw'.id = gw.id
  BY DEF SessionShape, S!Asked

\* Where the startup may be after a step: a wait stays or ends at one of its two ends.
LEMMA GoesThere ==
    ASSUME SessionShape, NEW at, S!Goes(at)
    PROVE  startup'.at = at /\ startup'.free = startup.free /\ DOMAIN startup' = {"at", "polls", "free"}
  BY DEF S!Goes, SessionShape

LEMMA StaysThere ==
    ASSUME SessionShape, startup' = [startup EXCEPT !.polls = @ + 1]
    PROVE  startup'.at = startup.at /\ startup'.free = startup.free /\ DOMAIN startup' = {"at", "polls", "free"}
  BY DEF SessionShape

LEMMA PollGoes ==
    ASSUME SessionShape, NEW at, NEW ready, NEW yes, NEW no, S!PollUntil(at, ready, yes, no)
    PROVE  startup'.at \in {at, yes, no} /\ DOMAIN startup' = {"at", "polls", "free"}
  BY GoesThere, StaysThere DEF S!PollUntil

\* ensure_docker_running stays in its place, goes on or fails, and touches nothing.
LEMMA DockerGoes ==
    ASSUME SessionShape, NEW at, NEW launch, NEW next,
           S!EnsureDocker(at, launch, next) \/ S!WaitDocker(launch, next)
    PROVE  /\ startup.at \in {at, launch} /\ startup'.at \in {launch, next, "failed"}
           /\ startup'.free = startup.free /\ DOMAIN startup' = {"at", "polls", "free"}
           /\ UNCHANGED <<gw, container>>
<1>1. CASE S!EnsureDocker(at, launch, next)
  BY <1>1, GoesThere DEF S!EnsureDocker, S!host
<1>2. CASE S!WaitDocker(launch, next)
  BY <1>2, GoesThere, StaysThere DEF S!WaitDocker, S!host
<1> QED BY <1>1, <1>2

\* What is removed leaves no container running and no session.
LEMMA RemovedLeaves ==
    ASSUME SessionShape, S!Removed
    PROVE  container' # "running" /\ ~gw'.auth /\ ~gw'.up /\ DOMAIN gw' = {"up", "auth", "asked", "id"}
  BY DownIsDown DEF S!Removed

\* No step of a startup changes the session or starts a container beside one that runs.
LEMMA StartupEffect ==
    ASSUME SessionInv, S!StartupStep
    PROVE  SessionInv' /\ (gw.auth /\ ~startup.free => gw'.auth /\ gw'.id = gw.id)
<1>1. CASE \/ S!EnsureDocker("docker", "launch", "adopt") \/ S!WaitDocker("launch", "adopt")
           \/ S!EnsureDocker("start", "relaunch", "exists") \/ S!WaitDocker("relaunch", "exists")
  <2>1. CASE S!EnsureDocker("docker", "launch", "adopt") \/ S!WaitDocker("launch", "adopt")
    <3>1. /\ startup'.at \in {"launch", "adopt", "failed"} /\ DOMAIN startup' = {"at", "polls", "free"}
          /\ UNCHANGED <<gw, container>>
      BY <2>1, DockerGoes DEF SessionInv
    <3> QED BY <3>1 DEF SessionInv, SessionShape
  <2>2. CASE S!EnsureDocker("start", "relaunch", "exists") \/ S!WaitDocker("relaunch", "exists")
    <3>1. /\ startup.at \in {"start", "relaunch"} /\ startup'.free = startup.free
          /\ DOMAIN startup' = {"at", "polls", "free"} /\ UNCHANGED <<gw, container>>
      BY <2>2, DockerGoes DEF SessionInv
    <3> QED BY <3>1 DEF SessionInv, SessionShape
  <2> QED BY <1>1, <2>1, <2>2
<1>2. CASE S!Adopt \/ S!WaitGateway \/ S!EnterPressed
  <2>1. UNCHANGED <<gw, container>>
    BY <1>2 DEF S!Adopt, S!WaitGateway, S!EnterPressed, S!host
  <2>2. startup'.at \notin {"start", "relaunch", "exists"} /\ DOMAIN startup' = {"at", "polls", "free"}
    <3>1. CASE S!Adopt
      BY <3>1, GoesThere DEF S!Adopt, SessionInv
    <3>2. CASE S!EnterPressed
      BY <3>2, GoesThere DEF S!EnterPressed, SessionInv
    <3>3. CASE S!WaitGateway
      BY <3>3, PollGoes DEF S!WaitGateway, SessionInv
    <3> QED BY <1>2, <3>1, <3>2, <3>3
  <2> QED BY <2>1, <2>2 DEF SessionInv, SessionShape
<1>3. CASE S!StartUnlessRunning
  <2>1. UNCHANGED <<gw, container>>
    BY <1>3 DEF S!StartUnlessRunning, S!host
  <2>2. /\ startup'.at \in {"start", "relaunch", "exists"} => container # "running" \/ startup'.free
        /\ DOMAIN startup' = {"at", "polls", "free"}
    <3>1. CASE container = "running" /\ S!Goes("reach")
      BY <3>1, GoesThere DEF SessionInv
    <3>2. CASE startup' = [at |-> "start", polls |-> 0, free |-> container = "running"]
      BY <3>2
    <3> QED BY <1>3, <3>1, <3>2 DEF S!StartUnlessRunning
  <2> QED BY <2>1, <2>2 DEF SessionInv, SessionShape
<1>4. CASE S!AdoptAuth \/ S!WaitAuth \/ S!EnterAgain
  <2>1. /\ DOMAIN gw' = {"up", "auth", "asked", "id"}
        /\ gw'.up = gw.up /\ gw'.auth = gw.auth /\ gw'.id = gw.id
        /\ container' = container
    BY <1>4, AskedKeeps DEF S!AdoptAuth, S!WaitAuth, S!EnterAgain, S!host, SessionInv
  <2>2. startup'.at \notin {"start", "relaunch", "exists"} /\ DOMAIN startup' = {"at", "polls", "free"}
    <3>1. CASE S!AdoptAuth
      <4>1. S!Goes("ready") \/ S!Goes("run")
        BY <3>1 DEF S!AdoptAuth
      <4> QED BY <4>1, GoesThere DEF SessionInv
    <3>2. CASE S!EnterAgain
      <4>1. S!Goes("ready") \/ S!Goes("failed")
        BY <3>2 DEF S!EnterAgain
      <4> QED BY <4>1, GoesThere DEF SessionInv
    <3>3. CASE S!WaitAuth
      BY <3>3, PollGoes DEF S!WaitAuth, SessionInv
    <3> QED BY <1>4, <3>1, <3>3, <3>2
  <2> QED BY <2>1, <2>2 DEF SessionInv, SessionShape
<1>5. CASE S!RemoveOld
  <2>1. ~startup.free => ~gw.auth
    BY <1>5 DEF S!RemoveOld, SessionInv
  <2>2. startup'.at \in {"build", "create"} /\ DOMAIN startup' = {"at", "polls", "free"}
    BY <1>5, GoesThere DEF S!RemoveOld, SessionInv
  <2>3. CASE S!Removed
    <3>1. container' # "running" /\ ~gw'.auth /\ ~gw'.up /\ DOMAIN gw' = {"up", "auth", "asked", "id"}
      BY <2>3, RemovedLeaves DEF SessionInv
    <3> QED BY <2>1, <2>2, <3>1 DEF SessionInv, SessionShape
  <2>4. CASE S!NotRemoved
    BY <2>2, <2>4 DEF S!NotRemoved, SessionInv, SessionShape
  <2> QED BY <1>5, <2>3, <2>4 DEF S!RemoveOld
<1>6. CASE S!BuildImage \/ S!RunContainer
  <2>1. gw' = gw /\ (container' = container \/ (container = "absent" /\ container' = "running"))
    BY <1>6 DEF S!BuildImage, S!RunContainer
  <2>2. startup'.at \notin {"start", "relaunch", "exists"} /\ DOMAIN startup' = {"at", "polls", "free"}
    <3>1. CASE S!BuildImage
      BY <3>1, GoesThere DEF S!BuildImage, SessionInv
    <3>2. CASE S!RunContainer
      BY <3>2, GoesThere DEF S!RunContainer, SessionInv
    <3> QED BY <1>6, <3>1, <3>2
  <2> QED BY <2>1, <2>2 DEF SessionInv, SessionShape
<1> QED BY <1>1, <1>2, <1>3, <1>4, <1>5, <1>6 DEF S!StartupStep

LEMMA SessionOthers ==
    ASSUME SessionInv, [S!Next]_(S!vars), ~S!StartupStep
    PROVE  SessionInv'
<1>1. CASE S!BeginStartup
  BY <1>1 DEF S!BeginStartup, S!Begins, S!host, SessionInv, SessionShape
<1>2. CASE S!Restart
  <2>1. startup'.free /\ DOMAIN startup' = {"at", "polls", "free"}
    BY <1>2 DEF S!Restart, S!Begins
  <2>2. CASE S!Removed
    BY <2>1, <2>2, RemovedLeaves DEF SessionInv, SessionShape
  <2>3. CASE S!NotRemoved
    BY <2>1, <2>3 DEF S!NotRemoved, SessionInv, SessionShape
  <2> QED BY <1>2, <2>2, <2>3 DEF S!Restart
<1>3. CASE S!ReadStep
  <2>1. UNCHANGED <<container, startup>> /\ (UNCHANGED gw \/ S!Asked)
    BY <1>3, Zenon DEF S!ReadStep, S!OrdersStep, S!OrdersFirst, S!OrdersPrime, S!OrdersSecond, S!TradesStep, S!TradesFirst, S!TradesSecond,
       S!PnlStep, S!PnlFirst, S!PnlPrime, S!PnlPrimeFails, S!PnlSecond, S!PnlRead, S!SnapshotStep, S!SnapshotFirst, S!SnapshotSecond,
       S!Raises, S!Ping, S!Client, S!host
  <2> QED BY <2>1, AskedKeeps DEF SessionInv, SessionShape
<1>4. CASE S!BeginOrders \/ S!BeginTrades \/ S!BeginPnl \/ S!BeginSnapshot \/ S!BeginPing \/ S!WarmOne \/ UNCHANGED S!vars
  BY <1>4 DEF S!BeginOrders, S!BeginTrades, S!BeginPnl, S!BeginSnapshot, S!BeginPing, S!BeginRead, S!WarmOne, S!host, S!vars, SessionInv, SessionShape
<1>5. CASE S!DockerReady \/ S!BookChanges \/ S!TradeHappens
  BY <1>5 DEF S!DockerReady, S!BookChanges, S!TradeHappens, S!Event, S!host, SessionInv, SessionShape
<1>6. CASE S!JavaUp
  BY <1>6 DEF S!JavaUp, S!Event, S!host, SessionInv, SessionShape
<1>7. CASE S!Login
  BY <1>7 DEF S!Login, S!Event, S!host, SessionInv, SessionShape
<1>8. CASE S!SessionEnds
  BY <1>8 DEF S!SessionEnds, S!Event, S!host, SessionInv, SessionShape
<1>9. CASE S!ContainerDies \/ S!DockerStops
  BY <1>9, DownIsDown DEF S!ContainerDies, S!DockerStops, S!Event, SessionInv, SessionShape
<1> QED BY <1>1, <1>2, <1>3, <1>4, <1>5, <1>6, <1>7, <1>9, <1>8 DEF S!Next, S!Environment

(* No step of a startup ends a session that is authenticated (startup,      *)
(* GatewayManager: "A RUNNING container is left alone"), unless docker      *)
(* inspect did not see the container that runs.                             *)
THEOREM StartupKeepsSession == Spec => SessionKept
<1>1. SessionInv /\ [S!Next]_(S!vars) => SessionInv'
  BY StartupEffect, SessionOthers
<1>2. SessionInv /\ [S!Next]_(S!vars) =>
        [S!StartupStep /\ gw.auth /\ ~startup.free => gw'.auth /\ gw'.id = gw.id]_(S!vars)
  BY StartupEffect
<1> QED BY SessionInit, SessionPart, <1>1, <1>2, PTL DEF Spec, SessionKept, S!SessionKept

(***************************************************************************)
(* What a read says is so (client.py, claude_tools.py).  The invariant     *)
(* ties a read to the session in which it began: what its first request    *)
(* has set up is there as long as that session is, a login makes another,  *)
(* and an answer is judged only in the session that it came from.          *)
(***************************************************************************)
Flags(r) == r.working \in BOOLEAN /\ r.traded \in BOOLEAN /\ r.auth \in BOOLEAN

ReadShape ==
    /\ DOMAIN read = {"op", "at", "id", "working", "traded", "auth"}
    /\ DOMAIN sessionAnswer = {"op", "says", "id", "working", "traded", "auth", "dead"}
    /\ read.id \in Nat /\ sessionAnswer.id \in Nat /\ gw.id \in Nat
    /\ read.id <= gw.id /\ sessionAnswer.id <= gw.id

Witnessed ==
    /\ read.working => S!Working(book)
    /\ read.traded => sessionTraded
    /\ read.auth => gw.auth
    /\ gw.auth => gw.up

\* What the first request of a read has set up in the session it began in.
Primed ==
    gw.auth /\ read.id = gw.id =>
        /\ read.op = "orders" /\ read.at = "second" => "orders" \in warm
        /\ read.op = "trades" /\ read.at = "second" => "trades" \in warm
        /\ read.op = "snapshot" /\ read.at = "second" => Conids \subseteq warm
        /\ read.op = "ping" /\ read.at = "tickle" => gw.asked

ReadInv == ReadShape /\ Witnessed /\ Primed /\ S!EmptyMeansNone /\ S!NotSubscribedIsTrue

LEMMA ReadInit == S!Init => ReadInv
<1> SUFFICES ASSUME S!Init PROVE ReadInv
  OBVIOUS
<1>1. gw.id = 0 /\ (gw.auth => gw.up)
  <2>1. CASE gw = S!Down
    BY <2>1 DEF S!Down
  <2>2. CASE gw \in [up : {TRUE}, auth : BOOLEAN, asked : {FALSE}, id : {0}]
    BY <2>2
  <2> QED BY <2>1, <2>2 DEF S!Init
<1>2. /\ read.at = "idle" /\ read.id = 0 /\ ~read.working /\ ~read.traded /\ ~read.auth
      /\ DOMAIN read = {"op", "at", "id", "working", "traded", "auth"}
  BY DEF S!Init, S!NoRead
<1>3. /\ sessionAnswer.op = None /\ sessionAnswer.says = None /\ sessionAnswer.id = 0
      /\ DOMAIN sessionAnswer = {"op", "says", "id", "working", "traded", "auth", "dead"}
  BY DEF S!Init, S!NoAnswer
<1> QED BY <1>1, <1>2, <1>3 DEF ReadInv, ReadShape, Witnessed, Primed, S!EmptyMeansNone, S!NotSubscribedIsTrue

\* A step that leaves the read, the answer, the subscriptions and the market alone,
\* and of the session at most its "asked", leaves the invariant alone.
LEMMA ManagerKeeps ==
    ASSUME SessionInv, ReadInv, UNCHANGED <<warm, S!market, read, sessionAnswer>>, UNCHANGED gw \/ S!Asked
    PROVE  ReadInv'
<1>1. gw'.up = gw.up /\ gw'.auth = gw.auth /\ gw'.id = gw.id /\ (gw.asked => gw'.asked)
  BY AskedKeeps DEF SessionInv, SessionShape, S!Asked
<1> QED BY <1>1 DEF ReadInv, ReadShape, Witnessed, Primed, S!EmptyMeansNone, S!NotSubscribedIsTrue, S!market

\* The end of a session: nothing that was primed in it counts any more.
LEMMA EndKeeps ==
    ASSUME ReadInv, UNCHANGED <<S!market, sessionAnswer>>, read' = [read EXCEPT !.auth = FALSE],
           ~gw'.auth, gw'.id = gw.id
    PROVE  ReadInv'
  BY DEF ReadInv, ReadShape, Witnessed, Primed, S!EmptyMeansNone, S!NotSubscribedIsTrue, S!market

LEMMA DownIs ==
    ASSUME SessionInv
    PROVE  ~[S!Down EXCEPT !.id = gw.id].auth /\ [S!Down EXCEPT !.id = gw.id].id = gw.id
  BY DEF S!Down

LEMMA ReplyKeeps ==
    ASSUME SessionInv, ReadInv, NEW word, NEW dead, S!Reply(word, dead), S!Client, UNCHANGED gw \/ S!Asked,
           read.id = gw.id =>
             /\ read.op = "orders" /\ word = "none" => ~read.working
             /\ read.op = "trades" /\ word = "none" => ~read.traded
             /\ read.op = "ping" /\ word = "no" => ~read.auth
             /\ read.op = "snapshot" /\ word = "quotes" => dead \cap Entitled = {} \/ Conids \ dead # {}
    PROVE  ReadInv'
<1>1. gw'.up = gw.up /\ gw'.auth = gw.auth /\ gw'.id = gw.id
  BY AskedKeeps DEF SessionInv
<1>2. /\ sessionAnswer'.op = read.op /\ sessionAnswer'.says = word /\ sessionAnswer'.id = read.id
      /\ sessionAnswer'.working = read.working /\ sessionAnswer'.traded = read.traded /\ sessionAnswer'.auth = read.auth
      /\ sessionAnswer'.dead = dead
      /\ DOMAIN sessionAnswer' = {"op", "says", "id", "working", "traded", "auth", "dead"}
  BY DEF S!Reply
<1>3. /\ read'.at = "idle" /\ read'.id = 0 /\ ~read'.working /\ ~read'.traded /\ ~read'.auth
      /\ DOMAIN read' = {"op", "at", "id", "working", "traded", "auth"}
  BY DEF S!Reply, S!NoRead
<1>4. ReadShape' /\ Witnessed' /\ Primed'
  BY <1>1, <1>2, <1>3 DEF ReadInv, ReadShape, Witnessed, Primed
<1>5. S!EmptyMeansNone' /\ S!NotSubscribedIsTrue'
  BY <1>1, <1>2 DEF S!EmptyMeansNone, S!NotSubscribedIsTrue
<1> QED BY <1>4, <1>5 DEF ReadInv

LEMMA ThenKeeps ==
    ASSUME SessionInv, ReadInv, NEW at, S!Then(at), S!Client, UNCHANGED gw \/ S!Asked,
           gw.auth /\ read.id = gw.id =>
             /\ read.op = "orders" /\ at = "second" => "orders" \in warm'
             /\ read.op = "trades" /\ at = "second" => "trades" \in warm'
             /\ read.op = "snapshot" /\ at = "second" => Conids \subseteq warm'
             /\ read.op = "ping" /\ at = "tickle" => gw'.asked
    PROVE  ReadInv'
<1>1. gw'.up = gw.up /\ gw'.auth = gw.auth /\ gw'.id = gw.id
  BY AskedKeeps DEF SessionInv
<1>2. /\ read'.op = read.op /\ read'.at = at /\ read'.id = read.id /\ read'.working = read.working
      /\ read'.traded = read.traded /\ read'.auth = read.auth
      /\ DOMAIN read' = {"op", "at", "id", "working", "traded", "auth"} /\ sessionAnswer' = sessionAnswer
  BY DEF S!Then, ReadInv, ReadShape
<1>3. book' = book /\ sessionTraded' = sessionTraded
  BY DEF S!Client, S!market
<1> QED BY <1>1, <1>2, <1>3 DEF ReadInv, ReadShape, Witnessed, Primed, S!EmptyMeansNone, S!NotSubscribedIsTrue

LEMMA OrdersKeeps == SessionInv /\ ReadInv /\ S!OrdersStep => ReadInv'
<1> SUFFICES ASSUME SessionInv, ReadInv, S!OrdersStep PROVE ReadInv'
  OBVIOUS
<1>1. CASE S!OrdersFirst
  <2> DEFINE list == IF "orders" \in warm THEN book ELSE {}
             word == IF S!Working(list) THEN "some" ELSE "none"
  <2>1. read.op = "orders" /\ S!AfterFirstOrders(list) /\ S!Client /\ gw' = gw
    BY <1>1 DEF S!OrdersFirst
  <2>2. CASE list = {}
    <3>1. S!Then("prime")
      BY <2>1, <2>2 DEF S!AfterFirstOrders
    <3> QED BY <2>1, <3>1, ThenKeeps
  <2>3. CASE list # {}
    <3>1. S!Reply(word, {}) /\ list = book
      BY <2>1, <2>3 DEF S!AfterFirstOrders
    <3>2. word = "none" => ~read.working
      BY <3>1 DEF ReadInv, Witnessed
    <3> HIDE DEF word
    <3> QED BY <2>1, <3>1, <3>2, ReplyKeeps
  <2> QED BY <2>2, <2>3
<1>2. CASE S!OrdersPrime
  <2>1. S!Then("second") /\ read.op = "orders" /\ "orders" \in warm' /\ S!Client /\ gw' = gw
    BY <1>2 DEF S!OrdersPrime
  <2> QED BY <2>1, ThenKeeps
<1>3. CASE S!OrdersSecond
  <2> DEFINE word == IF "orders" \in warm /\ S!Working(book) THEN "some" ELSE "none"
  <2>1. S!Reply(word, {}) /\ S!Client /\ gw' = gw /\ read.op = "orders"
    BY <1>3 DEF S!OrdersSecond
  <2>2. read.id = gw.id /\ word = "none" => ~read.working
    BY <1>3 DEF S!OrdersSecond, ReadInv, Witnessed, Primed
  <2> HIDE DEF word
  <2> QED BY <2>1, <2>2, ReplyKeeps
<1>4. CASE S!Raises("orders")
  <2>1. S!Reply("raised", {}) /\ S!Client /\ gw' = gw
    BY <1>4 DEF S!Raises
  <2> QED BY <2>1, ReplyKeeps
<1> QED BY <1>1, <1>2, <1>3, <1>4 DEF S!OrdersStep

LEMMA TradesKeeps == SessionInv /\ ReadInv /\ S!TradesStep => ReadInv'
<1> SUFFICES ASSUME SessionInv, ReadInv, S!TradesStep PROVE ReadInv'
  OBVIOUS
<1>1. CASE S!TradesFirst
  <2>1. read.op = "trades" /\ S!Client /\ gw' = gw /\ "trades" \in warm'
    BY <1>1 DEF S!TradesFirst
  <2>2. CASE S!Reply("some", {})
    BY <2>1, <2>2, ReplyKeeps
  <2>3. CASE S!Then("second")
    BY <2>1, <2>3, ThenKeeps
  <2> QED BY <1>1, <2>2, <2>3 DEF S!TradesFirst
<1>2. CASE S!TradesSecond
  <2> DEFINE word == IF "trades" \in warm /\ sessionTraded THEN "some" ELSE "none"
  <2>1. (S!Reply(word, {}) \/ S!Reply("unread", {})) /\ S!Client /\ gw' = gw /\ read.op = "trades"
    BY <1>2 DEF S!TradesSecond
  <2>2. read.id = gw.id /\ word = "none" => ~read.traded
    BY <1>2 DEF S!TradesSecond, ReadInv, Witnessed, Primed
  <2> HIDE DEF word
  <2>3. CASE S!Reply(word, {})
    BY <2>1, <2>2, <2>3, ReplyKeeps
  <2>4. CASE S!Reply("unread", {})
    BY <2>1, <2>4, ReplyKeeps
  <2> QED BY <2>1, <2>3, <2>4
<1>3. CASE S!Raises("trades")
  <2>1. S!Reply("raised", {}) /\ S!Client /\ gw' = gw
    BY <1>3 DEF S!Raises
  <2> QED BY <2>1, ReplyKeeps
<1> QED BY <1>1, <1>2, <1>3 DEF S!TradesStep

LEMMA PnlKeeps == SessionInv /\ ReadInv /\ S!PnlStep => ReadInv'
<1> SUFFICES ASSUME SessionInv, ReadInv, S!PnlStep PROVE ReadInv'
  OBVIOUS
<1>1. read.op = "pnl" /\ S!Client /\ gw' = gw
  BY DEF S!PnlStep, S!PnlFirst, S!PnlPrime, S!PnlPrimeFails, S!PnlSecond, S!PnlRead, S!Raises
<1>2. \/ \E at \in {"prime", "second"} : S!Then(at)
      \/ \E word \in {"some", "no_data", "raised"} : S!Reply(word, {})
  BY Zenon DEF S!PnlStep, S!PnlFirst, S!PnlPrime, S!PnlPrimeFails, S!PnlSecond, S!PnlRead, S!Raises
<1>3. CASE \E at \in {"prime", "second"} : S!Then(at)
  BY <1>1, <1>3, ThenKeeps
<1>4. CASE \E word \in {"some", "no_data", "raised"} : S!Reply(word, {})
  BY <1>1, <1>4, ReplyKeeps
<1> QED BY <1>2, <1>3, <1>4

LEMMA SnapshotKeeps == SessionInv /\ ReadInv /\ S!SnapshotStep => ReadInv'
<1> SUFFICES ASSUME SessionInv, ReadInv, S!SnapshotStep PROVE ReadInv'
  OBVIOUS
<1>1. CASE S!SnapshotFirst
  <2>1. read.op = "snapshot" /\ S!Client /\ gw' = gw /\ Conids \subseteq warm'
    BY <1>1 DEF S!SnapshotFirst
  <2>2. CASE S!Reply("unread", {})
    BY <2>1, <2>2, ReplyKeeps
  <2>3. CASE S!AfterFirstSnapshot /\ S!Priced = {}
    <3>1. S!Then("second")
      BY <2>3 DEF S!AfterFirstSnapshot
    <3> QED BY <2>1, <3>1, ThenKeeps
  <2>4. CASE S!AfterFirstSnapshot /\ S!Priced # {}
    <3>1. S!Reply("quotes", S!NoData)
      BY <2>4 DEF S!AfterFirstSnapshot
    <3>2. Conids \ S!NoData # {}
      BY <2>4 DEF S!Priced, S!NoData
    <3> QED BY <2>1, <3>1, <3>2, ReplyKeeps
  <2> QED BY <1>1, <2>2, <2>3, <2>4 DEF S!SnapshotFirst
<1>2. CASE S!SnapshotSecond
  <2>1. /\ S!Reply("quotes", S!NoData) \/ S!Reply("unread", {})
        /\ S!Client /\ gw' = gw /\ read.op = "snapshot"
    BY <1>2 DEF S!SnapshotSecond
  <2>2. read.id = gw.id => S!NoData \cap Entitled = {}
    BY <1>2 DEF S!SnapshotSecond, ReadInv, Primed, S!Priced, S!NoData
  <2> HIDE DEF S!NoData
  <2>3. CASE S!Reply("quotes", S!NoData)
    BY <2>1, <2>2, <2>3, ReplyKeeps
  <2>4. CASE S!Reply("unread", {})
    BY <2>1, <2>4, ReplyKeeps
  <2> QED BY <2>1, <2>3, <2>4
<1>3. CASE S!Raises("snapshot")
  <2>1. S!Reply("raised", {}) /\ S!Client /\ gw' = gw
    BY <1>3 DEF S!Raises
  <2> QED BY <2>1, ReplyKeeps
<1> QED BY <1>1, <1>2, <1>3 DEF S!SnapshotStep

LEMMA PingKeeps == SessionInv /\ ReadInv /\ S!Ping => ReadInv'
<1> SUFFICES ASSUME SessionInv, ReadInv, S!Ping PROVE ReadInv'
  OBVIOUS
<1>1. read.op = "ping" /\ S!Asked /\ S!Client /\ read.at \in {"status", "tickle"} /\ S!PingLooks
  BY DEF S!Ping
<1>2. CASE S!StatusSays
  <2>1. S!Reply("yes", {})
    BY <1>1, <1>2 DEF S!PingLooks
  <2> QED BY <1>1, <2>1, ReplyKeeps
<1>3. CASE ~S!StatusSays /\ read.at = "status" /\ gw.up
  <2>1. S!Then("tickle")
    BY <1>1, <1>3 DEF S!PingLooks
  <2>2. gw.auth => gw'.asked
    BY <1>1 DEF S!Asked, SessionInv, SessionShape
  <2> QED BY <1>1, <2>1, <2>2, ThenKeeps
<1>4. CASE ~S!StatusSays /\ ~(read.at = "status" /\ gw.up)
  <2>1. S!Reply("no", {})
    BY <1>1, <1>4 DEF S!PingLooks
  <2>2. read.id = gw.id => ~read.auth
    BY <1>1, <1>4 DEF ReadInv, Witnessed, Primed, S!StatusSays
  <2> QED BY <1>1, <2>1, <2>2, ReplyKeeps
<1> QED BY <1>2, <1>3, <1>4

LEMMA ReadInvStep ==
    ASSUME SessionInv, ReadInv, [S!Next]_(S!vars)
    PROVE  ReadInv'
<1> USE DEF ReadInv, ReadShape, Witnessed, Primed, S!EmptyMeansNone, S!NotSubscribedIsTrue
<1>1. CASE S!BeginStartup \/ UNCHANGED S!vars
  BY <1>1, ManagerKeeps DEF S!BeginStartup, S!market, S!vars
<1>2. CASE S!StartupStep /\ ~S!RemoveOld
  <2>1. UNCHANGED <<warm, S!market, read, sessionAnswer>> /\ (UNCHANGED gw \/ S!Asked)
    BY <1>2 DEF S!StartupStep, S!EnsureDocker, S!Adopt, S!AdoptAuth, S!StartUnlessRunning, S!BuildImage, S!RunContainer,
       S!WaitDocker, S!WaitGateway, S!WaitAuth, S!EnterPressed, S!EnterAgain, S!Manager
  <2> QED BY <2>1, ManagerKeeps
<1>3. CASE S!RemoveOld \/ S!Restart
  <2>1. (S!Removed \/ S!NotRemoved) /\ UNCHANGED <<S!market, sessionAnswer>>
    BY <1>3 DEF S!RemoveOld, S!Restart, S!market
  <2>2. CASE S!Removed
    BY <2>1, <2>2, EndKeeps, DownIs DEF S!Removed, S!NoSession
  <2>3. CASE S!NotRemoved
    BY <2>1, <2>3, ManagerKeeps DEF S!NotRemoved
  <2> QED BY <2>1, <2>2, <2>3
<1>4. CASE S!BeginOrders \/ S!BeginTrades \/ S!BeginPnl \/ S!BeginSnapshot \/ S!BeginPing
  <2>1. PICK op \in {"orders", "trades", "pnl", "snapshot", "ping"}, at \in {"first", "status"} : S!BeginRead(op, at)
    BY <1>4 DEF S!BeginOrders, S!BeginTrades, S!BeginPnl, S!BeginSnapshot, S!BeginPing
  <2> QED BY <2>1 DEF S!BeginRead, S!market
<1>5. CASE S!ReadStep
  BY <1>5, OrdersKeeps, TradesKeeps, PnlKeeps, SnapshotKeeps, PingKeeps DEF S!ReadStep
<1>6. CASE S!WarmOne
  BY <1>6 DEF S!WarmOne, S!market
<1>7. CASE S!DockerReady
  BY <1>7, ManagerKeeps DEF S!DockerReady, S!Event, S!market
<1>8. CASE S!JavaUp
  BY <1>8 DEF S!JavaUp, S!Event, S!market, SessionInv, SessionShape
<1>9. CASE S!Login
  BY <1>9 DEF S!Login, S!Event, S!market, SessionInv, SessionShape
<1>10. CASE S!SessionEnds
  <2>1. ~gw'.auth /\ gw'.id = gw.id
    BY <1>10 DEF S!SessionEnds, SessionInv, SessionShape
  <2> QED BY <1>10, <2>1, EndKeeps DEF S!SessionEnds, S!NoSession, S!Event
<1>11. CASE S!ContainerDies \/ S!DockerStops
  <2>1. /\ gw' = [S!Down EXCEPT !.id = gw.id] /\ read' = [read EXCEPT !.auth = FALSE]
        /\ UNCHANGED <<S!market, sessionAnswer>>
    BY <1>11 DEF S!ContainerDies, S!DockerStops, S!NoSession, S!Event
  <2>2. ~gw'.auth /\ gw'.id = gw.id
    BY <2>1, DownIs
  <2> QED BY <2>1, <2>2, EndKeeps
<1>12. CASE S!BookChanges
  <2>1. /\ read'.working = (read.working /\ S!Working(book')) /\ DOMAIN read' = DOMAIN read
        /\ read'.op = read.op /\ read'.at = read.at /\ read'.id = read.id
        /\ read'.traded = read.traded /\ read'.auth = read.auth
    BY <1>12 DEF S!BookChanges
  <2>2. UNCHANGED <<gw, warm, sessionTraded, sessionAnswer>>
    BY <1>12 DEF S!BookChanges, S!Event
  <2>3. read'.working => S!Working(book)'
    BY <2>1 DEF S!Working
  <2> QED BY <2>1, <2>2, <2>3
<1>13. CASE S!TradeHappens
  BY <1>13 DEF S!TradeHappens, S!Event
<1> QED BY <1>1, <1>2, <1>3, <1>4, <1>5, <1>6, <1>7, <1>8, <1>9, <1>10, <1>11, <1>12, <1>13 DEF S!Next, S!Environment

(* "No open orders", "no trades" and a ping's "no" are true of some moment  *)
(* of the call, and no contract with a market data subscription is called   *)
(* "Not Subscribed" unless another one of its answer had a price, for any   *)
(* set of contracts (get_live_orders, get_trades, ping,                     *)
(* _get_market_snapshot).                                                   *)
THEOREM AnswersTrue == Spec => []AnswersAreTrue
<1>1. SessionInv /\ [S!Next]_(S!vars) => SessionInv'
  BY StartupEffect, SessionOthers
<1>2. SessionInv /\ ReadInv /\ [S!Next]_(S!vars) => ReadInv'
  BY ReadInvStep
<1>3. ReadInv => AnswersAreTrue
  BY DEF ReadInv, AnswersAreTrue
<1> QED BY SessionInit, ReadInit, SessionPart, <1>1, <1>2, <1>3, PTL DEF Spec

(***************************************************************************)
(* One browser per login profile, for any number of threads, URLs, hosts   *)
(* and crawls (WebArchive, local_browser.py).  The lock is taken by the    *)
(* profile a URL leads to, so the argument is about what the holder of a   *)
(* profile is: whoever browses with one is in its place in the table, and  *)
(* a place has one occupant.                                               *)
(***************************************************************************)
JobsShape ==
    /\ DOMAIN job = Callers /\ DOMAIN holder = W!Profiles
    /\ \A c \in Callers : {"at", "url"} \subseteq DOMAIN job[c]
    /\ \A c \in Callers : job[c].at # "idle" => job[c].url \in Roots

HolderKnown == \A c \in Callers : job[c].at = "browse" /\ W!Needs(c) # None => holder[W!Needs(c)] = c

BrowserInv == JobsShape /\ HolderKnown

LEMMA BrowserInit == W!Init => BrowserInv
  BY DEF W!Init, BrowserInv, JobsShape, HolderKnown, W!NoJob

\* What Goes and Answers do to a table of calls.
LEMMA JobGoes ==
    ASSUME JobsShape, NEW c \in Callers, NEW at, W!Goes(c, at)
    PROVE  /\ DOMAIN job' = Callers /\ \A d \in Callers \ {c} : job'[d] = job[d]
           /\ job'[c].at = at /\ job'[c].url = job[c].url /\ {"at", "url"} \subseteq DOMAIN job'[c]
  BY DEF JobsShape, W!Goes

LEMMA JobAnswers ==
    ASSUME JobsShape, NEW c \in Callers, NEW what, W!Answers(c, what)
    PROVE  /\ DOMAIN job' = Callers /\ \A d \in Callers \ {c} : job'[d] = job[d]
           /\ job'[c] = W!NoJob
  BY DEF JobsShape, W!Answers

\* A step of one call that opens no browser: every other call is as it was, this one does
\* not browse, and no profile changes hands but those it gives back.
Harmless(c) ==
    /\ DOMAIN job' = Callers /\ \A d \in Callers \ {c} : job'[d] = job[d]
    /\ {"at", "url"} \subseteq DOMAIN job'[c] /\ job'[c].at # "browse"
    /\ job'[c].at # "idle" => job'[c].url \in Roots
    /\ holder' = holder \/ W!Closes(c)

LEMMA HarmlessKeeps ==
    ASSUME BrowserInv, NEW c \in Callers, Harmless(c)
    PROVE  BrowserInv'
<1>1. DOMAIN holder' = W!Profiles
  BY DEF BrowserInv, JobsShape, Harmless, W!Closes
<1>2. JobsShape'
  BY <1>1 DEF BrowserInv, JobsShape, Harmless
<1>3. ASSUME NEW d \in Callers, job'[d].at = "browse", W!Needs(d)' # None PROVE holder'[W!Needs(d)'] = d
  <2>1. d # c /\ job'[d] = job[d]
    BY <1>3 DEF Harmless
  <2>2. W!Needs(d)' = W!Needs(d) /\ holder[W!Needs(d)] = d
    BY <1>3, <2>1 DEF W!Needs, BrowserInv, HolderKnown
  <2>3. W!Needs(d) \in W!Profiles
    BY <1>3, <2>1, <2>2, WebAssumption DEF W!Needs, W!Profiles, W!Range, BrowserInv, JobsShape
  <2> QED BY <2>1, <2>2, <2>3 DEF Harmless, W!Closes
<1>4. HolderKnown'
  BY <1>3 DEF HolderKnown
<1> QED BY <1>2, <1>4 DEF BrowserInv

LEMMA OpenKeeps ==
    ASSUME BrowserInv, NEW c \in Callers, W!OpenBrowser(c)
    PROVE  BrowserInv'
<1>1. /\ DOMAIN job' = Callers /\ \A d \in Callers \ {c} : job'[d] = job[d]
      /\ job'[c].at = "browse" /\ job'[c].url = job[c].url /\ {"at", "url"} \subseteq DOMAIN job'[c]
  BY JobGoes DEF W!OpenBrowser, BrowserInv
<1>2. job[c].at = "lock" /\ job[c].url \in Roots
  BY DEF W!OpenBrowser, BrowserInv, JobsShape
<1>3. JobsShape'
  BY <1>1, <1>2 DEF W!OpenBrowser, BrowserInv, JobsShape
<1>4. \A d \in Callers : W!Needs(d)' = W!Needs(d)
  BY <1>1 DEF W!Needs
<1>5. ASSUME NEW d \in Callers, job'[d].at = "browse", W!Needs(d) # None PROVE holder'[W!Needs(d)] = d
  <2>1. job[d].url \in Roots
    BY <1>1, <1>2, <1>5 DEF BrowserInv, JobsShape
  <2>2. W!Needs(d) \in W!Profiles
    BY <1>5, <2>1, WebAssumption DEF W!Needs, W!Profiles, W!Range
  <2>3. CASE d = c
    BY <1>5, <2>2, <2>3 DEF W!OpenBrowser, BrowserInv, JobsShape
  <2>4. CASE d # c
    <3>1. holder[W!Needs(d)] = d
      BY <1>1, <1>5, <2>4 DEF BrowserInv, HolderKnown
    <3>2. W!Needs(c) = None \/ W!Needs(c) # W!Needs(d)
      BY <3>1, WebAssumption DEF W!OpenBrowser, W!Free
    <3> QED BY <3>1, <3>2, <2>2 DEF W!OpenBrowser, BrowserInv, JobsShape
  <2> QED BY <2>3, <2>4
<1>6. HolderKnown'
  BY <1>4, <1>5 DEF HolderKnown
<1> QED BY <1>3, <1>6 DEF BrowserInv

LEMMA OtherSteps ==
    ASSUME BrowserInv, NEW c \in Callers,
           \/ W!BeginCrawl(c) \/ W!BeginRefresh(c) \/ W!BeginFetch(c) \/ W!SearchSite(c) \/ W!ReadManifest(c)
           \/ W!WaitedTooLong(c) \/ W!Browsed(c) \/ W!BrowserFails(c) \/ W!SavePage(c) \/ W!SaveIndex(c) \/ W!DriveFails(c)
    PROVE  Harmless(c)
<1>1. W!NoJob.at = "idle" /\ {"at", "url"} \subseteq DOMAIN W!NoJob
  BY DEF W!NoJob
<1>2. ASSUME NEW what, W!Answers(c, what), holder' = holder \/ W!Closes(c) PROVE Harmless(c)
  BY <1>1, <1>2, JobAnswers DEF Harmless, BrowserInv
<1>3. ASSUME NEW tool, NEW at \in {"cache", "lock"}, W!Begin(c, tool, at) PROVE Harmless(c)
  <2>1. PICK r \in Roots :
          IF r \in Private THEN W!Answers(c, "blocked")
          ELSE /\ job' = [job EXCEPT ![c] = [W!NoJob EXCEPT !.at = at, !.tool = tool, !.url = r, !.v = webCalls + 1]]
               /\ UNCHANGED webSaid
    BY <1>3 DEF W!Begin
  <2>2. CASE r \in Private
    BY <1>2, <1>3, <2>1, <2>2 DEF W!Begin
  <2>3. CASE r \notin Private
    <3>1. PICK j : j.at = at /\ j.url = r /\ {"at", "url"} \subseteq DOMAIN j /\ job' = [job EXCEPT ![c] = j]
      BY <2>1, <2>3 DEF W!NoJob
    <3> QED BY <1>3, <3>1 DEF W!Begin, BrowserInv, JobsShape, Harmless
  <2> QED BY <2>2, <2>3
<1>4. CASE W!BeginCrawl(c) \/ W!BeginRefresh(c) \/ W!BeginFetch(c)
  BY <1>3, <1>4 DEF W!BeginCrawl, W!BeginRefresh, W!BeginFetch
<1>5. CASE W!SearchSite(c)
  BY <1>2, <1>5 DEF W!SearchSite
<1>6. CASE W!ReadManifest(c)
  <2>1. holder' = holder /\ job[c].at = "cache" /\ (W!Goes(c, "lock") \/ W!Answers(c, "cached"))
    BY <1>6 DEF W!ReadManifest
  <2>2. CASE W!Goes(c, "lock")
    BY <2>1, <2>2, JobGoes DEF Harmless, BrowserInv, JobsShape
  <2> QED BY <1>2, <2>1, <2>2
<1>7. CASE W!WaitedTooLong(c) \/ W!BrowserFails(c) \/ W!SaveIndex(c) \/ W!DriveFails(c)
  BY <1>2, <1>7 DEF W!WaitedTooLong, W!BrowserFails, W!SaveIndex, W!DriveFails
<1>8. CASE W!Browsed(c)
  <2>1. PICK raw \in Crawls :
          \/ \E what : W!Answers(c, what)
          \/ job' = [job EXCEPT ![c].at = "save", ![c].got = W!PagesOf(raw)]
    BY <1>8, Zenon DEF W!Browsed
  <2>2. CASE \E what : W!Answers(c, what)
    BY <1>2, <1>8, <2>2 DEF W!Browsed
  <2>3. CASE job' = [job EXCEPT ![c].at = "save", ![c].got = W!PagesOf(raw)]
    BY <1>8, <2>3 DEF W!Browsed, Harmless, BrowserInv, JobsShape
  <2> QED BY <2>1, <2>2, <2>3
<1>9. CASE W!SavePage(c)
  <2>1. /\ DOMAIN job' = DOMAIN job /\ \A d \in Callers \ {c} : job'[d] = job[d]
        /\ DOMAIN job'[c] = DOMAIN job[c]
        /\ job'[c].at \in {"save", "index"} /\ job'[c].url = job[c].url
    BY <1>9 DEF W!SavePage, BrowserInv, JobsShape
  <2> QED BY <1>9, <2>1 DEF W!SavePage, Harmless, BrowserInv, JobsShape
<1> QED BY <1>4, <1>5, <1>6, <1>7, <1>8, <1>9

LEMMA BrowserStep == BrowserInv /\ [W!Next]_(W!vars) => BrowserInv'
<1> SUFFICES ASSUME BrowserInv, [W!Next]_(W!vars) PROVE BrowserInv'
  OBVIOUS
<1>1. CASE W!Tick \/ UNCHANGED W!vars
  BY <1>1 DEF W!Tick, W!vars, BrowserInv, JobsShape, HolderKnown, W!Needs
<1>2. ASSUME NEW c \in Callers,
             W!BeginCrawl(c) \/ W!BeginRefresh(c) \/ W!BeginFetch(c) \/ W!SearchSite(c) \/ W!Step(c)
      PROVE  BrowserInv'
  BY <1>2, OpenKeeps, OtherSteps, HarmlessKeeps DEF W!Step
<1> QED BY <1>1, <1>2 DEF W!Next

(* No two browsers have one login profile open, whatever the URLs, hosts    *)
(* and threads (_profile_in_use).                                           *)
THEOREM BrowserAlone == Spec => []OneBrowserPerProfile
<1>1. BrowserInv => OneBrowserPerProfile
  BY DEF BrowserInv, HolderKnown, OneBrowserPerProfile, W!OneBrowserPerProfile
<1> QED BY BrowserInit, BrowserStep, WebPart, <1>1, PTL DEF Spec

(***************************************************************************)
(* Gate 2 says yes only for the human, and its banner names the act, for   *)
(* any platforms, sides and number of dialogs (ConfirmDialog,              *)
(* order_confirm.py, _order_dialog.py).  What a dead process has written   *)
(* counts only while its caller reads it: a fallback begins with nothing   *)
(* said, so that no answer outlives the dialog it was given to.            *)
(***************************************************************************)
HumanSaysYes == presses # << >> /\ presses[Len(presses)] = "confirm"

\* What the human said last stands behind what the process says and the verdict.
AnswerInv ==
    /\ presses \in Seq({"confirm", "abandon"})
    /\ DOMAIN proc = {"at", "out", "ok"}
    /\ proc.out = "CONFIRMED" => HumanSaysYes
    /\ verdict = "confirmed" => HumanSaysYes /\ proc.at = "none"

\* The banner on the screen is that of the call under way.
BannerInv ==
    /\ DOMAIN dialogCall = {"at", "action", "rows"} /\ dialogCall.action \in D!Actions
    /\ D!OnScreen /\ dialogCall.at = "appkit" => banner = D!Banner(D!ExtractSide(dialogCall.rows), dialogCall.action)

DialogInv == AnswerInv /\ BannerInv

LEMMA DialogInit == D!Init => DialogInv
  BY DialogAssumption DEF D!Init, DialogInv, AnswerInv, BannerInv, D!Idle, D!NoProc, D!OnScreen, D!Actions

LEMMA AnswerStep == AnswerInv /\ [D!Next]_(D!vars) => AnswerInv'
<1> SUFFICES ASSUME AnswerInv, [D!Next]_(D!vars) PROVE AnswerInv'
  OBVIOUS
<1> USE DialogAssumption DEF AnswerInv, HumanSaysYes
<1>1. CASE D!Show
  <2>1. presses' = << >> /\ proc'.out = None /\ DOMAIN proc' = {"at", "out", "ok"} /\ verdict' \in {None, "refused"}
    BY <1>1 DEF D!Show, D!Returns, D!Starting, D!NoProc
  <2> QED BY <2>1
<1>2. CASE D!TimedOut \/ D!ReadAppKit \/ D!ReadLast
  BY <1>2 DEF D!TimedOut, D!ReadAppKit, D!ReadLast, D!Returns, D!SaysYes, D!Goes, D!Starting, D!NoProc
<1>3. CASE D!Appears
  BY <1>3 DEF D!Appears, D!Process
<1>4. CASE D!Presses
  <2>1. PICK b \in {"confirm", "abandon"} :
          /\ presses' = Append(presses, b)
          /\ D!Decided(IF b = "confirm" THEN "CONFIRMED" ELSE "CANCELLED")
    BY <1>4 DEF D!Presses
  <2>2. presses' \in Seq({"confirm", "abandon"}) /\ presses' # << >> /\ presses'[Len(presses')] = b
    BY <2>1, AppendProperties
  <2>3. verdict' = verdict /\ proc.at = "shown"
    BY <1>4 DEF D!Presses, D!Process, D!OnScreen
  <2> QED BY <2>1, <2>2, <2>3 DEF D!Decided
<1>5. CASE D!GivesUp
  BY <1>5 DEF D!GivesUp, D!Decided, D!OnScreen, D!Process
<1>6. CASE D!Quit \/ D!Exits \/ D!Fails
  BY <1>6 DEF D!Quit, D!Exits, D!Fails, D!OnScreen, D!Process
<1>7. CASE UNCHANGED D!vars
  BY <1>7 DEF D!vars
<1> QED BY <1>1, <1>2, <1>3, <1>4, <1>5, <1>6, <1>7 DEF D!Next
LEMMA BannerStep == AnswerInv /\ BannerInv /\ [D!Next]_(D!vars) => BannerInv'
<1> SUFFICES ASSUME AnswerInv, BannerInv, [D!Next]_(D!vars) PROVE BannerInv'
  OBVIOUS
<1> USE DEF BannerInv, D!OnScreen
<1>1. CASE D!Show
  <2>1. proc'.at \in {"none", "starting"} /\ DOMAIN dialogCall' = {"at", "action", "rows"} /\ dialogCall'.action \in D!Actions
    BY <1>1 DEF D!Show, D!Returns, D!Starting, D!NoProc, D!Idle, D!Actions
  <2> QED BY <2>1
<1>2. CASE D!TimedOut \/ D!ReadAppKit \/ D!ReadLast
  <2>1. proc'.at \in {"none", "starting"} /\ DOMAIN dialogCall' = {"at", "action", "rows"} /\ dialogCall'.action \in D!Actions
    BY <1>2 DEF D!TimedOut, D!ReadAppKit, D!ReadLast, D!Returns, D!Starting, D!NoProc, D!Idle, D!Goes, D!Actions
  <2> QED BY <2>1
<1>3. CASE D!Appears
  BY <1>3 DEF D!Appears, D!Process
<1>4. CASE D!Presses \/ D!GivesUp \/ D!Quit \/ D!Exits \/ D!Fails
  <2>1. dialogCall' = dialogCall /\ proc'.at # "shown"
    BY <1>4 DEF AnswerInv, D!Presses, D!GivesUp, D!Quit, D!Exits, D!Fails, D!Decided, D!Process
  <2> QED BY <2>1
<1>5. CASE UNCHANGED D!vars
  BY <1>5 DEF D!vars
<1> QED BY <1>1, <1>2, <1>3, <1>4, <1>5 DEF D!Next

LEMMA DialogStep == DialogInv /\ [D!Next]_(D!vars) => DialogInv'
  BY AnswerStep, BannerStep DEF DialogInv

\* The side of the banner is one that a row states.
LEMMA SideIsSaid ==
    ASSUME NEW lines
    PROVE  D!ExtractSide(lines) = None \/ D!ExtractSide(lines) \in {lines[k] : k \in D!Said(lines)}
<1> DEFINE Foremost(k) == \A j \in D!Said(lines) : k = "Action" \/ j = k \/ (k = "side" /\ j = "Side")
<1>1. CASE D!Said(lines) = {}
  BY <1>1 DEF D!ExtractSide
<1>2. CASE D!Said(lines) # {}
  <2>1. D!Said(lines) \subseteq {"Action", "side", "Side"}
    BY DEF D!Said
  <2>2. \E k \in D!Said(lines) : Foremost(k)
    <3>1. CASE "Action" \in D!Said(lines)
      BY <3>1
    <3>2. CASE "Action" \notin D!Said(lines) /\ "side" \in D!Said(lines)
      BY <2>1, <3>2
    <3>3. CASE D!Said(lines) = {"Side"}
      BY <3>3
    <3> QED BY <1>2, <2>1, <3>1, <3>2, <3>3
  <2>3. (CHOOSE k \in D!Said(lines) : Foremost(k)) \in D!Said(lines)
    BY <2>2
  <2> QED BY <1>2, <2>3 DEF D!ExtractSide
<1> QED BY <1>1, <1>2

LEMMA BannerHonest == BannerInv => D!BannerIsTheAct
<1> SUFFICES ASSUME BannerInv, D!OnScreen, dialogCall.at = "appkit"
             PROVE  /\ dialogCall.action = "CANCEL" => banner = "CANCEL ORDER"
                    /\ banner = "BUY ORDER" => dialogCall.action = None /\ "BUY" \in {dialogCall.rows[k] : k \in D!Said(dialogCall.rows)}
                    /\ banner = "SELL ORDER" => dialogCall.action = None /\ "SELL" \in {dialogCall.rows[k] : k \in D!Said(dialogCall.rows)}
  BY DEF D!BannerIsTheAct
<1> DEFINE side == D!ExtractSide(dialogCall.rows)
<1>1. banner = D!Banner(side, dialogCall.action) /\ dialogCall.action \in D!Actions
  BY DEF BannerInv
<1>2. side = None \/ side \in {dialogCall.rows[k] : k \in D!Said(dialogCall.rows)}
  BY SideIsSaid
<1> HIDE DEF side
<1>3. dialogCall.action = "CANCEL" => banner = "CANCEL ORDER"
  BY <1>1 DEF D!Banner
<1>4. banner = "BUY ORDER" => dialogCall.action = None /\ side = "BUY"
  BY <1>1 DEF D!Banner, D!SideWord, D!Actions
<1>5. banner = "SELL ORDER" => dialogCall.action = None /\ side = "SELL"
  BY <1>1 DEF D!Banner, D!SideWord, D!Actions
<1> QED BY <1>2, <1>3, <1>4, <1>5, DialogAssumption

(* A call passes Gate 2 only by the human's last press, and the banner over *)
(* a pending confirmation names the act, and a side only if a row does      *)
(* (_show_confirm_dialog, _banner).                                         *)
THEOREM DialogIsHonest == Spec => []DialogHonest
<1>1. DialogInv => DialogHonest
  BY BannerHonest DEF DialogInv, AnswerInv, HumanSaysYes, DialogHonest, D!DialogHonest, D!ConfirmedByHuman
<1> QED BY DialogInit, DialogStep, DialogPart, <1>1, PTL DEF Spec

(***************************************************************************)
(* The answer of a backtest, for any data, any number of runs and any race *)
(* of the child, the watchdog and the caller (BacktestRun, backtest.py).   *)
(* The watchdog appears nowhere in the invariant: the caller trusts the    *)
(* pipe, which ends only when the child has, and looks at the watchdog     *)
(* only for the name of its error.                                         *)
(***************************************************************************)
Stages == {"idle", "recv", "close", "judge", "reap", "reap_hard", "join", "measure", "save"}

Frames == caller \in [at : Stages, status : T!Answers \cup {None}]

\* What is read is what was sent, and what was sent whole stays.
AnswerKept ==
    /\ pipe \in T!Answers => child \in {"sent", "dead"}
    /\ caller.status # None => pipe = caller.status

\* Nobody waits for a child that can still answer when it has been given up.
EndKnown ==
    /\ caller.at \in {"idle", "recv", "join"} => caller.status = None
    /\ caller.at \in {"reap", "reap_hard", "measure", "save"} => caller.status # None
    /\ caller.at \in {"close", "judge", "join"} /\ caller.status = None => pipe \notin T!Answers /\ ~T!Alive
    /\ caller.at \in {"idle", "measure", "save"} => ~T!Alive

ErrorKnown ==
    result.says \in {"timed_out", "exited"} => caller.at = "idle" /\ pipe \notin T!Answers

BacktestInv == Frames /\ AnswerKept /\ EndKnown /\ ErrorKnown

LEMMA SaysEffect ==
    ASSUME NEW what, T!Says(what)
    PROVE  result'.says = what /\ caller'.at = "idle" /\ caller'.status = None /\ Frames'
<1>1. result'.says = what
  BY DEF T!Says, T!NoResult
<1>2. caller' = [at |-> "idle", status |-> None]
  BY DEF T!Says, T!Idle
<1> QED BY <1>1, <1>2 DEF Frames, Stages

LEMMA SaysKeeps ==
    ASSUME BacktestInv, NEW what, T!Says(what), UNCHANGED <<child, pipe>>, ~T!Alive,
           what \in {"timed_out", "exited"} => pipe \notin T!Answers
    PROVE  BacktestInv'
<1>1. result'.says = what /\ caller'.at = "idle" /\ caller'.status = None /\ Frames'
  BY SaysEffect
<1>2. AnswerKept'
  BY <1>1 DEF BacktestInv, AnswerKept
<1>3. EndKnown'
  BY <1>1 DEF EndKnown, T!Alive
<1>4. ErrorKnown'
  BY <1>1 DEF ErrorKnown
<1> QED BY <1>1, <1>2, <1>3, <1>4 DEF BacktestInv

LEMMA BacktestInit == T!Init => BacktestInv
<1> SUFFICES ASSUME T!Init PROVE BacktestInv
  OBVIOUS
<1>1. result.says = None
  BY DEF T!Init, T!NoResult
<1>2. caller = [at |-> "idle", status |-> None]
  BY DEF T!Init, T!Idle
<1>3. Frames
  BY <1>2 DEF Frames, Stages
<1>4. AnswerKept
  <2>1. pipe = None
    BY DEF T!Init
  <2>2. caller.status = None
    BY <1>2
  <2>3. pipe \notin T!Answers
    BY <2>1, BacktestAssumption DEF T!Answers
  <2> QED BY <2>2, <2>3 DEF AnswerKept
<1>5. EndKnown
  BY <1>2 DEF T!Init, EndKnown, T!Alive
<1>6. ErrorKnown
  BY <1>1, BacktestAssumption DEF T!Init, ErrorKnown
<1> QED BY <1>3, <1>4, <1>5, <1>6 DEF BacktestInv

LEMMA CallerKeeps ==
    ASSUME BacktestInv,
           T!Refuse \/ T!Start \/ T!CallerStep
    PROVE  BacktestInv'
<1> USE BacktestAssumption DEF T!Answers, BacktestInv, Frames, AnswerKept, EndKnown, ErrorKnown, Stages, T!Alive
<1>1. CASE T!Refuse
  <2>1. ~T!Alive /\ UNCHANGED <<child, pipe>> /\ T!Says("refused")
    BY <1>1 DEF T!Refuse
  <2> QED BY <2>1, SaysKeeps
<1>2. CASE T!Start
  BY <1>2 DEF T!Start, T!Goes, T!NoResult, T!Answers
<1>3. CASE T!Recv
  <2>1. caller.at = "recv" /\ UNCHANGED <<child, pipe, result>>
    BY <1>3 DEF T!Recv
  <2>2. CASE pipe \in T!Answers /\ caller' = [at |-> "close", status |-> pipe]
    BY <2>1, <2>2
  <2>3. CASE pipe \notin T!Answers /\ ~T!Alive /\ T!Goes("close")
    BY <2>1, <2>3 DEF T!Goes
  <2> QED BY <1>3, <2>2, <2>3 DEF T!Recv
<1>4. CASE T!Close
  BY <1>4 DEF T!Close, T!Goes
<1>5. CASE T!Judge
  <2>1. CASE T!Says("timed_out") /\ T!TimedOut
    <3>1. ~T!Alive /\ pipe \notin T!Answers
      BY <1>5, <2>1 DEF T!Judge, T!TimedOut
    <3> QED BY <1>5, <2>1, <3>1, SaysKeeps DEF T!Judge
  <2>2. CASE ~T!TimedOut
    BY <1>5, <2>2 DEF T!Judge, T!Goes
  <2> QED BY <1>5, <2>1, <2>2 DEF T!Judge
<1>6. CASE T!JoinDead
  <2>1. ~T!Alive /\ pipe \notin T!Answers /\ UNCHANGED <<child, pipe>> /\ T!Says("exited")
    BY <1>6 DEF T!JoinDead
  <2> QED BY <2>1, SaysKeeps
<1>7. CASE T!Reap
  BY <1>7 DEF T!Reap, T!Goes, T!Killed
<1>8. CASE T!ReapHard
  BY <1>8 DEF T!ReapHard, T!Goes, T!Killed
<1>9. CASE T!Measure
  <2>1. CASE T!Says("failed") \/ T!Says("no_signal")
    <3>1. ~T!Alive /\ UNCHANGED <<child, pipe>>
      BY <1>9 DEF T!Measure
    <3> QED BY <2>1, <3>1, SaysKeeps
  <2>2. CASE T!Goes("save") /\ result'.says = "metrics"
    BY <1>9, <2>2 DEF T!Measure, T!Goes
  <2>3. CASE T!Goes("save") /\ \E sig, trades : result' = [says |-> "metrics", sig |-> sig, trades |-> trades]
    <3>1. PICK sig, trades : result' = [says |-> "metrics", sig |-> sig, trades |-> trades]
      BY <2>3
    <3>2. result'.says = "metrics"
      BY <3>1
    <3> QED BY <2>2, <2>3, <3>2
  <2> QED BY <1>9, <2>1, <2>3, Zenon DEF T!Measure
<1>10. CASE T!Save
  BY <1>10 DEF T!Save, T!Idle
<1> QED BY <1>1, <1>2, <1>3, <1>4, <1>5, <1>6, <1>7, <1>8, <1>9, <1>10 DEF T!CallerStep

LEMMA BacktestOthers ==
    ASSUME BacktestInv, T!DogStep \/ T!BeginSend \/ T!EndSend \/ T!Dies \/ UNCHANGED T!vars
    PROVE  BacktestInv'
<1> USE DEF BacktestInv, Frames, AnswerKept, EndKnown, ErrorKnown, T!Alive
<1>1. CASE T!DogStep
  <2>1. UNCHANGED <<caller, pipe, result>> /\ child' \in {child, "dead"}
    BY <1>1 DEF T!DogStep, T!DogGoesHome, T!Deadline, T!Terminate, T!KillAfterGrace, T!Dog, T!Killed
  <2> QED BY <2>1
<1>2. CASE T!BeginSend
  BY <1>2 DEF T!BeginSend, T!Child, T!Answers
<1>3. CASE T!EndSend
  BY <1>3 DEF T!EndSend, T!Child
<1>4. CASE T!Dies
  BY <1>4 DEF T!Dies, T!Child
<1>5. CASE UNCHANGED T!vars
  BY <1>5 DEF T!vars
<1> QED BY <1>1, <1>2, <1>3, <1>4, <1>5

(* An answer that the child delivered whole is what the call goes on with,  *)
(* "timed out" and "exited" are said only without one, and no call leaves a *)
(* child running (run_backtest).                                            *)
THEOREM AnswerAlwaysWins == Spec => []T!AnswerWins
<1>1. BacktestInv => T!AnswerWins
  BY DEF BacktestInv, Frames, AnswerKept, EndKnown, ErrorKnown, T!AnswerWins, T!Busy
<1>2. BacktestInv /\ [T!Next]_(T!vars) => BacktestInv'
  BY CallerKeeps, BacktestOthers DEF T!Next
<1> QED BY BacktestInit, BacktestPart, <1>1, <1>2, PTL DEF Spec

(***************************************************************************)
(* Numbers: a set of them has a least one, and what the provers lack for   *)
(* recursive definitions, an induction over sets of numbers.               *)
(***************************************************************************)
Below == {p \in Nat \X Nat : p[1] < p[2]}

LEMMA BelowWF == IsWellFoundedOn(Below, Nat)
<1> SUFFICES ASSUME NEW f \in [Nat -> Nat], \A n \in Nat : <<f[n + 1], f[n]>> \in Below PROVE FALSE
  BY DEF IsWellFoundedOn
<1> DEFINE g == [n \in Nat |-> 1..f[n]]
<1>1. \A n \in Nat : 1..f[n] \in FiniteSubsetsOf(Nat)
  <2> TAKE n \in Nat
  <2>1. IsFiniteSet(1..f[n])
    BY FS_Interval
  <2>2. 1..f[n] \in SUBSET Nat
    OBVIOUS
  <2> QED BY <2>1, <2>2 DEF FiniteSubsetsOf
<1>2. g \in [Nat -> FiniteSubsetsOf(Nat)]
  BY <1>1
<1>3. \A n \in Nat : <<g[n + 1], g[n]>> \in StrictSubsetOrdering(Nat)
  <2> TAKE n \in Nat
  <2>1. f[n + 1] \in Nat /\ f[n] \in Nat /\ f[n + 1] < f[n]
    BY DEF Below
  <2>2. f[n] \in 1..f[n] /\ f[n] \notin 1..f[n + 1] /\ 1..f[n + 1] \subseteq 1..f[n]
    BY <2>1
  <2>3. g[n] = 1..f[n] /\ g[n + 1] = 1..f[n + 1]
    OBVIOUS
  <2>4. g[n] \subseteq Nat
    BY <2>3
  <2> HIDE DEF g
  <2> QED BY <2>2, <2>3, <2>4 DEF StrictSubsetOrdering
<1> HIDE DEF g
<1>4. ~IsWellFoundedOn(StrictSubsetOrdering(Nat), FiniteSubsetsOf(Nat))
  BY <1>2, <1>3 DEF IsWellFoundedOn
<1> QED BY <1>4, FS_StrictSubsetOrderingWellFounded

LEMMA LeastNat ==
    ASSUME NEW nats \in SUBSET Nat, nats # {}
    PROVE  \E n \in nats : \A m \in nats : n <= m
<1>1. PICK n \in nats : \A m \in nats : <<m, n>> \notin Below
  BY BelowWF, WFMin
<1>2. ASSUME NEW m \in nats PROVE n <= m
  <2>1. <<m, n>> \in Nat \X Nat /\ ~(<<m, n>>[1] < <<m, n>>[2])
    BY <1>1 DEF Below
  <2> QED BY <2>1
<1> QED BY <1>2

LEMMA GreatestNat ==
    ASSUME NEW nats \in SUBSET Nat, nats # {}, NEW b \in Nat, \A t \in nats : t <= b
    PROVE  \E n \in nats : \A m \in nats : m <= n
<1> DEFINE U == {b - t : t \in nats}
<1>1. U \subseteq Nat /\ U # {}
  <2>1. \A t \in nats : t \in Nat /\ b - t \in Nat
    OBVIOUS
  <2> QED BY <2>1
<1>2. PICK u \in U : \A v \in U : u <= v
  BY <1>1, LeastNat
<1>3. PICK t \in nats : u = b - t
  OBVIOUS
<1>4. \A m \in nats : b - t <= b - m
  BY <1>2, <1>3
<1> QED BY <1>4

(* What holds at 0 and passes from n to n + 1 holds of every number.        *)
LEMMA Induction ==
    ASSUME NEW holds \in SUBSET Nat, 0 \in holds, \A n \in holds : n + 1 \in holds
    PROVE  \A n \in Nat : n \in holds
<1> SUFFICES ASSUME Nat \ holds # {} PROVE FALSE
  OBVIOUS
<1>1. PICK n \in Nat \ holds : \A m \in Nat \ holds : n <= m
  BY LeastNat
<1>2. n - 1 \in Nat /\ n - 1 \in holds
  <2>1. n # 0
    BY <1>1
  <2>2. n - 1 \in Nat /\ ~(n <= n - 1)
    BY <1>1, <2>1
  <2> QED BY <1>1, <2>2
<1>3. (n - 1) + 1 \in holds
  BY <1>2
<1> QED BY <1>1, <1>3

(***************************************************************************)
(* The trades of a backtest (_segment_trades), for data of any length: the *)
(* loop has closed the runs of the signal that ended before the bar, or    *)
(* before the run that is open.                                            *)
(***************************************************************************)
Signals == Seq({-1, 0, 1})
Begun == [start |-> 0, trades |-> << >>]

\* What has a value for each bar up to n the way the loop has.
LoopUpTo(sig, n, s) ==
    s = [i \in 0..n |-> IF i = 0 THEN Begun ELSE T!TradeStep(sig, s[i - 1], i)]

LEMMA LoopExists == ASSUME NEW sig PROVE \A n \in Nat : \E s : LoopUpTo(sig, n, s)
<1> DEFINE holds == {n \in Nat : \E s : LoopUpTo(sig, n, s)}
<1>1. 0 \in holds
  <2> DEFINE s == [i \in 0..0 |-> Begun]
  <2>1. LoopUpTo(sig, 0, s)
    BY DEF LoopUpTo
  <2> QED BY <2>1
<1>2. ASSUME NEW n \in holds PROVE n + 1 \in holds
  <2>1. PICK s : LoopUpTo(sig, n, s)
    OBVIOUS
  <2> DEFINE last == T!TradeStep(sig, s[n], n + 1)
             g == [i \in 0..(n + 1) |-> IF i <= n THEN s[i] ELSE last]
  <2> HIDE DEF last
  <2>2. \A i \in 0..n : g[i] = s[i]
    OBVIOUS
  <2>3. g[n + 1] = last
    OBVIOUS
  <2>4. \A i \in 0..n : s[i] = IF i = 0 THEN Begun ELSE T!TradeStep(sig, s[i - 1], i)
    BY <2>1 DEF LoopUpTo
  <2>5. ASSUME NEW i \in 0..(n + 1)
        PROVE  g[i] = IF i = 0 THEN Begun ELSE T!TradeStep(sig, g[i - 1], i)
    <3>1. CASE i = n + 1
      <4>1. i # 0 /\ i - 1 = n /\ n \in 0..n
        BY <3>1
      <4>2. g[i - 1] = s[n]
        BY <2>2, <4>1
      <4> QED BY <2>3, <3>1, <4>1, <4>2 DEF last
    <3>2. CASE i = 0
      BY <2>2, <2>4, <3>2
    <3>3. CASE i # 0 /\ i # n + 1
      <4>1. i \in 0..n /\ i - 1 \in 0..n
        BY <3>3
      <4>2. g[i] = s[i] /\ g[i - 1] = s[i - 1]
        BY <2>2, <4>1
      <4> QED BY <2>4, <3>3, <4>1, <4>2
    <3> QED BY <3>1, <3>2, <3>3
  <2>6. g = [i \in 0..(n + 1) |-> g[i]]
    OBVIOUS
  <2> HIDE DEF g
  <2>7. LoopUpTo(sig, n + 1, g)
    BY <2>5, <2>6, Zenon DEF LoopUpTo
  <2> QED BY <2>7
<1> HIDE DEF holds
<1>3. \A n \in Nat : n \in holds
  BY <1>1, <1>2, Induction DEF holds
<1> QED BY <1>3 DEF holds

LEMMA LoopIs ==
    ASSUME NEW sig \in Signals
    PROVE  /\ T!Loop(sig)[0] = Begun
           /\ \A i \in 1..Len(sig) : T!Loop(sig)[i] = T!TradeStep(sig, T!Loop(sig)[i - 1], i)
<1>1. Len(sig) \in Nat
  BY DEF Signals
<1>2. PICK s : LoopUpTo(sig, Len(sig), s)
  BY <1>1, LoopExists
<1>3. LoopUpTo(sig, Len(sig), T!Loop(sig))
  BY <1>2, Zenon DEF LoopUpTo, T!Loop, Begun
<1> DEFINE l == T!Loop(sig)
<1> HIDE DEF l
<1>4. l = [i \in 0..Len(sig) |-> IF i = 0 THEN Begun ELSE T!TradeStep(sig, l[i - 1], i)]
  BY <1>3, Zenon DEF LoopUpTo, l
<1>5. l[0] = Begun /\ \A i \in 1..Len(sig) : l[i] = T!TradeStep(sig, l[i - 1], i)
  BY <1>1, <1>4
<1> QED BY <1>5 DEF l

\* A trade is a maximal run of bars with one signal that is not flat.
IsRun(sig, a, b) ==
    /\ a <= b /\ sig[a] # 0
    /\ \A k \in a..b : sig[k] = sig[a]
    /\ a = 1 \/ sig[a - 1] # sig[a]
    /\ b = Len(sig) \/ sig[b + 1] # sig[a]

RunsBefore(sig, m) ==
    {r \in (1..Len(sig)) \X (1..Len(sig)) : IsRun(sig, r[1], r[2]) /\ r[2] < m}

\* A run that ends closes; a flat bar ends none.
LEMMA RunCloses ==
    ASSUME NEW sig \in Signals, NEW a \in 1..Len(sig), NEW m \in (a + 1)..(Len(sig) + 1),
           sig[a] # 0, \A k \in a..(m - 1) : sig[k] = sig[a], a = 1 \/ sig[a - 1] # sig[a],
           m = Len(sig) + 1 \/ sig[m] # sig[a]
    PROVE  RunsBefore(sig, m) = RunsBefore(sig, a) \cup {<<a, m - 1>>}
<1>0. PICK n \in Nat : n = Len(sig)
  BY DEF Signals
<1>1. IsRun(sig, a, m - 1) /\ m - 1 \in 1..n
  BY <1>0 DEF IsRun
<1>2. <<a, m - 1>> \in RunsBefore(sig, m)
  <2>1. <<a, m - 1>> \in (1..Len(sig)) \X (1..Len(sig)) /\ m - 1 < m
    BY <1>0, <1>1
  <2> QED BY <1>1, <2>1 DEF RunsBefore
<1>3. RunsBefore(sig, a) \subseteq RunsBefore(sig, m)
  BY <1>0 DEF RunsBefore
<1>4. ASSUME NEW r \in RunsBefore(sig, m), r \notin RunsBefore(sig, a)
      PROVE  r = <<a, m - 1>>
  <2>1. PICK b \in 1..n, e \in 1..n : r = <<b, e>>
    BY <1>0 DEF RunsBefore
  <2>2. IsRun(sig, b, e) /\ a <= e /\ e < m
    BY <1>0, <1>4, <2>1 DEF RunsBefore
  <2>3. b <= e /\ (\A k \in b..e : sig[k] = sig[b]) /\ (b = 1 \/ sig[b - 1] # sig[b])
        /\ (e = n \/ sig[e + 1] # sig[b])
    BY <1>0, <2>2 DEF IsRun
  <2>4. sig[e] = sig[a] /\ sig[e] = sig[b]
    BY <1>0, <2>2, <2>3
  <2>5. e = m - 1
    <3>1. CASE e + 1 < m
      <4>1. e + 1 \in a..(m - 1) /\ e # n
        BY <1>0, <2>2, <3>1
      <4> QED BY <2>3, <2>4, <4>1
    <3> QED BY <1>0, <2>2, <3>1
  <2>6. ~(b < a)
    <3> SUFFICES ASSUME b < a PROVE FALSE
      OBVIOUS
    <3>1. a - 1 \in b..e /\ a # 1
      BY <1>0, <2>2
    <3> QED BY <2>3, <2>4, <3>1
  <2>7. ~(a < b)
    <3> SUFFICES ASSUME a < b PROVE FALSE
      OBVIOUS
    <3>1. b - 1 \in a..(m - 1) /\ b # 1
      BY <1>0, <2>2, <2>3
    <3> QED BY <2>3, <2>4, <3>1
  <2>8. b = a
    BY <1>0, <2>6, <2>7
  <2> QED BY <2>1, <2>5, <2>8
<1> QED BY <1>2, <1>3, <1>4

LEMMA FlatEndsNone ==
    ASSUME NEW sig \in Signals, NEW i \in 1..Len(sig), sig[i] = 0
    PROVE  RunsBefore(sig, i + 1) = RunsBefore(sig, i)
<1>1. ASSUME NEW r \in RunsBefore(sig, i + 1) PROVE r[2] < i
  <2>0. PICK n \in Nat : n = Len(sig)
    BY DEF Signals
  <2>1. r[1] \in 1..n /\ r[2] \in 1..n /\ IsRun(sig, r[1], r[2]) /\ r[2] < i + 1
    BY <2>0 DEF RunsBefore
  <2>2. r[2] # i
    <3>1. sig[r[2]] = sig[r[1]] /\ sig[r[1]] # 0
      BY <2>0, <2>1 DEF IsRun
    <3> QED BY <3>1
  <2> QED BY <2>0, <2>1, <2>2
<1>2. Len(sig) \in Nat
  BY DEF Signals
<1> QED BY <1>1, <1>2 DEF RunsBefore

\* The state of the loop after bar i.
Segmented(sig, t, i) ==
    /\ t.start \in 0..i
    /\ t.start # 0 => /\ sig[t.start] # 0 /\ \A k \in t.start..i : sig[k] = sig[t.start]
                      /\ t.start = 1 \/ sig[t.start - 1] # sig[t.start]
    /\ t.start = 0 /\ i # 0 => sig[i] = 0
    /\ t.trades \in Seq(Nat \X Nat)
    /\ T!Range(t.trades) = RunsBefore(sig, IF t.start # 0 THEN t.start ELSE i + 1)

LEMMA RangeAppend ==
    ASSUME NEW Elem, NEW s \in Seq(Elem), NEW x \in Elem
    PROVE  Append(s, x) \in Seq(Elem) /\ T!Range(Append(s, x)) = T!Range(s) \cup {x}
<1>1. /\ Append(s, x) \in Seq(Elem) /\ Len(s) \in Nat /\ Len(Append(s, x)) = Len(s) + 1
      /\ \A i \in 1..Len(s) : Append(s, x)[i] = s[i]
      /\ Append(s, x)[Len(s) + 1] = x
  BY AppendProperties
<1> DEFINE u == Append(s, x)
<1> HIDE DEF u
<1>2. DOMAIN s = 1..Len(s) /\ DOMAIN u = 1..(Len(s) + 1)
  BY <1>1 DEF u
<1>3. T!Range(u) = T!Range(s) \cup {x}
  BY <1>1, <1>2 DEF T!Range, u
<1> QED BY <1>1, <1>3 DEF u

LEMMA OpenCloses ==
    ASSUME NEW sig \in Signals, NEW t, NEW i \in 0..Len(sig), Segmented(sig, t, i), t.start # 0,
           i = Len(sig) \/ sig[i + 1] # sig[t.start]
    PROVE  /\ T!Closed(t, i + 1) \in Seq(Nat \X Nat)
           /\ T!Range(T!Closed(t, i + 1)) = RunsBefore(sig, i + 1)
<1>1. PICK n \in Nat : n = Len(sig)
  BY DEF Signals
<1>2. /\ t.start \in 1..i /\ sig[t.start] # 0 /\ (\A k \in t.start..i : sig[k] = sig[t.start])
      /\ (t.start = 1 \/ sig[t.start - 1] # sig[t.start])
      /\ t.trades \in Seq(Nat \X Nat) /\ T!Range(t.trades) = RunsBefore(sig, t.start)
  BY <1>1 DEF Segmented
<1> DEFINE a == t.start
           m == i + 1
<1>3. a \in 1..n /\ m \in (a + 1)..(n + 1) /\ m - 1 = i /\ i \in Nat
  BY <1>1, <1>2
<1>4. RunsBefore(sig, m) = RunsBefore(sig, a) \cup {<<a, m - 1>>}
  <2> HIDE DEF a, m
  <2>1. sig[a] # 0 /\ (\A k \in a..(m - 1) : sig[k] = sig[a]) /\ (a = 1 \/ sig[a - 1] # sig[a])
        /\ (m = Len(sig) + 1 \/ sig[m] # sig[a])
    BY <1>1, <1>2, <1>3 DEF a, m
  <2> QED BY <1>1, <1>3, <2>1, RunCloses
<1>5. T!Closed(t, m) = Append(t.trades, <<a, m - 1>>) /\ <<a, m - 1>> \in Nat \X Nat
  BY <1>1, <1>3 DEF T!Closed
<1> HIDE DEF a, m
<1>6. T!Closed(t, m) \in Seq(Nat \X Nat) /\ T!Range(T!Closed(t, m)) = RunsBefore(sig, m)
  <2>1. T!Range(t.trades) = RunsBefore(sig, a)
    BY <1>2 DEF a
  <2>2. PICK x \in Nat \X Nat : x = <<a, m - 1>>
    BY <1>5
  <2>3. /\ Append(t.trades, x) \in Seq(Nat \X Nat)
        /\ T!Range(Append(t.trades, x)) = T!Range(t.trades) \cup {x}
    BY <1>2, RangeAppend
  <2> QED BY <1>4, <1>5, <2>1, <2>2, <2>3
<1> QED BY <1>6 DEF m

LEMMA StepSegments ==
    ASSUME NEW sig \in Signals, NEW t, NEW i \in 1..Len(sig), Segmented(sig, t, i - 1)
    PROVE  Segmented(sig, T!TradeStep(sig, t, i), i)
<1> DEFINE u == T!TradeStep(sig, t, i)
<1>1. PICK n \in Nat : n = Len(sig)
  BY DEF Signals
<1>2. i \in 1..n /\ i - 1 \in 0..n /\ (i - 1) + 1 = i
  BY <1>1
<1>3. CASE T!Open(t) /\ sig[i] # sig[t.start]
  <2>1. t.start # 0
    BY <1>3 DEF T!Open
  <2>2. T!Closed(t, i) \in Seq(Nat \X Nat) /\ T!Range(T!Closed(t, i)) = RunsBefore(sig, i)
    BY <1>1, <1>2, <1>3, <2>1, OpenCloses
  <2>3. u.start = (IF sig[i] # 0 THEN i ELSE 0) /\ u.trades = T!Closed(t, i)
    BY <1>3 DEF T!TradeStep
  <2>4. sig[t.start] = sig[i - 1]
    BY <1>2, <2>1 DEF Segmented
  <2> HIDE DEF u
  <2>5. CASE sig[i] # 0
    <3>1. u.start = i /\ i # 0
      BY <1>2, <2>3, <2>5
    <3>2. \A k \in i..i : sig[k] = sig[i]
      BY <1>2
    <3>3. Segmented(sig, u, i)
      BY <1>2, <1>3, <2>2, <2>3, <2>4, <2>5, <3>1, <3>2 DEF Segmented
    <3> QED BY <3>3 DEF u
  <2>6. CASE sig[i] = 0
    <3>1. u.start = 0
      BY <2>3, <2>6
    <3>2. RunsBefore(sig, i + 1) = RunsBefore(sig, i)
      BY <2>6, FlatEndsNone
    <3>3. Segmented(sig, u, i)
      BY <1>2, <2>2, <2>3, <2>6, <3>1, <3>2 DEF Segmented
    <3> QED BY <3>3 DEF u
  <2> QED BY <2>5, <2>6 DEF u
<1>4. CASE ~T!Open(t) /\ sig[i] # 0
  <2>1. t.start = 0 /\ (i - 1 # 0 => sig[i - 1] = 0)
    BY <1>4 DEF T!Open, Segmented
  <2>2. u = [t EXCEPT !.start = i]
    BY <1>4 DEF T!TradeStep
  <2>3. u.start = i /\ u.trades = t.trades
    BY <2>2
  <2>4. T!Range(t.trades) = RunsBefore(sig, i) /\ t.trades \in Seq(Nat \X Nat)
    BY <1>2, <2>1 DEF Segmented
  <2> HIDE DEF u
  <2>5. i # 0 /\ (i = 1 \/ sig[i - 1] # sig[i]) /\ \A k \in i..i : sig[k] = sig[i]
    BY <1>2, <1>4, <2>1
  <2>6. Segmented(sig, u, i)
    BY <1>2, <1>4, <2>3, <2>4, <2>5 DEF Segmented
  <2> QED BY <2>6 DEF u
<1>5. CASE T!Open(t) /\ sig[i] = sig[t.start]
  <2>1. u = t /\ t.start # 0
    BY <1>5 DEF T!TradeStep, T!Open
  <2>2. \A k \in t.start..i : sig[k] = sig[t.start]
    BY <1>2, <1>5, <2>1 DEF Segmented
  <2>3. t.start \in 0..i
    BY <1>2 DEF Segmented
  <2> HIDE DEF u
  <2> QED BY <2>1, <2>2, <2>3 DEF Segmented, u
<1>6. CASE ~T!Open(t) /\ sig[i] = 0
  <2>1. u = t /\ t.start = 0
    BY <1>6 DEF T!TradeStep, T!Open
  <2>2. RunsBefore(sig, i + 1) = RunsBefore(sig, i)
    BY <1>6, FlatEndsNone
  <2> HIDE DEF u
  <2>3. Segmented(sig, t, i)
    BY <1>2, <1>6, <2>1, <2>2 DEF Segmented
  <2> QED BY <2>1, <2>3 DEF u
<1> QED BY <1>3, <1>4, <1>5, <1>6

LEMMA LoopSegments ==
    ASSUME NEW sig \in Signals
    PROVE  Segmented(sig, T!Loop(sig)[Len(sig)], Len(sig))
<1>1. PICK n \in Nat : n = Len(sig)
  BY DEF Signals
<1> DEFINE l == T!Loop(sig)
           holds == {i \in Nat : i <= n => Segmented(sig, l[i], i)}
<1>2. 0 \in holds
  <2>1. l[0].start = 0 /\ l[0].trades = << >>
    BY LoopIs DEF Begun
  <2>2. T!Range(<< >>) = {}
    BY DEF T!Range
  <2>3. RunsBefore(sig, 0 + 1) = {}
    BY <1>1 DEF RunsBefore
  <2>4. << >> \in Seq(Nat \X Nat)
    OBVIOUS
  <2> HIDE DEF l
  <2>5. Segmented(sig, l[0], 0)
    BY <2>1, <2>2, <2>3, <2>4 DEF Segmented
  <2> QED BY <2>5
<1>3. ASSUME NEW i \in holds PROVE i + 1 \in holds
  <2>1. SUFFICES ASSUME i + 1 <= n PROVE Segmented(sig, l[i + 1], i + 1)
    OBVIOUS
  <2>2. i \in Nat /\ i + 1 \in 1..Len(sig) /\ (i + 1) - 1 = i /\ Segmented(sig, l[i], i)
    BY <1>1, <2>1
  <2>3. l[i + 1] = T!TradeStep(sig, l[i], i + 1)
    BY <2>2, LoopIs
  <2> HIDE DEF l
  <2> QED BY <2>2, <2>3, StepSegments
<1>4. \A i \in Nat : i \in holds
  <2> HIDE DEF holds
  <2>1. holds \in SUBSET Nat
    BY DEF holds
  <2> QED BY <1>2, <1>3, <2>1, Induction
<1> QED BY <1>1, <1>4

LEMMA TradesFollowSignal ==
    ASSUME NEW sig \in Signals
    PROVE  T!Range(T!SegmentTrades(sig)) =
               {r \in (1..Len(sig)) \X (1..Len(sig)) : IsRun(sig, r[1], r[2])}
<1>1. PICK n \in Nat : n = Len(sig)
  BY DEF Signals
<1> DEFINE end == T!Loop(sig)[Len(sig)]
<1>2. Segmented(sig, end, n)
  BY <1>1, LoopSegments
<1>3. RunsBefore(sig, n + 1) = {r \in (1..Len(sig)) \X (1..Len(sig)) : IsRun(sig, r[1], r[2])}
  BY <1>1 DEF RunsBefore
<1>4. T!SegmentTrades(sig) = IF T!Open(end) THEN T!Closed(end, n + 1) ELSE end.trades
  BY <1>1 DEF T!SegmentTrades
<1> HIDE DEF end
<1>5. CASE T!Open(end)
  <2>1. T!Range(T!Closed(end, n + 1)) = RunsBefore(sig, n + 1)
    BY <1>1, <1>2, <1>5, OpenCloses DEF T!Open
  <2> QED BY <1>3, <1>4, <1>5, <2>1
<1>6. CASE ~T!Open(end)
  BY <1>2, <1>3, <1>4, <1>6 DEF T!Open, Segmented
<1> QED BY <1>5, <1>6

\* What the loop reads: the signal of the bar before, flat where there is none.
LEMMA ShiftedIs ==
    ASSUME NEW signal \in [1..DataBars -> {-1, 0, 1, None}]
    PROVE  T!Shifted(signal) \in Signals
<1>1. DataBars \in Nat
  BY BacktestAssumption
<1>2. ASSUME NEW i \in 1..DataBars
      PROVE  (IF i = 1 \/ signal[i - 1] = None THEN 0 ELSE signal[i - 1]) \in {-1, 0, 1}
  <2>1. CASE i = 1 \/ signal[i - 1] = None
    BY <2>1
  <2>2. CASE ~(i = 1 \/ signal[i - 1] = None)
    <3>1. i - 1 \in 1..DataBars
      BY <1>1, <2>2
    <3>2. signal[i - 1] \in {-1, 0, 1, None}
      BY <3>1
    <3> QED BY <2>2, <3>2
  <2> QED BY <2>1, <2>2
<1>3. DOMAIN signal = 1..DataBars
  OBVIOUS
<1>4. T!Shifted(signal) \in [1..DataBars -> {-1, 0, 1}]
  <2>1. T!Shifted(signal) = [i \in 1..DataBars |-> IF i = 1 \/ signal[i - 1] = None THEN 0 ELSE signal[i - 1]]
    BY <1>3, Zenon DEF T!Shifted
  <2> QED BY <1>2, <2>1
<1> QED BY <1>1, <1>4 DEF Signals

RunsTraded(r) ==
    T!Range(r.trades) = {x \in (DOMAIN r.sig) \X (DOMAIN r.sig) : IsRun(r.sig, x[1], x[2])}

LEMMA RunsNow == T!TradesAreRuns <=> RunsTraded(result)
  BY Zenon DEF T!TradesAreRuns, RunsTraded, IsRun

LEMMA RunsNext == T!TradesAreRuns' <=> RunsTraded(result')
  BY Zenon DEF T!TradesAreRuns, RunsTraded, IsRun

LEMMA RunsAreTrades ==
    ASSUME NEW r, r.sig \in Signals, r.trades = T!SegmentTrades(r.sig)
    PROVE  RunsTraded(r)
<1>1. T!Range(r.trades) =
        {x \in (1..Len(r.sig)) \X (1..Len(r.sig)) : IsRun(r.sig, x[1], x[2])}
  BY TradesFollowSignal
<1>2. DOMAIN r.sig = 1..Len(r.sig)
  BY DEF Signals
<1> QED BY <1>1, <1>2 DEF RunsTraded

LEMMA NoTradesNoRuns ==
    ASSUME NEW r, r.sig = << >>, r.trades = << >>
    PROVE  RunsTraded(r)
<1>1. T!Range(<< >>) = {} /\ DOMAIN << >> = {}
  BY DEF T!Range
<1> QED BY <1>1 DEF RunsTraded

LEMMA SameTrades == T!TradesAreRuns /\ result' = result => T!TradesAreRuns'
  BY RunsNow, RunsNext

LEMMA TradesInit == T!Init => T!TradesAreRuns
<1> SUFFICES ASSUME T!Init PROVE T!TradesAreRuns
  OBVIOUS
<1>1. result.sig = << >> /\ result.trades = << >>
  BY DEF T!Init, T!NoResult
<1> QED BY <1>1, NoTradesNoRuns, RunsNow

LEMMA TradesStep == T!TradesAreRuns /\ [T!Next]_(T!vars) => T!TradesAreRuns'
<1> SUFFICES ASSUME T!TradesAreRuns, [T!Next]_(T!vars) PROVE T!TradesAreRuns'
  OBVIOUS
<1>1. ASSUME NEW what, T!Says(what) PROVE T!TradesAreRuns'
  <2>1. result' = [T!NoResult EXCEPT !.says = what]
    BY <1>1 DEF T!Says
  <2>2. result'.sig = << >> /\ result'.trades = << >>
    BY <2>1 DEF T!NoResult
  <2> QED BY <2>2, NoTradesNoRuns, RunsNext
<1>2. CASE T!Start
  <2>1. result'.sig = << >> /\ result'.trades = << >>
    BY <1>2 DEF T!Start, T!NoResult
  <2> QED BY <2>1, NoTradesNoRuns, RunsNext
<1>3. CASE T!Measure
  <2>1. CASE T!Says("failed") \/ T!Says("no_signal")
    BY <1>1, <2>1
  <2>2. CASE \E signal \in [1..DataBars -> {-1, 0, 1, None}] :
               result' = [says |-> "metrics", sig |-> T!Shifted(signal),
                          trades |-> T!SegmentTrades(T!Shifted(signal))]
    <3>1. PICK signal \in [1..DataBars -> {-1, 0, 1, None}] :
               result' = [says |-> "metrics", sig |-> T!Shifted(signal),
                          trades |-> T!SegmentTrades(T!Shifted(signal))]
      BY <2>2
    <3>2. /\ result'.sig = T!Shifted(signal)
          /\ result'.trades = T!SegmentTrades(T!Shifted(signal))
      BY <3>1
    <3>3. result'.sig \in Signals /\ result'.trades = T!SegmentTrades(result'.sig)
      BY <3>2, ShiftedIs
    <3> QED BY <3>3, RunsAreTrades, RunsNext
  <2> QED BY <1>3, <2>1, <2>2, Zenon DEF T!Measure
<1>4. CASE T!Refuse
  BY <1>1, <1>4 DEF T!Refuse
<1>5. CASE T!Judge
  BY <1>1, <1>5, SameTrades DEF T!Judge
<1>6. CASE T!JoinDead
  BY <1>1, <1>6 DEF T!JoinDead
<1>7. CASE T!Recv \/ T!Close \/ T!Reap \/ T!ReapHard \/ T!Save
  <2>1. result' = result
    BY <1>7 DEF T!Recv, T!Close, T!Reap, T!ReapHard, T!Save
  <2> QED BY <2>1, SameTrades
<1>8. CASE T!DogStep \/ T!BeginSend \/ T!EndSend \/ T!Dies \/ UNCHANGED T!vars
  <2>1. result' = result
    BY <1>8 DEF T!DogStep, T!DogGoesHome, T!Deadline, T!Terminate, T!KillAfterGrace, T!Dog,
       T!BeginSend, T!EndSend, T!Dies, T!Child, T!vars
  <2> QED BY <2>1, SameTrades
<1> QED BY <1>2, <1>3, <1>4, <1>5, <1>6, <1>7, <1>8 DEF T!Next, T!CallerStep

(* A backtest answers with what its child delivered, leaves no child, and   *)
(* its trades are the maximal runs of its shifted signal, for data of any   *)
(* length (run_backtest, _segment_trades).                                  *)
THEOREM BacktestIsTrue == Spec => []BacktestTrue
<1>1. Spec => []T!TradesAreRuns
  <2>1. Init => T!TradesAreRuns
    BY BacktestPart, TradesInit
  <2>2. T!TradesAreRuns /\ [Next]_everything => T!TradesAreRuns'
    BY BacktestPart, TradesStep
  <2> QED BY <2>1, <2>2, PTL DEF Spec
<1>2. T!AnswerWins /\ T!TradesAreRuns => BacktestTrue
  BY DEF BacktestTrue
<1> QED BY <1>1, <1>2, AnswerAlwaysWins, PTL

(***************************************************************************)
(* The contract a symbol means (ContractChoice, claude_tools.py).  An      *)
(* answer is a function of the rows that were sent and of the day, so that *)
(* the argument is about that function: which row of a set comes first by  *)
(* date and place, for one root and for the chain of all of them.          *)
(***************************************************************************)
LEMMA ContractPart == (Init => C!Init) /\ ([Next]_everything => [C!Next]_(C!vars))
  BY DEF Init, Next, everything, contractState, C!vars

Chains == Seq(Futures)

LEMMA ChainRow ==
    ASSUME NEW chain \in Chains, NEW i \in DOMAIN chain
    PROVE  /\ chain[i] \in Futures /\ i \in Nat
           /\ C!LastTrade(chain[i]) \in Nat
           /\ chain[i].ltd \in Nat /\ (chain[i].ltd # 0 => C!LastTrade(chain[i]) = chain[i].ltd)
           /\ chain[i].conid # 0
<1>1. chain[i] \in Futures /\ i \in Nat
  BY DEF Chains
<1>2. chain[i].ltd \in Nat /\ chain[i].expires \in Nat /\ chain[i].conid # 0
  BY <1>1, ContractAssumption
<1> QED BY <1>1, <1>2 DEF C!LastTrade

(* Some row of a set comes first, by date or by place.                      *)
LEMMA SomeFirst ==
    ASSUME NEW of \in SUBSET Nat, of # {}
    PROVE  \E i \in of : \A j \in of : i <= j
  BY LeastNat

LEMMA SomeEarliest ==
    ASSUME NEW chain \in Chains, NEW of \in SUBSET DOMAIN chain, of # {}
    PROVE  \E i \in of : \A j \in of : ~C!Before(chain, j, i)
<1> DEFINE days == {C!LastTrade(chain[i]) : i \in of}
<1>1. days \in SUBSET Nat /\ days # {}
  BY ChainRow
<1>2. PICK m \in days : \A d \in days : m <= d
  <2> HIDE DEF days
  <2> QED BY <1>1, LeastNat
<1> DEFINE first == {i \in of : C!LastTrade(chain[i]) = m}
<1>3. first \in SUBSET Nat /\ first # {}
  BY <1>2, ChainRow
<1>4. PICK i \in first : \A j \in first : i <= j
  <2> HIDE DEF first
  <2> QED BY <1>3, LeastNat
<1>5. ASSUME NEW j \in of PROVE ~C!Before(chain, j, i)
  <2>1. m <= C!LastTrade(chain[j]) /\ C!LastTrade(chain[i]) = m
    BY <1>2, <1>4
  <2>2. C!LastTrade(chain[j]) = m => i <= j
    BY <1>4
  <2>3. C!LastTrade(chain[j]) \in Nat /\ m \in Nat /\ i \in Nat /\ j \in Nat
    BY <1>1, <1>2, <1>3, <1>4, ChainRow
  <2> QED BY <2>1, <2>2, <2>3 DEF C!Before
<1> QED BY <1>4, <1>5

(* Where a row of the root has a date and still trades, the front month is  *)
(* the first such row.                                                      *)
Lives(chain, i, day) == C!Dated(chain[i]) /\ C!LastTrade(chain[i]) >= day

LEMMA FrontIsEarliest ==
    ASSUME NEW chain \in Chains, NEW of \in SUBSET DOMAIN chain, NEW day \in Nat \ {0},
           NEW i \in of, Lives(chain, i, day)
    PROVE  \E k \in of : /\ C!FrontMonth(chain, of, day) = C!Contract(chain[k])
                         /\ Lives(chain, k, day)
                         /\ \A j \in of : Lives(chain, j, day) => ~C!Before(chain, j, k)
<1> DEFINE live == C!StillTradeable(chain, of, day)
           dated == {j \in live : C!Dated(chain[j])}
           k == CHOOSE j \in dated : \A h \in dated : ~C!Before(chain, h, j)
<1>1. \A j : j \in dated <=> j \in of /\ Lives(chain, j, day)
  BY DEF C!StillTradeable, Lives
<1>2. i \in dated /\ dated \in SUBSET DOMAIN chain
  BY <1>1
<1>3. k \in dated /\ \A h \in dated : ~C!Before(chain, h, k)
  <2>1. \E j \in dated : \A h \in dated : ~C!Before(chain, h, j)
    <3> HIDE DEF dated
    <3> QED BY <1>2, SomeEarliest
  <2> HIDE DEF dated
  <2> QED BY <2>1
<1>4. C!FrontMonth(chain, of, day) = C!Contract(C!Earliest(chain, dated))
  <2>1. of # {} /\ live # {} /\ dated # {}
    BY <1>2
  <2> QED BY <2>1, Zenon DEF C!FrontMonth
<1>5. C!Earliest(chain, dated) = chain[k]
  BY Zenon DEF C!Earliest
<1> QED BY <1>1, <1>3, <1>4, <1>5

(* The front month still trades if its last day is known, and no other row  *)
(* known to trade ends earlier.                                             *)
LEMMA FrontTrades ==
    ASSUME NEW chain \in Chains, NEW of \in SUBSET DOMAIN chain, NEW day \in Nat \ {0},
           C!FrontMonth(chain, of, day).conid # 0
    PROVE  \E k \in of :
             /\ C!FrontMonth(chain, of, day).conid = chain[k].conid
             /\ chain[k].ltd # 0 => chain[k].ltd >= day
             /\ \A i \in of : chain[i].ltd >= day => chain[i].ltd >= chain[k].ltd
<1>1. CASE \E i \in of : Lives(chain, i, day)
  <2>1. PICK k \in of : /\ C!FrontMonth(chain, of, day) = C!Contract(chain[k])
                        /\ Lives(chain, k, day)
                        /\ \A j \in of : Lives(chain, j, day) => ~C!Before(chain, j, k)
    BY <1>1, FrontIsEarliest
  <2>2. C!FrontMonth(chain, of, day).conid = chain[k].conid
    BY <2>1, ChainRow DEF C!Contract
  <2>3. chain[k].ltd # 0 => chain[k].ltd >= day
    BY <2>1, ChainRow DEF Lives
  <2>4. ASSUME NEW i \in of, chain[i].ltd >= day PROVE chain[i].ltd >= chain[k].ltd
    <3>1. /\ chain[i].ltd \in Nat /\ chain[i].ltd # 0 /\ C!LastTrade(chain[i]) = chain[i].ltd
          /\ i \in Nat /\ k \in Nat /\ chain[k].ltd \in Nat /\ C!LastTrade(chain[k]) \in Nat
          /\ chain[k].ltd # 0 => C!LastTrade(chain[k]) = chain[k].ltd
      BY <2>4, ChainRow
    <3>2. Lives(chain, i, day)
      BY <2>4, <3>1 DEF Lives, C!Dated
    <3>3. ~C!Before(chain, i, k)
      BY <2>1, <3>2
    <3> QED BY <3>1, <3>3 DEF C!Before
  <2> QED BY <2>2, <2>3, <2>4
<1>2. CASE ~\E i \in of : Lives(chain, i, day)
  <2> DEFINE live == C!StillTradeable(chain, of, day)
             k == CHOOSE i \in live : \A j \in live : i <= j
  <2>1. {i \in live : C!Dated(chain[i])} = {}
    BY <1>2 DEF C!StillTradeable, Lives
  <2>2. of # {} /\ live # {}
    <3>1. C!Says("none").conid = 0 /\ C!Says("expired").conid = 0
      BY DEF C!Says
    <3>2. of # {}
      BY <3>1, Zenon DEF C!FrontMonth
    <3>3. live # {}
      BY <3>1, <3>2, Zenon DEF C!FrontMonth
    <3> QED BY <3>2, <3>3
  <2>3. C!FrontMonth(chain, of, day) = C!Contract(C!First(chain, live))
    <3>1. C!FrontMonth(chain, of, day) =
            C!Contract(IF {i \in live : C!Dated(chain[i])} # {}
                       THEN C!Earliest(chain, {i \in live : C!Dated(chain[i])})
                       ELSE C!First(chain, live))
      BY <2>2, Zenon DEF C!FrontMonth
    <3> QED BY <2>1, <3>1
  <2>4. live \in SUBSET Nat /\ live \in SUBSET of
    BY ChainRow DEF C!StillTradeable
  <2>5. k \in live
    <3>1. \E i \in live : \A j \in live : i <= j
      <4> HIDE DEF live
      <4> QED BY <2>2, <2>4, SomeFirst
    <3> HIDE DEF live
    <3> QED BY <3>1
  <2>6. C!First(chain, live) = chain[k]
    BY Zenon DEF C!First
  <2>7. ~C!Dated(chain[k]) /\ k \in of
    BY <2>1, <2>4, <2>5
  <2>8. chain[k].ltd = 0
    BY <2>7, ChainRow DEF C!Dated
  <2>9. \A i \in of : chain[i].ltd >= chain[k].ltd
    BY <2>8, ChainRow
  <2>10. C!FrontMonth(chain, of, day).conid = chain[k].conid
    BY <2>3, <2>6, <2>7, ChainRow DEF C!Contract
  <2> QED BY <2>7, <2>8, <2>9, <2>10
<1> QED BY <1>1, <1>2

(* What a row a flag, or a resolved root, stands for.                       *)
LEMMA RowOf ==
    ASSUME NEW r \in Futures
    PROVE  (CHOOSE s \in Futures : s.conid = r.conid) = r
  BY ContractAssumption

(* The rows that are flagged, and what the root of each of them resolves to. *)
LEMMA FlaggedTrades ==
    ASSUME NEW chain \in Chains, NEW day \in Nat \ {0}, NEW c \in C!Flagged(chain, day)
    PROVE  \E k \in DOMAIN chain :
             /\ c = chain[k].conid
             /\ chain[k].ltd # 0 => chain[k].ltd >= day
             /\ \A i \in DOMAIN chain :
                  chain[i].root = chain[k].root /\ chain[i].ltd >= day => chain[i].ltd >= chain[k].ltd
<1>1. PICK k \in DOMAIN chain :
        /\ c = chain[k].conid /\ Lives(chain, k, day)
        /\ \A j \in DOMAIN chain :
             Lives(chain, j, day) /\ chain[j].root = chain[k].root => ~C!Before(chain, j, k)
  BY Zenon DEF C!Flagged, Lives
<1>2. chain[k].ltd # 0 => chain[k].ltd >= day
  BY <1>1, ChainRow DEF Lives
<1>3. ASSUME NEW i \in DOMAIN chain, chain[i].root = chain[k].root, chain[i].ltd >= day
      PROVE  chain[i].ltd >= chain[k].ltd
  <2>1. /\ chain[i].ltd \in Nat /\ chain[i].ltd # 0 /\ C!LastTrade(chain[i]) = chain[i].ltd
        /\ i \in Nat /\ k \in Nat /\ chain[k].ltd \in Nat /\ C!LastTrade(chain[k]) \in Nat
        /\ chain[k].ltd # 0 => C!LastTrade(chain[k]) = chain[k].ltd
    BY <1>3, ChainRow
  <2>2. Lives(chain, i, day)
    BY <1>3, <2>1 DEF Lives, C!Dated
  <2>3. ~C!Before(chain, i, k)
    BY <1>1, <1>3, <2>2
  <2> QED BY <2>1, <2>3 DEF C!Before
<1> QED BY <1>1, <1>2, <1>3

LEMMA FlagIsFront ==
    ASSUME NEW chain \in Chains, NEW day \in Nat \ {0}, NEW root, NEW of,
           of = {i \in DOMAIN chain : chain[i].root = root},
           NEW i \in of, chain[i].ltd >= day
    PROVE  C!FrontMonth(chain, of, day).conid \in C!Flagged(chain, day)
<1>1. Lives(chain, i, day)
  <2>1. chain[i].ltd \in Nat /\ chain[i].ltd # 0 /\ C!LastTrade(chain[i]) = chain[i].ltd
    BY ChainRow
  <2> QED BY <2>1 DEF Lives, C!Dated
<1>2. PICK k \in of : /\ C!FrontMonth(chain, of, day) = C!Contract(chain[k])
                      /\ Lives(chain, k, day)
                      /\ \A j \in of : Lives(chain, j, day) => ~C!Before(chain, j, k)
  <2>1. of \in SUBSET DOMAIN chain
    OBVIOUS
  <2> QED BY <1>1, <2>1, FrontIsEarliest
<1>3. C!FrontMonth(chain, of, day).conid = chain[k].conid
  BY <1>2, ChainRow DEF C!Contract
<1>4. k \in DOMAIN chain /\ chain[k].root = root
  OBVIOUS
<1>5. \A j \in DOMAIN chain :
        Lives(chain, j, day) /\ chain[j].root = chain[k].root => ~C!Before(chain, j, k)
  BY <1>2, <1>4
<1> QED BY <1>2, <1>3, <1>4, <1>5, Zenon DEF C!Flagged, Lives

(* The two halves of the property, of an answer.                            *)
TradesOf(a) ==
    LET row(c) == CHOOSE r \in Futures : r.conid = c
        chosen == a.front \cup (IF a.op = "root" THEN {a.conid} \ {0} ELSE {})
        Of(root) == {i \in DOMAIN a.rows : a.rows[i].root = root}
        Known(root) == {i \in Of(root) : a.rows[i].ltd >= a.day}
    IN  /\ \A c \in chosen :
             /\ row(c).ltd # 0 => row(c).ltd >= a.day
             /\ \A i \in Known(row(c).root) : a.rows[i].ltd >= row(c).ltd
        /\ a.op = "chain" =>
             \A root \in {r.root : r \in C!Range(a.rows)} :
                Known(root) # {} => C!FrontMonth(a.rows, Of(root), a.day).conid \in a.front

ListingOf(a) ==
    a.op = "stock" /\ a.says = "contract" =>
        \E k \in DOMAIN a.rows :
            /\ a.rows[k].conid = a.conid
            /\ IF a.exchange # None
               THEN /\ a.rows[k].exchange = a.exchange
                    /\ \A j \in DOMAIN a.rows : j < k => a.rows[j].exchange # a.exchange
               ELSE \A j \in DOMAIN a.rows : a.rows[j].us <=> j = k

LEMMA RightNow ==
    C!FrontMonthTrades /\ C!ListingAsked <=> TradesOf(contractAnswer) /\ ListingOf(contractAnswer)
  BY Zenon DEF C!FrontMonthTrades, C!ListingAsked, TradesOf, ListingOf

LEMMA NoneIsRight ==
    ASSUME NEW a, a.op = None, a.front = {}
    PROVE  TradesOf(a) /\ ListingOf(a)
  BY ContractAssumption DEF TradesOf, ListingOf

LEMMA RootIsRight ==
    ASSUME NEW a, a.op = "root", a.front = {}, a.rows \in Chains, a.day \in Nat \ {0},
           a.conid = C!FrontMonth(a.rows, DOMAIN a.rows, a.day).conid
    PROVE  TradesOf(a)
<1> DEFINE row(c) == CHOOSE r \in Futures : r.conid = c
<1>1. ASSUME NEW c \in {a.conid} \ {0}
      PROVE  /\ row(c).ltd # 0 => row(c).ltd >= a.day
             /\ \A i \in DOMAIN a.rows : a.rows[i].ltd >= a.day => a.rows[i].ltd >= row(c).ltd
  <2>1. PICK k \in DOMAIN a.rows :
          /\ c = a.rows[k].conid
          /\ a.rows[k].ltd # 0 => a.rows[k].ltd >= a.day
          /\ \A i \in DOMAIN a.rows : a.rows[i].ltd >= a.day => a.rows[i].ltd >= a.rows[k].ltd
    BY <1>1, FrontTrades
  <2>2. row(c) = a.rows[k]
    BY <2>1, ChainRow, RowOf
  <2> QED BY <2>1, <2>2
<1>2. a.op # "chain"
  OBVIOUS
<1> QED BY <1>1, <1>2 DEF TradesOf

LEMMA ChainIsRight ==
    ASSUME NEW a, a.op = "chain", a.rows \in Chains, a.day \in Nat \ {0},
           a.front = C!Flagged(a.rows, a.day)
    PROVE  TradesOf(a)
<1> DEFINE row(c) == CHOOSE r \in Futures : r.conid = c
           Of(root) == {i \in DOMAIN a.rows : a.rows[i].root = root}
           Known(root) == {i \in Of(root) : a.rows[i].ltd >= a.day}
<1>1. ASSUME NEW c \in a.front
      PROVE  /\ row(c).ltd # 0 => row(c).ltd >= a.day
             /\ \A i \in Known(row(c).root) : a.rows[i].ltd >= row(c).ltd
  <2>1. PICK k \in DOMAIN a.rows :
          /\ c = a.rows[k].conid
          /\ a.rows[k].ltd # 0 => a.rows[k].ltd >= a.day
          /\ \A i \in DOMAIN a.rows :
               a.rows[i].root = a.rows[k].root /\ a.rows[i].ltd >= a.day => a.rows[i].ltd >= a.rows[k].ltd
    BY <1>1, FlaggedTrades
  <2>2. row(c) = a.rows[k]
    BY <2>1, ChainRow, RowOf
  <2> QED BY <2>1, <2>2
<1>2. ASSUME NEW root, Known(root) # {}
      PROVE  C!FrontMonth(a.rows, Of(root), a.day).conid \in a.front
  <2>1. PICK n \in Of(root) : a.rows[n].ltd >= a.day
    BY <1>2
  <2>2. PICK of : of = Of(root)
    OBVIOUS
  <2>3. of = {i \in DOMAIN a.rows : a.rows[i].root = root} /\ n \in of
    BY <2>1, <2>2
  <2>4. C!FrontMonth(a.rows, of, a.day).conid \in C!Flagged(a.rows, a.day)
    BY <2>1, <2>3, FlagIsFront
  <2> QED BY <2>2, <2>4
<1>3. a.op # "root"
  OBVIOUS
<1> QED BY <1>1, <1>2, <1>3 DEF TradesOf

LEMMA OtherIsRight ==
    ASSUME NEW a, a.op \notin {"root", "chain"}, a.front = {}
    PROVE  TradesOf(a)
  BY DEF TradesOf

(* Stocks: the listing that is picked is the first of those asked for.      *)
LEMMA Picked ==
    ASSUME NEW chain \in Seq(Listings), NEW of \in SUBSET DOMAIN chain,
           C!Pick(chain, of).says = "contract"
    PROVE  \E i \in of : C!Pick(chain, of).conid = chain[i].conid /\ \A j \in of : i <= j
<1> DEFINE k == CHOOSE i \in of : \A j \in of : i <= j
<1>1. of # {}
  BY DEF C!Pick, C!Says
<1>2. k \in of /\ \A j \in of : k <= j
  <2>1. of \in SUBSET Nat
    OBVIOUS
  <2>2. \E i \in of : \A j \in of : i <= j
    BY <1>1, <2>1, SomeFirst
  <2> QED BY <2>2
<1>3. C!Pick(chain, of) = C!Contract(chain[k])
  BY <1>1, Zenon DEF C!Pick, C!First
<1> HIDE DEF k
<1>4. C!Pick(chain, of).conid = chain[k].conid
  <2>1. C!Contract(chain[k]).says = "contract"
    BY <1>3
  <2> QED BY <1>3, <2>1 DEF C!Contract, C!Says
<1> QED BY <1>2, <1>4

LEMMA StockIsRight ==
    ASSUME NEW a, a.op = "stock", a.rows \in Seq(Listings),
           a.says = C!Stock(a.rows, a.exchange).says, a.conid = C!Stock(a.rows, a.exchange).conid
    PROVE  ListingOf(a)
<1> SUFFICES ASSUME a.says = "contract" PROVE ListingOf(a)
  BY DEF ListingOf
<1> DEFINE matches == {i \in DOMAIN a.rows : a.rows[i].exchange = a.exchange}
           us == {i \in DOMAIN a.rows : a.rows[i].us}
           Alone == \E i \in us : us = {i}
           found == C!Stock(a.rows, a.exchange)
<1>1. C!Says("none").says # "contract" /\ C!Says("ask").says # "contract"
  BY DEF C!Says
<1>2. a.rows # << >>
  BY <1>1, Zenon DEF C!Stock
<1>3. CASE a.exchange # None
  <2>1. found = C!Pick(a.rows, matches)
    BY <1>2, <1>3, Zenon DEF C!Stock
  <2>2. PICK i \in matches : a.conid = a.rows[i].conid /\ \A j \in matches : i <= j
    <3>1. C!Pick(a.rows, matches).says = "contract" /\ a.conid = C!Pick(a.rows, matches).conid
      BY <2>1
    <3>2. matches \in SUBSET DOMAIN a.rows
      OBVIOUS
    <3> HIDE DEF matches
    <3> QED BY <3>1, <3>2, Picked
  <2>3. i \in DOMAIN a.rows /\ a.rows[i].exchange = a.exchange
    BY <2>2
  <2>4. ASSUME NEW j \in DOMAIN a.rows, j < i PROVE a.rows[j].exchange # a.exchange
    <3>1. j \in matches => i <= j
      BY <2>2
    <3>2. i \in Nat /\ j \in Nat
      BY <2>3
    <3>3. j \notin matches
      <4> HIDE DEF matches
      <4> QED BY <2>4, <3>1, <3>2
    <3> QED BY <3>3
  <2> HIDE DEF matches, us, found
  <2> QED BY <1>3, <2>2, <2>3, <2>4 DEF ListingOf
<1>4. CASE a.exchange = None
  <2>1. found = IF Alone THEN C!Pick(a.rows, us) ELSE C!Says("ask")
    <3> DEFINE all == C!Pick(a.rows, matches)
               one == IF Alone THEN C!Pick(a.rows, us) ELSE C!Says("ask")
    <3>1. found = IF a.rows = << >> THEN C!Says("none") ELSE IF a.exchange # None THEN all ELSE one
      BY DEF C!Stock
    <3> HIDE DEF all, one, found
    <3>2. found = one
      BY <1>2, <1>4, <3>1
    <3> QED BY <3>2 DEF one
  <2>2. Alone /\ found = C!Pick(a.rows, us)
    <3> HIDE DEF us, Alone, found
    <3> QED BY <1>1, <2>1 DEF found
  <2>3. PICK i \in us : a.conid = a.rows[i].conid
    <3>1. C!Pick(a.rows, us).says = "contract" /\ a.conid = C!Pick(a.rows, us).conid
      BY <2>2
    <3>2. us \in SUBSET DOMAIN a.rows
      OBVIOUS
    <3> HIDE DEF us, found
    <3>3. \E i \in us : C!Pick(a.rows, us).conid = a.rows[i].conid /\ \A j \in us : i <= j
      BY <3>1, <3>2, Picked
    <3> QED BY <3>1, <3>3
  <2>4. \A j, k \in us : j = k
    BY <2>2
  <2>5. \A j \in DOMAIN a.rows : a.rows[j].us <=> j = i
    BY <2>3, <2>4
  <2>6. i \in DOMAIN a.rows
    BY <2>3
  <2> HIDE DEF matches, us, found
  <2> QED BY <1>4, <2>3, <2>5, <2>6 DEF ListingOf
<1> QED BY <1>3, <1>4

(* What the gateway sent is rows of the kind that was asked for.            *)
ContractInv ==
    /\ today \in Nat \ {0}
    /\ contractCall.op \in {None, "root", "chain", "stock", "pair", "other"}
    /\ contractCall.at = "answered" =>
         contractCall.rows \in Seq(IF contractCall.op \in {"root", "chain"} THEN Futures ELSE Listings)
    /\ TradesOf(contractAnswer) /\ ListingOf(contractAnswer)

LEMMA ContractInit == C!Init => ContractInv
<1> SUFFICES ASSUME C!Init PROVE ContractInv
  OBVIOUS
<1>1. contractAnswer.op = None /\ contractAnswer.front = {}
  BY DEF C!Init, C!NoAnswer
<1>2. contractCall.op = None /\ contractCall.at = "idle" /\ today = 1
  BY DEF C!Init, C!Idle
<1> QED BY <1>1, <1>2, NoneIsRight DEF ContractInv

LEMMA AskKeeps == ContractInv /\ C!Ask => ContractInv'
<1> SUFFICES ASSUME ContractInv, C!Ask PROVE ContractInv'
  OBVIOUS
<1>1. PICK op \in C!Ops, e \in C!Exchanges \cup {None} :
        contractCall' = [C!Idle EXCEPT !.op = op, !.exchange = e, !.at = "asked"]
  BY DEF C!Ask
<1>2. contractCall'.op = op /\ contractCall'.at = "asked"
  BY <1>1 DEF C!Idle
<1>3. today' = today /\ contractAnswer' = contractAnswer
  BY DEF C!Ask
<1> QED BY <1>2, <1>3 DEF ContractInv, C!Ops

LEMMA GatewayKeeps == ContractInv /\ C!GatewayAnswers => ContractInv'
<1> SUFFICES ASSUME ContractInv, C!GatewayAnswers PROVE ContractInv'
  OBVIOUS
<1> DEFINE kind == IF contractCall.op \in {"root", "chain"} THEN Futures ELSE Listings
<1>1. PICK chain \in C!BoundedSeq(kind, MaxRows) :
        contractCall' = [contractCall EXCEPT !.at = "answered", !.rows = chain]
  BY DEF C!GatewayAnswers
<1>2. chain \in Seq(kind)
  BY <1>1 DEF C!BoundedSeq, C!SeqOf
<1>3. today' = today /\ contractAnswer' = contractAnswer
  BY DEF C!GatewayAnswers
<1>4. contractCall'.op = contractCall.op /\ (contractCall'.at = "answered" => contractCall'.rows = chain)
  BY <1>1
<1> QED BY <1>2, <1>3, <1>4 DEF ContractInv

LEMMA ResolveKeeps == ContractInv /\ C!Resolve => ContractInv'
<1> SUFFICES ASSUME ContractInv, C!Resolve PROVE ContractInv'
  OBVIOUS
<1>1. contractCall' = C!Idle /\ today' = today
  BY DEF C!Resolve
<1>2. contractCall'.op = None /\ contractCall'.at = "idle"
  BY <1>1 DEF C!Idle
<1>3. PICK a : a = contractAnswer'
  OBVIOUS
<1>4. /\ a.op = contractCall.op /\ a.exchange = contractCall.exchange
      /\ a.rows = contractCall.rows /\ a.day = today
      /\ a.says = C!Resolved.says /\ a.conid = C!Resolved.conid
      /\ a.front = IF contractCall.op = "chain" THEN C!Flagged(contractCall.rows, today) ELSE {}
  BY <1>3, Zenon DEF C!Resolve
<1>5. contractCall.at = "answered"
  BY DEF C!Resolve
<1>6. TradesOf(a) /\ ListingOf(a)
  <2>1. CASE contractCall.op = "root"
    <3>1. C!Resolved = C!FrontMonth(contractCall.rows, DOMAIN contractCall.rows, today)
      BY <2>1 DEF C!Resolved
    <3>2. contractCall.rows \in Chains /\ today \in Nat \ {0}
      BY <1>5, <2>1 DEF ContractInv, Chains
    <3>3. TradesOf(a)
      BY <1>4, <2>1, <3>1, <3>2, RootIsRight
    <3> QED BY <1>4, <2>1, <3>3 DEF ListingOf
  <2>2. CASE contractCall.op = "chain"
    <3>1. contractCall.rows \in Chains /\ today \in Nat \ {0}
      BY <1>5, <2>2 DEF ContractInv, Chains
    <3>2. a.front = C!Flagged(a.rows, a.day)
      BY <1>4, <2>2
    <3>3. TradesOf(a)
      BY <1>4, <2>2, <3>1, <3>2, ChainIsRight
    <3> QED BY <1>4, <2>2, <3>3 DEF ListingOf
  <2>3. CASE contractCall.op = "stock"
    <3>1. C!Resolved = C!Stock(contractCall.rows, contractCall.exchange)
      BY <2>3 DEF C!Resolved
    <3>2. contractCall.rows \in Seq(Listings)
      BY <1>5, <2>3 DEF ContractInv
    <3>3. TradesOf(a)
      BY <1>4, <2>3, OtherIsRight
    <3>4. ListingOf(a)
      BY <1>4, <2>3, <3>1, <3>2, StockIsRight
    <3> QED BY <3>3, <3>4
  <2>4. CASE contractCall.op \in {None, "pair", "other"}
    <3>1. contractCall.op \notin {"root", "chain", "stock"}
      BY <2>4, ContractAssumption
    <3>2. TradesOf(a)
      BY <1>4, <3>1, OtherIsRight
    <3> QED BY <1>4, <3>1, <3>2 DEF ListingOf
  <2> QED BY <2>1, <2>2, <2>3, <2>4 DEF ContractInv
<1> QED BY <1>1, <1>2, <1>3, <1>6 DEF ContractInv

LEMMA ContractStep == ContractInv /\ [C!Next]_(C!vars) => ContractInv'
<1> SUFFICES ASSUME ContractInv, [C!Next]_(C!vars) PROVE ContractInv'
  OBVIOUS
<1>1. CASE C!RequestFails
  <2>1. contractAnswer'.op = None /\ contractAnswer'.front = {}
    BY <1>1 DEF C!RequestFails, C!NoAnswer
  <2>2. contractCall'.op = None /\ contractCall'.at = "idle" /\ today' = today
    BY <1>1 DEF C!RequestFails, C!Idle
  <2> QED BY <2>1, <2>2, NoneIsRight DEF ContractInv
<1>2. CASE C!Midnight
  BY <1>2 DEF C!Midnight, ContractInv
<1>3. CASE UNCHANGED C!vars
  BY <1>3 DEF C!vars, ContractInv
<1> QED BY <1>1, <1>2, <1>3, AskKeeps, GatewayKeeps, ResolveKeeps DEF C!Next

(* A symbol means a contract that still trades; a bare ticker means its     *)
(* only listing in the United States and one with an exchange the first     *)
(* listing on it, whatever rows the gateway sends, in any order and number  *)
(* (_resolve_snapshot_conid, _resolve_stock_conid,                          *)
(* _sorted_with_front_month).                                               *)
THEOREM ContractIsRight == Spec => []RightContract
<1>1. Init => ContractInv
  BY ContractPart, ContractInit
<1>2. ContractInv /\ [Next]_everything => ContractInv'
  BY ContractPart, ContractStep
<1>3. ContractInv => RightContract
  BY RightNow DEF ContractInv, RightContract
<1> QED BY <1>1, <1>2, <1>3, PTL DEF Spec

(***************************************************************************)
(* The archive of crawled sites (WebArchive, web_scraper.py).  Up to where *)
(* a crawl has come, each page has an entry, a name that no other page of  *)
(* the crawl has, and under that name the file with the page as just       *)
(* crawled; the manifest is written when that is so of all of them.        *)
(***************************************************************************)
Shots == [url : Pages, size : 0..2]
Distinct(got) == \A i, k \in DOMAIN got : got[i].url = got[k].url => i = k

LEMMA LargerIs ==
    ASSUME NEW raw \in Seq(Shots), NEW r \in W!Range(raw)
    PROVE  W!Larger(raw, r.url) \in Shots /\ W!Larger(raw, r.url).url = r.url
<1> DEFINE same == {s \in W!Range(raw) : s.url = r.url}
           rest == {2 - s.size : s \in same}
<1>1. W!Range(raw) \subseteq Shots
  BY DEF W!Range
<1>2. rest \in SUBSET Nat /\ rest # {}
  <2>1. \A s \in same : 2 - s.size \in Nat
    BY <1>1 DEF Shots
  <2> QED BY <2>1
<1>3. PICK m \in rest : \A n \in rest : m <= n
  <2> HIDE DEF rest
  <2> QED BY <1>2, LeastNat
<1>4. PICK s \in same : m = 2 - s.size
  BY <1>3
<1>5. \A t \in same : t.size <= s.size
  <2>1. \A t \in same : 2 - s.size <= 2 - t.size /\ s.size \in Int /\ t.size \in Int
    BY <1>1, <1>3, <1>4 DEF Shots
  <2> QED BY <2>1
<1>6. \E t \in W!Range(raw) : t.url = r.url /\ \A u \in W!Range(raw) : u.url = r.url => u.size <= t.size
  BY <1>4, <1>5
<1>7. /\ W!Larger(raw, r.url) \in W!Range(raw)
      /\ W!Larger(raw, r.url).url = r.url
  BY <1>6 DEF W!Larger
<1> QED BY <1>1, <1>7

\* What has a value for each result up to n the way crawl_site has.
GatheredUpTo(raw, n, s) ==
    s = [i \in 0..n |-> IF i = 0 THEN << >> ELSE W!Gather(raw, s[i - 1], raw[i])]

LEMMA GatheredExists == ASSUME NEW raw PROVE \A n \in Nat : \E s : GatheredUpTo(raw, n, s)
<1> DEFINE holds == {n \in Nat : \E s : GatheredUpTo(raw, n, s)}
<1>1. 0 \in holds
  <2> DEFINE s == [i \in 0..0 |-> << >>]
  <2>1. GatheredUpTo(raw, 0, s)
    BY DEF GatheredUpTo
  <2> QED BY <2>1
<1>2. ASSUME NEW n \in holds PROVE n + 1 \in holds
  <2>1. PICK s : GatheredUpTo(raw, n, s)
    OBVIOUS
  <2> DEFINE last == W!Gather(raw, s[n], raw[n + 1])
             g == [i \in 0..(n + 1) |-> IF i <= n THEN s[i] ELSE last]
  <2> HIDE DEF last
  <2>2. \A i \in 0..n : g[i] = s[i]
    OBVIOUS
  <2>3. g[n + 1] = last
    OBVIOUS
  <2>4. \A i \in 0..n : s[i] = IF i = 0 THEN << >> ELSE W!Gather(raw, s[i - 1], raw[i])
    BY <2>1 DEF GatheredUpTo
  <2>5. ASSUME NEW i \in 0..(n + 1)
        PROVE  g[i] = IF i = 0 THEN << >> ELSE W!Gather(raw, g[i - 1], raw[i])
    <3>1. CASE i = n + 1
      <4>1. i # 0 /\ i - 1 = n /\ n \in 0..n
        BY <3>1
      <4>2. g[i - 1] = s[n]
        BY <2>2, <4>1
      <4> QED BY <2>3, <3>1, <4>1, <4>2 DEF last
    <3>2. CASE i = 0
      BY <2>2, <2>4, <3>2
    <3>3. CASE i # 0 /\ i # n + 1
      <4>1. i \in 0..n /\ i - 1 \in 0..n
        BY <3>3
      <4>2. g[i] = s[i] /\ g[i - 1] = s[i - 1]
        BY <2>2, <4>1
      <4> QED BY <2>4, <3>3, <4>1, <4>2
    <3> QED BY <3>1, <3>2, <3>3
  <2>6. g = [i \in 0..(n + 1) |-> g[i]]
    OBVIOUS
  <2> HIDE DEF g
  <2>7. GatheredUpTo(raw, n + 1, g)
    BY <2>5, <2>6, Zenon DEF GatheredUpTo
  <2> QED BY <2>7
<1> HIDE DEF holds
<1>3. \A n \in Nat : n \in holds
  BY <1>1, <1>2, Induction DEF holds
<1> QED BY <1>3 DEF holds

LEMMA GatheredIs ==
    ASSUME NEW raw \in Seq(Shots)
    PROVE  /\ W!Gathered(raw)[0] = << >>
           /\ \A i \in 1..Len(raw) : W!Gathered(raw)[i] = W!Gather(raw, W!Gathered(raw)[i - 1], raw[i])
<1>1. Len(raw) \in Nat
  OBVIOUS
<1>2. PICK s : GatheredUpTo(raw, Len(raw), s)
  BY <1>1, GatheredExists
<1>3. GatheredUpTo(raw, Len(raw), W!Gathered(raw))
  BY <1>2, Zenon DEF GatheredUpTo, W!Gathered
<1> DEFINE l == W!Gathered(raw)
<1> HIDE DEF l
<1>4. l = [i \in 0..Len(raw) |-> IF i = 0 THEN << >> ELSE W!Gather(raw, l[i - 1], raw[i])]
  BY <1>3, Zenon DEF GatheredUpTo, l
<1>5. l[0] = << >> /\ \A i \in 1..Len(raw) : l[i] = W!Gather(raw, l[i - 1], raw[i])
  BY <1>1, <1>4
<1> QED BY <1>5 DEF l


(* One page is kept for each URL.                                           *)
LEMMA PagesDistinct ==
    ASSUME NEW raw \in Seq(Shots)
    PROVE  W!PagesOf(raw) \in Seq(Shots) /\ Distinct(W!PagesOf(raw))
<1> DEFINE g == W!Gathered(raw)
           Good(s) == s \in Seq(Shots) /\ Distinct(s)
           holds == {i \in Nat : i <= Len(raw) => Good(g[i])}
<1>1. 0 \in holds
  <2>1. g[0] = << >>
    BY GatheredIs
  <2>2. Good(<< >>)
    BY DEF Distinct
  <2> QED BY <2>1, <2>2
<1>2. ASSUME NEW i \in holds PROVE i + 1 \in holds
  <2> SUFFICES ASSUME i + 1 <= Len(raw) PROVE Good(g[i + 1])
    OBVIOUS
  <2>1. i \in Nat /\ Len(raw) \in Nat /\ i + 1 \in 1..Len(raw)
    OBVIOUS
  <2> DEFINE s == g[i]
             r == raw[i + 1]
  <2>2. Good(s)
    BY <2>1
  <2>3. g[i + 1] = W!Gather(raw, s, r)
    <3>1. (i + 1) - 1 = i
      BY <2>1
    <3> HIDE DEF g
    <3>2. g[i + 1] = W!Gather(raw, g[(i + 1) - 1], raw[i + 1])
      BY <2>1, GatheredIs DEF g
    <3> QED BY <3>1, <3>2
  <2>4. r \in W!Range(raw)
    BY <2>1 DEF W!Range
  <2>5. PICK p : p = W!Larger(raw, r.url)
    OBVIOUS
  <2>6. p \in Shots /\ p.url = r.url
    BY <2>4, <2>5, LargerIs
  <2> HIDE DEF g, s, r
  <2>7. CASE r.size = W!Empty \/ \E h \in W!Range(s) : h.url = r.url
    BY <2>2, <2>3, <2>7 DEF W!Gather
  <2>8. CASE ~(r.size = W!Empty \/ \E h \in W!Range(s) : h.url = r.url)
    <3>1. g[i + 1] = Append(s, p)
      BY <2>3, <2>5, <2>8 DEF W!Gather
    <3>2. PICK n \in Nat : n = Len(s)
      BY <2>2
    <3>3. /\ Append(s, p) \in Seq(Shots) /\ Len(Append(s, p)) = n + 1
          /\ \A k \in 1..n : Append(s, p)[k] = s[k]
          /\ Append(s, p)[n + 1] = p
      BY <2>2, <2>6, <3>2
    <3>4. \A k \in 1..n : s[k].url # p.url
      <4>1. \A k \in 1..n : s[k] \in W!Range(s)
        BY <2>2, <3>2 DEF W!Range
      <4> QED BY <2>6, <2>8, <4>1
    <3>5. \A k, l \in 1..n : s[k].url = s[l].url => k = l
      BY <2>2, <3>2 DEF Distinct
    <3>6. PICK u : u = Append(s, p)
      OBVIOUS
    <3>7. DOMAIN u = 1..(n + 1)
      BY <3>3, <3>6
    <3>8. \A k, l \in 1..(n + 1) : u[k].url = u[l].url => k = l
      <4>1. \A k \in 1..(n + 1) : k \in 1..n \/ k = n + 1
        OBVIOUS
      <4>2. u[n + 1] = p /\ \A k \in 1..n : u[k] = s[k]
        BY <3>3, <3>6
      <4> QED BY <3>4, <3>5, <4>1, <4>2
    <3> QED BY <3>1, <3>3, <3>6, <3>7, <3>8 DEF Distinct
  <2> QED BY <2>7, <2>8
<1> HIDE DEF holds
<1>3. \A i \in Nat : i \in holds
  <2>1. holds \in SUBSET Nat
    BY DEF holds
  <2> QED BY <1>1, <1>2, <2>1, Induction
<1>4. Len(raw) \in Nat
  OBVIOUS
<1> QED BY <1>3, <1>4 DEF holds, W!PagesOf

(* How far a crawl has come with its folder: each page that is done has a   *)
(* name of its own, and the file of that name is the page of this crawl.    *)
JobFields == {"at", "tool", "url", "got", "next", "claimed", "entries", "v"}
Entries == [url : Pages, name : {Slug[p] : p \in Pages} \X Nat]
Saves(j) == j.at \in {"save", "index"}
Page(j, i) == [url |-> j.got[i].url, v |-> j.v]
DoneAt(j, folder, i) ==
    LET e == j.entries[i]
    IN  /\ e.url = j.got[i].url
        /\ e.name \in DOMAIN j.claimed /\ j.claimed[e.name] = j.got[i].url
        /\ e.name \in DOMAIN folder /\ folder[e.name] = Page(j, i)

Progress(j, folder) ==
    /\ DOMAIN j = JobFields
    /\ j.got \in Seq(Shots) /\ Distinct(j.got)
    /\ j.next \in 1..(Len(j.got) + 1)
    /\ j.at = "save" => j.next <= Len(j.got)
    /\ j.at = "index" => j.next = Len(j.got) + 1
    /\ ~Saves(j) => j.next = 1
    /\ j.entries \in Seq(Entries) /\ Len(j.entries) = j.next - 1
    /\ \A i \in 1..(j.next - 1) : DoneAt(j, folder, i)
    /\ \A name \in DOMAIN j.claimed : \E i \in 1..(j.next - 1) : j.entries[i].name = name

(* A crawl that is not saving says nothing about a folder.                  *)
LEMMA AnyFolder ==
    ASSUME NEW j, NEW f, Progress(j, f), ~Saves(j), NEW g
    PROVE  Progress(j, g)
<1>1. 1..(j.next - 1) = {}
  BY DEF Progress
<1> QED BY <1>1 DEF Progress

(* Of as many names as there are pages one is free: each name taken is that *)
(* of another page that is done.                                            *)
LEMMA NameIsFree ==
    ASSUME NEW j, NEW folder, Progress(j, folder), j.at = "save", NEW s
    PROVE  \E n \in 1..Len(j.got) : <<s, n>> \notin DOMAIN j.claimed
<1> DEFINE all == 1..Len(j.got)
           done == 1..(j.next - 1)
           of == [n \in all |-> CHOOSE i \in done : j.entries[i].name = <<s, n>>]
<1>0. PICK len \in Nat : len = Len(j.got)
  BY DEF Progress
<1>1. j.next \in 1..len /\ j.next - 1 \in Nat /\ j.next - 1 < len
  BY <1>0 DEF Progress
<1> SUFFICES ASSUME \A n \in all : <<s, n>> \in DOMAIN j.claimed PROVE FALSE
  OBVIOUS
<1>2. \A n \in all : of[n] \in done /\ j.entries[of[n]].name = <<s, n>>
  <2>1. \A n \in all : \E i \in done : j.entries[i].name = <<s, n>>
    BY DEF Progress
  <2> QED BY <2>1
<1>3. of \in [all -> done]
  BY <1>2
<1>4. IsFiniteSet(all) /\ IsFiniteSet(done) /\ Cardinality(all) = len /\ Cardinality(done) = j.next - 1
  <2>1. 1 \in Int /\ len \in Int /\ j.next - 1 \in Int
    BY <1>1
  <2>2. IsFiniteSet(1..len) /\ Cardinality(1..len) = IF 1 > len THEN 0 ELSE len - 1 + 1
    BY <2>1, FS_Interval
  <2>3. IsFiniteSet(1..(j.next - 1)) /\ Cardinality(1..(j.next - 1)) = IF 1 > j.next - 1 THEN 0 ELSE (j.next - 1) - 1 + 1
    BY <2>1, FS_Interval
  <2> QED BY <1>0, <1>1, <2>2, <2>3
<1>5. PICK m, n \in all : m # n /\ of[m] = of[n]
  <2> HIDE DEF all, done, of
  <2> QED BY <1>1, <1>3, <1>4, FS_PigeonHole
<1>6. <<s, m>> = <<s, n>>
  BY <1>2, <1>5
<1> QED BY <1>5, <1>6

LEMMA NewName ==
    ASSUME NEW c, NEW folder, Progress(job[c], folder), job[c].at = "save"
    PROVE  LET url == job[c].got[job[c].next].url
           IN  /\ W!NameOf(c, url) \notin DOMAIN job[c].claimed
               /\ W!NameOf(c, url) \in {Slug[url]} \X Nat
<1> DEFINE j == job[c]
           url == j.got[j.next].url
           free(n) == <<Slug[url], n>> \notin DOMAIN j.claimed \/ j.claimed[<<Slug[url], n>>] = url
           frees == {n \in 1..Len(j.got) : free(n)}
           k == CHOOSE n \in 1..Len(j.got) : free(n) /\ \A m \in 1..(n - 1) : ~free(m)
<1>1. PICK len \in Nat : len = Len(j.got)
  BY DEF Progress
<1>2. frees # {} /\ frees \in SUBSET Nat
  <2>1. PICK n \in 1..Len(j.got) : <<Slug[url], n>> \notin DOMAIN j.claimed
    <3> HIDE DEF url
    <3> QED BY NameIsFree
  <2>2. n \in frees
    BY <2>1
  <2>3. frees \in SUBSET Nat
    BY <1>1
  <2> QED BY <2>2, <2>3
<1>3. PICK least \in frees : \A n \in frees : least <= n
  <2> HIDE DEF frees
  <2> QED BY <1>2, LeastNat
<1>4. least \in 1..len /\ free(least) /\ \A m \in 1..(least - 1) : ~free(m)
  <2>1. least \in 1..len /\ free(least)
    BY <1>1, <1>3
  <2> HIDE DEF free
  <2>2. ASSUME NEW m \in 1..(least - 1) PROVE ~free(m)
    <3>1. m \in 1..len /\ ~(least <= m)
      BY <2>1
    <3> QED BY <1>1, <1>3, <3>1
  <2> QED BY <2>1, <2>2
<1>5. k \in 1..len /\ free(k)
  <2> HIDE DEF free
  <2> QED BY <1>1, <1>4
<1>6. W!NameOf(c, url) = <<Slug[url], k>>
  BY Zenon DEF W!NameOf
<1>7. ASSUME <<Slug[url], k>> \in DOMAIN j.claimed PROVE FALSE
  <2>1. j.claimed[<<Slug[url], k>>] = url
    BY <1>5, <1>7
  <2> DEFINE name == <<Slug[url], k>>
  <2> HIDE DEF name, k
  <2>2. PICK i \in 1..(j.next - 1) : j.entries[i].name = name
    BY <1>7 DEF Progress, name
  <2>3. j.claimed[name] = j.got[i].url
    BY <2>2 DEF Progress, DoneAt
  <2>4. i \in DOMAIN j.got /\ j.next \in DOMAIN j.got /\ i # j.next
    BY <1>1 DEF Progress
  <2> QED BY <2>1, <2>3, <2>4 DEF Progress, Distinct, name
<1>8. W!NameOf(c, url) \in {Slug[url]} \X Nat
  <2>1. k \in 1..len
    BY <1>5
  <2> HIDE DEF k, url
  <2>2. k \in Nat
    BY <1>1, <2>1
  <2> QED BY <1>6, <2>2
<1> QED BY <1>6, <1>7, <1>8

(* The next page under a new name.                                          *)
LEMMA PageIsSaved ==
    ASSUME NEW j, NEW folder, Progress(j, folder), j.at = "save",
           NEW url, url = j.got[j.next].url, NEW n, n \notin DOMAIN j.claimed, n \in {Slug[url]} \X Nat,
           NEW g, g = [j EXCEPT !.claimed = W!Put(@, n, url),
                                !.entries = Append(@, [url |-> url, name |-> n]),
                                !.next = @ + 1,
                                !.at = IF j.next = Len(j.got) THEN "index" ELSE "save"]
    PROVE  Progress(g, W!Put(folder, n, [url |-> url, v |-> j.v]))
<1>1. /\ DOMAIN g = JobFields /\ g.got = j.got /\ g.v = j.v
      /\ g.claimed = W!Put(j.claimed, n, url)
      /\ g.entries = Append(j.entries, [url |-> url, name |-> n])
      /\ g.next = j.next + 1 /\ g.at = IF j.next = Len(j.got) THEN "index" ELSE "save"
  BY DEF Progress, JobFields
<1>2. PICK len \in Nat, k \in Nat : len = Len(j.got) /\ k = j.next /\ k \in 1..len
  BY DEF Progress
<1> DEFINE e == [url |-> url, name |-> n]
           new == W!Put(folder, n, [url |-> url, v |-> j.v])
<1>3. e \in Entries /\ url \in Pages
  <2>1. j.got[k] \in Shots
    BY <1>2 DEF Progress
  <2>2. url \in Pages
    BY <1>2, <2>1 DEF Shots
  <2>3. n \in {Slug[p] : p \in Pages} \X Nat
    BY <2>2
  <2> QED BY <2>2, <2>3 DEF Entries
<1>4. /\ g.entries \in Seq(Entries) /\ Len(g.entries) = k
      /\ g.entries[k] = e /\ \A i \in 1..(k - 1) : g.entries[i] = j.entries[i]
  <2> HIDE DEF e
  <2>1. PICK s : s = j.entries
    OBVIOUS
  <2>2. s \in Seq(Entries) /\ Len(s) = k - 1 /\ Len(s) + 1 = k
    BY <1>2, <2>1 DEF Progress
  <2>3. g.entries = Append(s, e)
    BY <1>1, <2>1 DEF e
  <2>4. /\ Append(s, e) \in Seq(Entries) /\ Len(Append(s, e)) = Len(s) + 1
        /\ \A i \in 1..Len(s) : Append(s, e)[i] = s[i]
        /\ Append(s, e)[Len(s) + 1] = e
    BY <1>3, <2>2, AppendProperties
  <2> QED BY <2>1, <2>2, <2>3, <2>4
<1>5. /\ DOMAIN new = DOMAIN folder \cup {n} /\ new[n] = [url |-> url, v |-> j.v]
      /\ \A m \in DOMAIN folder : m # n => new[m] = folder[m]
      /\ DOMAIN g.claimed = DOMAIN j.claimed \cup {n} /\ g.claimed[n] = url
      /\ \A m \in DOMAIN j.claimed : m # n => g.claimed[m] = j.claimed[m]
  BY <1>1 DEF W!Put
<1> HIDE DEF new
<1>6. ASSUME NEW i \in 1..k PROVE DoneAt(g, new, i)
  <2>1. CASE i = k
    <3>1. g.entries[i].url = url /\ g.entries[i].name = n /\ g.got[i].url = url
      BY <1>1, <1>2, <1>4, <2>1
    <3>2. Page(g, i) = [url |-> url, v |-> j.v]
      BY <1>1, <3>1 DEF Page
    <3> QED BY <1>5, <3>1, <3>2 DEF DoneAt
  <2>2. CASE i # k
    <3>1. i \in 1..(k - 1) /\ DoneAt(j, folder, i)
      BY <1>2, <2>2 DEF Progress
    <3>2. g.entries[i] = j.entries[i] /\ g.got[i] = j.got[i] /\ Page(g, i) = Page(j, i)
      BY <1>1, <1>4, <3>1 DEF Page
    <3>3. j.entries[i].name # n
      BY <3>1 DEF DoneAt
    <3> QED BY <1>5, <3>1, <3>2, <3>3 DEF DoneAt
  <2> QED BY <2>1, <2>2
<1>7. ASSUME NEW m \in DOMAIN g.claimed PROVE \E i \in 1..k : g.entries[i].name = m
  <2>1. CASE m = n
    BY <1>2, <1>4, <2>1
  <2>2. CASE m # n
    <3>1. PICK i \in 1..(k - 1) : j.entries[i].name = m
      BY <1>2, <1>5, <2>2 DEF Progress
    <3>2. i \in 1..k /\ g.entries[i] = j.entries[i]
      BY <1>2, <1>4, <3>1
    <3> QED BY <3>1, <3>2
  <2> QED BY <2>1, <2>2
<1>8. g.next - 1 = k /\ g.next \in 1..(Len(g.got) + 1)
  BY <1>1, <1>2
<1>9. /\ g.at = "save" => g.next <= Len(g.got)
      /\ g.at = "index" => g.next = Len(g.got) + 1
      /\ Saves(g)
  BY <1>1, <1>2 DEF Saves
<1> QED BY <1>1, <1>4, <1>6, <1>7, <1>8, <1>9, Zenon DEF Progress, new

(* Only archivers crawl, and none saves a page that is just fetched.        *)
CrawlsKnown ==
    /\ DOMAIN job = Callers /\ DOMAIN files = W!Folders /\ DOMAIN index = W!Folders
    /\ \A c \in Callers :
         /\ DOMAIN job[c] = JobFields
         /\ job[c].at # "idle" => job[c].url \in Roots /\ (c \in Archivers \/ job[c].tool = "fetch")
         /\ Saves(job[c]) => job[c].tool # "fetch"

ArchiveInv ==
    /\ CrawlsKnown
    /\ \A c \in Callers : Progress(job[c], files[W!Folder(c)])

\* A step of c that leaves the files alone; j is its call after it.
Fine(c, j) ==
    /\ DOMAIN j = JobFields
    /\ j.at # "idle" => j.url \in Roots /\ (c \in Archivers \/ j.tool = "fetch")
    /\ Saves(j) => j.tool # "fetch"
Moves(c) ==
    /\ files' = files /\ DOMAIN index' = DOMAIN index
    /\ \E j : /\ job' = [job EXCEPT ![c] = j] /\ Fine(c, j)
              /\ \E f : Progress(j, f) /\ (Saves(j) => f = files[Slug[j.url]])

LEMMA MovesKeep ==
    ASSUME ArchiveInv, NEW c \in Callers, Moves(c)
    PROVE  ArchiveInv'
<1>1. PICK j, f : /\ job' = [job EXCEPT ![c] = j] /\ Fine(c, j)
                  /\ Progress(j, f) /\ (Saves(j) => f = files[Slug[j.url]])
  BY DEF Moves
<1>2. /\ DOMAIN job' = Callers /\ job'[c] = j
      /\ \A d \in Callers \ {c} : job'[d] = job[d]
  BY <1>1 DEF ArchiveInv, CrawlsKnown
<1>3. files' = files /\ DOMAIN index' = DOMAIN index
  BY DEF Moves
<1>4. CrawlsKnown'
  BY <1>1, <1>2, <1>3 DEF ArchiveInv, CrawlsKnown, Fine
<1>5. Progress(j, files[Slug[j.url]])
  BY <1>1, AnyFolder
<1>6. Progress(job'[c], files'[Slug[job'[c].url]])
  BY <1>2, <1>3, <1>5
<1>7. \A d \in Callers \ {c} : Progress(job'[d], files'[Slug[job'[d].url]])
  BY <1>2, <1>3 DEF ArchiveInv, W!Folder
<1>8. \A d \in Callers : Progress(job[d], files[W!Folder(d)])'
  BY <1>6, <1>7 DEF W!Folder
<1> QED BY <1>4, <1>8 DEF ArchiveInv

LEMMA NothingDone ==
    ASSUME NEW j, DOMAIN j = JobFields, j.got = << >>, j.next = 1, j.claimed = << >>, j.entries = << >>,
           ~Saves(j), NEW f
    PROVE  Progress(j, f)
<1>1. 1..(j.next - 1) = {} /\ DOMAIN j.claimed = {} /\ DOMAIN j.got = {}
  OBVIOUS
<1>2. /\ j.got \in Seq(Shots) /\ Distinct(j.got) /\ j.next \in 1..(Len(j.got) + 1)
      /\ j.entries \in Seq(Entries) /\ Len(j.entries) = j.next - 1
  BY <1>1 DEF Distinct
<1>3. j.at # "save" /\ j.at # "index"
  BY DEF Saves
<1> QED BY <1>1, <1>2, <1>3 DEF Progress

LEMMA NoJobIs ==
    /\ DOMAIN W!NoJob = JobFields /\ W!NoJob.at = "idle"
    /\ W!NoJob.got = << >> /\ W!NoJob.next = 1 /\ W!NoJob.claimed = << >> /\ W!NoJob.entries = << >>
  BY DEF W!NoJob, JobFields

LEMMA ArchiveInit == W!Init => ArchiveInv
<1> SUFFICES ASSUME W!Init PROVE ArchiveInv
  OBVIOUS
<1>1. /\ job = [c \in Callers |-> W!NoJob]
      /\ DOMAIN files = W!Folders /\ DOMAIN index = W!Folders
  BY DEF W!Init
<1>2. \A c \in Callers : Progress(job[c], files[W!Folder(c)])
  <2>1. ASSUME NEW f PROVE Progress(W!NoJob, f)
    BY NoJobIs, NothingDone DEF Saves
  <2> QED BY <1>1, <2>1
<1> QED BY <1>1, <1>2, NoJobIs DEF ArchiveInv, CrawlsKnown, Saves

LEMMA AnswersMove ==
    ASSUME ArchiveInv, NEW c \in Callers, NEW what, W!Answers(c, what),
           files' = files, DOMAIN index' = DOMAIN index
    PROVE  Moves(c)
<1>1. job' = [job EXCEPT ![c] = W!NoJob]
  BY DEF W!Answers
<1>2. \A f : Progress(W!NoJob, f)
  BY NoJobIs, NothingDone DEF Saves
<1>3. Fine(c, W!NoJob) /\ ~Saves(W!NoJob)
  BY NoJobIs DEF Fine, Saves
<1> QED BY <1>1, <1>2, <1>3 DEF Moves

LEMMA GoesMove ==
    ASSUME ArchiveInv, NEW c \in Callers, job[c].at \in {"cache", "lock"}, NEW at \in {"lock", "browse"},
           W!Goes(c, at), files' = files, DOMAIN index' = DOMAIN index
    PROVE  Moves(c)
<1> DEFINE j == [job[c] EXCEPT !.at = at]
<1>1. job' = [job EXCEPT ![c] = j]
  BY DEF W!Goes
<1>2. Progress(job[c], files[W!Folder(c)]) /\ DOMAIN job[c] = JobFields
  BY DEF ArchiveInv, CrawlsKnown
<1>3. /\ DOMAIN j = JobFields /\ j.at = at /\ j.url = job[c].url /\ j.tool = job[c].tool
      /\ j.got = job[c].got /\ j.next = job[c].next /\ j.v = job[c].v
      /\ j.claimed = job[c].claimed /\ j.entries = job[c].entries
  BY <1>2 DEF JobFields
<1> HIDE DEF j
<1>4. ~Saves(j) /\ ~Saves(job[c])
  BY <1>3 DEF Saves
<1>5. Progress(j, files[W!Folder(c)])
  <2>1. j.next = 1 /\ 1..(j.next - 1) = {} /\ j.at # "save" /\ j.at # "index"
    BY <1>2, <1>3, <1>4 DEF Progress, Saves
  <2> QED BY <1>2, <1>3, <2>1 DEF Progress
<1>6. Fine(c, j)
  BY <1>3, <1>4 DEF Fine, ArchiveInv, CrawlsKnown
<1> QED BY <1>1, <1>4, <1>5, <1>6 DEF Moves

LEMMA BeginMoves ==
    ASSUME ArchiveInv, NEW c \in Callers, NEW tool, NEW at \in {"cache", "lock"}, W!Begin(c, tool, at),
           c \in Archivers \/ tool = "fetch"
    PROVE  Moves(c)
<1>1. files' = files /\ index' = index
  BY DEF W!Begin, W!drive
<1>2. PICK r \in Roots :
        IF r \in Private THEN W!Answers(c, "blocked")
        ELSE job' = [job EXCEPT ![c] = [W!NoJob EXCEPT !.at = at, !.tool = tool, !.url = r, !.v = webCalls + 1]]
  BY DEF W!Begin
<1>3. CASE r \in Private
  BY <1>1, <1>2, <1>3, AnswersMove
<1>4. CASE r \notin Private
  <2>1. PICK j : j = [W!NoJob EXCEPT !.at = at, !.tool = tool, !.url = r, !.v = webCalls + 1]
    OBVIOUS
  <2>2. /\ DOMAIN j = JobFields /\ j.at = at /\ j.tool = tool /\ j.url = r
        /\ j.got = << >> /\ j.next = 1 /\ j.claimed = << >> /\ j.entries = << >>
    BY <2>1 DEF W!NoJob, JobFields
  <2>3. ~Saves(j) /\ j.at # "idle"
    BY <2>2 DEF Saves
  <2>4. Fine(c, j) /\ Progress(j, files)
    BY <2>2, <2>3, NothingDone DEF Fine
  <2> QED BY <1>1, <1>2, <1>4, <2>1, <2>3, <2>4 DEF Moves
<1> QED BY <1>3, <1>4

LEMMA BrowsedMoves ==
    ASSUME ArchiveInv, NEW c \in Callers, W!Browsed(c)
    PROVE  Moves(c)
<1>1. files' = files /\ index' = index /\ job[c].at = "browse"
  BY DEF W!Browsed, W!drive
<1>2. PICK raw \in Crawls :
        \/ \E what : W!Answers(c, what)
        \/ /\ job[c].tool # "fetch" /\ ~(\A p \in W!Range(W!PagesOf(raw)) : p.size = W!Stub)
           /\ job' = [job EXCEPT ![c].at = "save", ![c].got = W!PagesOf(raw)]
  BY Zenon DEF W!Browsed
<1>3. CASE \E what : W!Answers(c, what)
  BY <1>1, <1>3, AnswersMove
<1>4. CASE /\ job[c].tool # "fetch" /\ ~(\A p \in W!Range(W!PagesOf(raw)) : p.size = W!Stub)
           /\ job' = [job EXCEPT ![c].at = "save", ![c].got = W!PagesOf(raw)]
  <2>1. PICK got : got = W!PagesOf(raw)
    OBVIOUS
  <2>2. got \in Seq(Shots) /\ Distinct(got)
    <3>1. raw \in Seq(Shots)
      BY WebAssumption DEF Shots
    <3> QED BY <2>1, <3>1, PagesDistinct
  <2>3. Len(got) \in Nat /\ Len(got) # 0
    <3>1. W!Range(got) # {}
      BY <1>4, <2>1
    <3> QED BY <2>2, <3>1 DEF W!Range
  <2>4. PICK j : j = [job[c] EXCEPT !.at = "save", !.got = got]
    OBVIOUS
  <2>5. job' = [job EXCEPT ![c] = j]
    BY <1>4, <2>1, <2>4 DEF ArchiveInv, CrawlsKnown
  <2>6. Progress(job[c], files[W!Folder(c)]) /\ DOMAIN job[c] = JobFields
    BY DEF ArchiveInv, CrawlsKnown
  <2>7. /\ DOMAIN j = JobFields /\ j.at = "save" /\ j.got = got /\ j.url = job[c].url /\ j.tool = job[c].tool
        /\ j.next = job[c].next /\ j.claimed = job[c].claimed /\ j.entries = job[c].entries
    BY <2>4, <2>6 DEF JobFields
  <2>8. j.next = 1 /\ 1..(j.next - 1) = {}
    BY <1>1, <2>6, <2>7 DEF Progress, Saves
  <2>9. Progress(j, files[Slug[j.url]])
    <3>1. j.next \in 1..(Len(j.got) + 1) /\ j.next <= Len(j.got) /\ Saves(j) /\ j.at # "index"
      BY <2>3, <2>7, <2>8 DEF Saves
    <3>2. /\ j.entries \in Seq(Entries) /\ Len(j.entries) = j.next - 1
          /\ \A name \in DOMAIN j.claimed : \E i \in 1..(j.next - 1) : j.entries[i].name = name
      BY <2>6, <2>7 DEF Progress
    <3> QED BY <2>2, <2>7, <2>8, <3>1, <3>2 DEF Progress
  <2>10. Fine(c, j)
    BY <1>1, <1>4, <2>7 DEF Fine, ArchiveInv, CrawlsKnown
  <2> QED BY <1>1, <2>5, <2>9, <2>10 DEF Moves
<1> QED BY <1>2, <1>3, <1>4

(* One writer at a time: two crawls of one site at once would each write    *)
(* the other's files.                                                       *)
OneArchiver == \A c, d \in Archivers : c = d

LEMMA SaveKeeps ==
    ASSUME OneArchiver, ArchiveInv, NEW c \in Callers, W!SavePage(c)
    PROVE  ArchiveInv'
<1> DEFINE p == job[c].got[job[c].next]
           n == W!NameOf(c, p.url)
           new == [url |-> p.url, v |-> job[c].v]
<1>1. job[c].at = "save" /\ index' = index
  BY DEF W!SavePage
<1>2. PICK j : j = [job[c] EXCEPT !.claimed = W!Put(@, n, p.url),
                                  !.entries = Append(@, [url |-> p.url, name |-> n]),
                                  !.next = @ + 1,
                                  !.at = IF job[c].next = Len(job[c].got) THEN "index" ELSE "save"]
  OBVIOUS
<1>3. /\ job' = [job EXCEPT ![c] = j]
      /\ files' = [files EXCEPT ![W!Folder(c)] = W!Put(@, n, new)]
  <2>1. job' = [job EXCEPT ![c] = j]
    BY <1>2 DEF W!SavePage
  <2>2. files' = [files EXCEPT ![W!Folder(c)] = W!Put(@, n, new)]
    BY DEF W!SavePage
  <2> QED BY <2>1, <2>2
<1>4. Progress(job[c], files[W!Folder(c)]) /\ DOMAIN job[c] = JobFields
  BY DEF ArchiveInv, CrawlsKnown
<1>5. n \notin DOMAIN job[c].claimed /\ n \in {Slug[p.url]} \X Nat
  BY <1>1, <1>4, NewName
<1> HIDE DEF n
<1>6. Progress(j, W!Put(files[W!Folder(c)], n, new))
  BY <1>1, <1>2, <1>4, <1>5, PageIsSaved
<1>7. /\ DOMAIN j = JobFields /\ j.at \in {"save", "index"} /\ j.url = job[c].url /\ j.tool = job[c].tool
  BY <1>2, <1>4 DEF JobFields
<1> HIDE DEF p, new
<1>8. /\ DOMAIN job' = Callers /\ job'[c] = j /\ \A d \in Callers \ {c} : job'[d] = job[d]
  BY <1>3 DEF ArchiveInv, CrawlsKnown
<1>9. W!Folder(c) \in W!Folders
  BY <1>1 DEF ArchiveInv, CrawlsKnown, W!Folder, W!Folders
<1>10. /\ DOMAIN files' = W!Folders /\ files'[W!Folder(c)] = W!Put(files[W!Folder(c)], n, new)
  BY <1>3, <1>9 DEF ArchiveInv, CrawlsKnown
<1>11. c \in Archivers /\ job[c].tool # "fetch"
  BY <1>1 DEF ArchiveInv, CrawlsKnown, Saves
<1>12. CrawlsKnown'
  BY <1>1, <1>7, <1>8, <1>10, <1>11 DEF ArchiveInv, CrawlsKnown, Saves
<1>13. Progress(job'[c], files'[Slug[job'[c].url]])
  BY <1>6, <1>7, <1>8, <1>10 DEF W!Folder
<1>14. ASSUME NEW d \in Callers \ {c} PROVE Progress(job'[d], files'[Slug[job'[d].url]])
  <2>1. ~Saves(job[d])
    BY <1>11, <1>14 DEF OneArchiver, ArchiveInv, CrawlsKnown, Saves
  <2>2. Progress(job[d], files[W!Folder(d)])
    BY DEF ArchiveInv
  <2>3. \A f : Progress(job[d], f)
    BY <2>1, <2>2, AnyFolder
  <2> QED BY <1>8, <2>3
<1>15. \A d \in Callers : Progress(job[d], files[W!Folder(d)])'
  BY <1>13, <1>14 DEF W!Folder
<1> QED BY <1>12, <1>15 DEF ArchiveInv

LEMMA CallMoves ==
    ASSUME ArchiveInv, NEW c \in Callers,
           \/ W!BeginCrawl(c) \/ W!BeginRefresh(c) \/ W!BeginFetch(c) \/ W!SearchSite(c) \/ W!ReadManifest(c)
           \/ W!OpenBrowser(c) \/ W!WaitedTooLong(c) \/ W!Browsed(c) \/ W!BrowserFails(c) \/ W!SaveIndex(c)
           \/ W!DriveFails(c)
    PROVE  Moves(c)
<1>1. CASE W!BeginCrawl(c) \/ W!BeginRefresh(c) \/ W!BeginFetch(c)
  BY <1>1, BeginMoves DEF W!BeginCrawl, W!BeginRefresh, W!BeginFetch
<1>2. CASE W!SearchSite(c)
  BY <1>2, AnswersMove DEF W!SearchSite, W!drive
<1>3. CASE W!ReadManifest(c)
  <2>1. /\ files' = files /\ index' = index /\ job[c].at = "cache"
        /\ W!Goes(c, "lock") \/ W!Answers(c, "cached")
    BY <1>3 DEF W!ReadManifest, W!drive
  <2> QED BY <2>1, AnswersMove, GoesMove
<1>4. CASE W!OpenBrowser(c)
  <2>1. files' = files /\ index' = index /\ job[c].at = "lock" /\ W!Goes(c, "browse")
    BY <1>4 DEF W!OpenBrowser, W!drive
  <2> QED BY <2>1, GoesMove
<1>5. CASE W!WaitedTooLong(c) \/ W!BrowserFails(c) \/ W!DriveFails(c)
  <2>1. files' = files /\ index' = index /\ W!Answers(c, "failed")
    BY <1>5 DEF W!WaitedTooLong, W!BrowserFails, W!DriveFails, W!drive
  <2> QED BY <2>1, AnswersMove
<1>6. CASE W!Browsed(c)
  BY <1>6, BrowsedMoves
<1>7. CASE W!SaveIndex(c)
  <2>1. files' = files /\ DOMAIN index' = DOMAIN index /\ W!Answers(c, "saved")
    BY <1>7 DEF W!SaveIndex
  <2> QED BY <2>1, AnswersMove
<1> QED BY <1>1, <1>2, <1>3, <1>4, <1>5, <1>6, <1>7

LEMMA ArchiveStep ==
    ASSUME OneArchiver
    PROVE  ArchiveInv /\ [W!Next]_(W!vars) => ArchiveInv'
<1> SUFFICES ASSUME ArchiveInv, [W!Next]_(W!vars) PROVE ArchiveInv'
  OBVIOUS
<1>1. CASE W!Tick \/ UNCHANGED W!vars
  BY <1>1 DEF W!Tick, W!vars, W!drive, ArchiveInv, CrawlsKnown, W!Folder
<1>2. ASSUME NEW c \in Callers,
             W!BeginCrawl(c) \/ W!BeginRefresh(c) \/ W!BeginFetch(c) \/ W!SearchSite(c) \/ W!Step(c)
      PROVE  ArchiveInv'
  BY <1>2, CallMoves, MovesKeep, SaveKeeps DEF W!Step
<1> QED BY <1>1, <1>2 DEF W!Next

SaidByAll == DOMAIN webSaid = Callers

(* The manifest that is written last names what was saved.                  *)
ManifestTrue(c) ==
    job[c].at = "index" /\ webSaid'[c] = "saved" /\ job'[c].at = "idle" =>
        LET m == index'[W!Folder(c)].pages
        IN  /\ \A i, k \in DOMAIN m : m[i].url = m[k].url => i = k
            /\ {e.url : e \in W!Range(m)} = {p.url : p \in W!Range(job[c].got)}
            /\ \A p \in W!Range(job[c].got) : \E e \in W!Range(m) :
                 e.url = p.url /\ files'[W!Folder(c)][e.name] = [url |-> p.url, v |-> job[c].v]

LEMMA ProgressDone ==
    ASSUME NEW j, NEW folder, Progress(j, folder), j.at = "index"
    PROVE  LET m == j.entries
           IN  /\ \A i, k \in DOMAIN m : m[i].url = m[k].url => i = k
               /\ {e.url : e \in W!Range(m)} = {p.url : p \in W!Range(j.got)}
               /\ \A p \in W!Range(j.got) : \E e \in W!Range(m) :
                    e.url = p.url /\ folder[e.name] = [url |-> p.url, v |-> j.v]
<1> DEFINE m == j.entries
<1>1. PICK n \in Nat : n = Len(j.got)
  BY DEF Progress
<1>2. DOMAIN j.got = 1..n /\ DOMAIN m = 1..n /\ 1..(j.next - 1) = 1..n
  BY <1>1 DEF Progress
<1>3. \A i \in 1..n : m[i].url = j.got[i].url /\ folder[m[i].name] = [url |-> j.got[i].url, v |-> j.v]
  BY <1>2 DEF Progress, DoneAt, Page
<1> HIDE DEF m
<1>4. \A i, k \in 1..n : m[i].url = m[k].url => i = k
  BY <1>2, <1>3 DEF Progress, Distinct
<1>5. W!Range(m) = {m[i] : i \in 1..n} /\ W!Range(j.got) = {j.got[i] : i \in 1..n}
  BY <1>2 DEF W!Range
<1>6. {e.url : e \in W!Range(m)} = {p.url : p \in W!Range(j.got)}
  <2>1. {e.url : e \in W!Range(m)} = {m[i].url : i \in 1..n}
    BY <1>5
  <2>2. {p.url : p \in W!Range(j.got)} = {j.got[i].url : i \in 1..n}
    BY <1>5
  <2> QED BY <1>3, <2>1, <2>2
<1>7. \A p \in W!Range(j.got) : \E e \in W!Range(m) :
        e.url = p.url /\ folder[e.name] = [url |-> p.url, v |-> j.v]
  BY <1>3, <1>5
<1> QED BY <1>2, <1>4, <1>6, <1>7 DEF m

LEMMA ManifestStep ==
    ASSUME ArchiveInv, SaidByAll, W!Next, NEW c \in Callers
    PROVE  ManifestTrue(c)
<1> SUFFICES ASSUME job[c].at = "index", webSaid'[c] = "saved", job'[c].at = "idle" PROVE ManifestTrue(c)
  BY DEF ManifestTrue
<1>1. ASSUME NEW d \in Callers \ {c},
             W!BeginCrawl(d) \/ W!BeginRefresh(d) \/ W!BeginFetch(d) \/ W!SearchSite(d) \/ W!Step(d)
      PROVE  FALSE
  <2>1. Moves(d) \/ W!SavePage(d)
    BY <1>1, CallMoves DEF W!Step
  <2>2. \E j : job' = [job EXCEPT ![d] = j]
    BY <2>1, Zenon DEF Moves, W!SavePage
  <2>3. job'[c] = job[c]
    BY <2>2 DEF ArchiveInv, CrawlsKnown
  <2> QED BY <2>3
<1>2. ~W!Tick
  BY DEF W!Tick
<1>3. ~(W!BeginCrawl(c) \/ W!BeginRefresh(c) \/ W!BeginFetch(c) \/ W!SearchSite(c))
  BY DEF W!BeginCrawl, W!BeginRefresh, W!BeginFetch, W!SearchSite, W!Begin
<1>4. ~(W!ReadManifest(c) \/ W!OpenBrowser(c) \/ W!WaitedTooLong(c) \/ W!Browsed(c) \/ W!BrowserFails(c) \/ W!SavePage(c))
  BY DEF W!ReadManifest, W!OpenBrowser, W!WaitedTooLong, W!Browsed, W!BrowserFails, W!SavePage
<1>5. ~W!DriveFails(c)
  <2>1. W!DriveFails(c) => webSaid'[c] = "failed"
    BY DEF W!DriveFails, W!Answers, SaidByAll
  <2> QED BY <2>1
<1>6. W!SaveIndex(c)
  BY <1>1, <1>2, <1>3, <1>4, <1>5 DEF W!Next, W!Step
<1>7. /\ index' = [index EXCEPT ![W!Folder(c)] =
                    [url |-> job[c].url, at |-> now, pages |-> job[c].entries]]
      /\ files' = files
  BY <1>6 DEF W!SaveIndex
<1>8. W!Folder(c) \in DOMAIN index
  BY DEF ArchiveInv, CrawlsKnown, W!Folder, W!Folders
<1>9. index'[W!Folder(c)].pages = job[c].entries
  BY <1>7, <1>8
<1>10. Progress(job[c], files[W!Folder(c)])
  BY DEF ArchiveInv
<1> DEFINE j == job[c]
           folder == files[W!Folder(c)]
           m == j.entries
<1>11. /\ \A i, k \in DOMAIN m : m[i].url = m[k].url => i = k
       /\ {e.url : e \in W!Range(m)} = {p.url : p \in W!Range(j.got)}
       /\ \A p \in W!Range(j.got) : \E e \in W!Range(m) :
            e.url = p.url /\ folder[e.name] = [url |-> p.url, v |-> j.v]
  BY <1>10, ProgressDone
<1>12. files'[W!Folder(c)] = folder
  BY <1>7
<1> QED BY <1>9, <1>11, <1>12, Zenon DEF ManifestTrue

LEMMA SaidStep == SaidByAll /\ [W!Next]_(W!vars) => SaidByAll'
<1> SUFFICES ASSUME SaidByAll, [W!Next]_(W!vars) PROVE SaidByAll'
  OBVIOUS
<1>1. ASSUME NEW c \in Callers, NEW what, W!Answers(c, what) PROVE SaidByAll'
  BY <1>1 DEF W!Answers, SaidByAll
<1>2. ASSUME NEW c \in Callers,
             W!BeginCrawl(c) \/ W!BeginRefresh(c) \/ W!BeginFetch(c) \/ W!SearchSite(c) \/ W!Step(c)
      PROVE  SaidByAll'
  <2>1. (\E what : W!Answers(c, what)) \/ webSaid' = webSaid
    <3>1. CASE W!BeginCrawl(c) \/ W!BeginRefresh(c) \/ W!BeginFetch(c)
      BY <3>1 DEF W!BeginCrawl, W!BeginRefresh, W!BeginFetch, W!Begin
    <3>2. CASE W!SearchSite(c)
      BY <3>2 DEF W!SearchSite
    <3>3. CASE W!ReadManifest(c) \/ W!OpenBrowser(c) \/ W!WaitedTooLong(c) \/ W!BrowserFails(c)
      BY <3>3 DEF W!ReadManifest, W!OpenBrowser, W!WaitedTooLong, W!BrowserFails
    <3>4. CASE W!Browsed(c)
      BY <3>4, Zenon DEF W!Browsed
    <3>5. CASE W!SavePage(c) \/ W!SaveIndex(c) \/ W!DriveFails(c)
      BY <3>5 DEF W!SavePage, W!SaveIndex, W!DriveFails
    <3> QED BY <1>2, <3>1, <3>2, <3>3, <3>4, <3>5 DEF W!Step
  <2> QED BY <1>1, <2>1 DEF SaidByAll
<1>3. CASE W!Tick \/ UNCHANGED W!vars
  BY <1>3 DEF W!Tick, W!vars, SaidByAll
<1> QED BY <1>2, <1>3 DEF W!Next

(* A crawl that is reported as saved is archived: every page it brought,    *)
(* each once, under an entry that names the file with that page as just     *)
(* crawled, for any sites, names and results, if one caller at a time       *)
(* archives (save_crawl).                                                   *)
THEOREM SavedCrawlIsArchived ==
    ASSUME OneArchiver
    PROVE  Spec => SavedIsArchived
<1>1. Init => ArchiveInv /\ SaidByAll
  <2>1. W!Init => SaidByAll
    BY DEF W!Init, SaidByAll
  <2> QED BY <2>1, WebPart, ArchiveInit
<1>2. ArchiveInv /\ SaidByAll /\ [Next]_everything => (ArchiveInv /\ SaidByAll)'
  BY WebPart, ArchiveStep, SaidStep
<1>3. ArchiveInv /\ SaidByAll /\ [Next]_everything =>
        [\A c \in Callers : ManifestTrue(c)]_(W!vars)
  BY WebPart, ManifestStep
<1>4. SavedIsArchived <=> [][\A c \in Callers : ManifestTrue(c)]_(W!vars)
  BY DEF SavedIsArchived, W!SavedIsArchived, ManifestTrue
<1> QED BY <1>1, <1>2, <1>3, <1>4, PTL DEF Spec
===============================================================================
