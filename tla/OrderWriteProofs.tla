-------------------------- MODULE OrderWriteProofs --------------------------
(***************************************************************************)
(* Proofs about OrderWrite, for every value of its constants: what the     *)
(* frame of a call is at every stage (types, scopes, the write), and from  *)
(* it the two gates, the replies and the account query.                    *)
(***************************************************************************)
EXTENDS OrderWrite, SequenceTheorems, TLAPS

(* The frame of a call. *)

LEMMA ScopeType ==
    ASSUME NEW k \in Kinds, NEW a \in Accounts, NEW o \in Orders \cup {NoOrder},
           NEW b \in Bodies \cup {NoBody}
    PROVE  OrderWriteScope(k, a, o, b) \in Scope
BY DEF OrderWriteScope, Scope

LEMMA KindType == ASSUME NEW op \in Methods PROVE Kind(op) \in Kinds
BY DEF Kind, Methods, Kinds

LEMMA FrameFields ==
    ASSUME NEW f \in Frame
    PROVE  /\ f.op \in Methods /\ f.pc \in Stages /\ f.why \in Reasons
           /\ f.since \in Nat /\ f.tries \in Nat /\ f.dict \in Bodies \cup {NoBody}
           /\ f.scope \in Scope \cup {NoScope} /\ f.chain \in Scope \cup {NoScope}
           /\ f.auth \in Authorization \cup {NoAuth} /\ f.rid \in ReplyId
           /\ f.yes \in BOOLEAN
           /\ f.queue \in Seq(ReplyId) /\ f.latest \in Seq(ReplyId)
           /\ f.answered \in SUBSET ReplyId
           /\ f.log \in SUBSET (ReplyId \X BOOLEAN) /\ f.sent \in Nat /\ f.shed \in Nat
BY Zenon DEF Frame

LEMMA GotoType ==
    ASSUME NEW f \in Frame, NEW stage \in Stages, now \in Nat
    PROVE  Goto(f, stage) \in Frame
BY Zenon, 0 \in Nat DEF Goto, Frame

\* Goto changes the stage, its start and the attempts, and nothing else.
LEMMA GotoFields ==
    ASSUME NEW f \in Frame, NEW stage
    PROVE  LET g == Goto(f, stage) IN
           /\ g.pc = stage /\ g.since = now /\ g.tries = 0
           /\ g.op = f.op /\ g.why = f.why /\ g.dict = f.dict
           /\ g.scope = f.scope /\ g.chain = f.chain /\ g.auth = f.auth
           /\ g.rid = f.rid /\ g.yes = f.yes
           /\ g.queue = f.queue /\ g.latest = f.latest
           /\ g.answered = f.answered /\ g.log = f.log /\ g.sent = f.sent
           /\ g.shed = f.shed
BY Zenon DEF Goto, Frame

LEMMA RaiseType ==
    ASSUME NEW f \in Frame, now \in Nat, NEW reason \in Reasons
    PROVE  Raise(f, reason) \in Frame
<1>. DEFINE h == Goto(f, "raised")
<1>1. h \in Frame
  BY GotoType DEF Stages, Ended
<1>2. Raise(f, reason) = [h EXCEPT !.why = reason]
  BY DEF Raise
<1>. HIDE DEF h
<1>3. [h EXCEPT !.why = reason] \in Frame
  BY <1>1, ZenonT(40) DEF Frame
<1>. QED
  BY <1>2, <1>3

LEMMA RaiseFields ==
    ASSUME NEW f \in Frame, NEW reason
    PROVE  LET g == Raise(f, reason) IN
           /\ g.pc = "raised" /\ g.why = reason /\ g.since = now /\ g.tries = 0
           /\ g.op = f.op /\ g.dict = f.dict
           /\ g.scope = f.scope /\ g.chain = f.chain /\ g.auth = f.auth
           /\ g.rid = f.rid /\ g.yes = f.yes
           /\ g.queue = f.queue /\ g.latest = f.latest
           /\ g.answered = f.answered /\ g.log = f.log /\ g.sent = f.sent
           /\ g.shed = f.shed
BY Zenon DEF Raise, Goto, Frame

LEMMA AfterGate1Type ==
    ASSUME NEW f \in Frame, now \in Nat
    PROVE  /\ AfterGate1(f) \in Frame
           /\ \E stage \in {"read", "dialog"} : AfterGate1(f) = Goto(f, stage)
<1>1. {"read", "dialog"} \subseteq Stages
  BY DEF Stages, Showing
<1>. QED
  BY <1>1, GotoType, Zenon DEF AfterGate1

LEMMA IdleType == ASSUME NEW c \in Calls PROVE Idle(c) \in Frame
<1>1. "place" \in Methods /\ "idle" \in Stages /\ "" \in Reasons
  BY DEF Methods, Stages, Reasons
<1>2. 0 \in Nat /\ 0 \in 0..2 /\ <<>> \in Seq(ReplyId)
  OBVIOUS
<1>3. Itself(c) \in ReplyId
  BY <1>2 DEF Itself, ReplyId
<1>. QED
  BY <1>1, <1>2, <1>3, Zenon DEF Idle, Frame

-----------------------------------------------------------------------------
(* One step of one call, as far as its frame goes. *)

\* What has to be shown of a step of c that leaves it with the frame g, whatever
\* the gateway asks in it.
LEMMA StepFrames ==
    ASSUME FramesOK, NEW c \in Calls, NEW g \in Frame,
           call' = [call EXCEPT ![c] = g], FrameOK(g),
           NEW new \in SUBSET ReplyId, raised' = raised \cup new,
           \A r \in new : call'[r[1]].pc \notin BeforeSend,
           call[c].pc \notin BeforeSend => g.pc \notin BeforeSend
    PROVE  /\ call' \in [Calls -> Frame]
           /\ raised' \subseteq ReplyId
           /\ \A d \in Calls : FrameOK(call'[d])
           /\ \A r \in raised' : call'[r[1]].pc \notin BeforeSend
<1>1. call \in [Calls -> Frame] /\ raised \subseteq ReplyId
  BY DEF FramesOK, TypeOK
<1>2. \A d \in Calls : call'[d] = IF d = c THEN g ELSE call[d]
  BY <1>1
<1>3. \A d \in Calls : FrameOK(call'[d])
  BY <1>2 DEF FramesOK
<1>4. ASSUME NEW r \in raised PROVE call'[r[1]].pc \notin BeforeSend
  <2>1. r[1] \in Calls
    BY <1>1 DEF ReplyId
  <2>. QED
    BY <2>1, <1>2 DEF FramesOK
<1>. QED
  BY <1>1, <1>3, <1>4

\* The same for a step that concerns nobody but the call and the human.
LEMMA QuietStep ==
    ASSUME FramesOK, NEW c \in Calls, NEW g \in Frame,
           call' = [call EXCEPT ![c] = g], FrameOK(g),
           call[c].pc \notin BeforeSend => g.pc \notin BeforeSend,
           UNCHANGED <<now, drops, up, gateway>>,
           ready' \in BOOLEAN, primed' \in BOOLEAN,
           touches' \subseteq Touch,
           confirms' \subseteq Shown
    PROVE  FramesOK'
<1>1. raised' = raised \cup {}
  BY DEF gateway
<1>2. /\ call' \in [Calls -> Frame]
      /\ \A d \in Calls : FrameOK(call'[d])
      /\ \A r \in raised' : call'[r[1]].pc \notin BeforeSend
  BY <1>1, StepFrames, {} \in SUBSET ReplyId
<1>3. TypeOK'
  BY <1>2 DEF FramesOK, TypeOK, gateway
<1>. QED
  BY <1>2, <1>3 DEF FramesOK, FrameOK

LEMMA RaiseOK ==
    ASSUME NEW f \in Frame, now \in Nat, NEW reason \in Reasons, FrameOK(f),
           f.pc # "idle"
    PROVE  /\ Raise(f, reason) \in Frame
           /\ FrameOK(Raise(f, reason))
           /\ Raise(f, reason).pc \notin BeforeSend
<1>1. Raise(f, reason) \in Frame
  BY RaiseType
<1>2. /\ Raise(f, reason).pc = "raised" /\ Raise(f, reason).sent = f.sent
      /\ Raise(f, reason).scope = f.scope
  BY RaiseFields, Zenon
<1>. QED
  BY <1>1, <1>2 DEF FrameOK, ReplyStages, BeforeSend

\* What a 503 makes of a frame: the same stage with one attempt less, or the end.
LEMMA UnavailableFields ==
    ASSUME NEW f \in Frame, now \in Nat
    PROVE  LET g == Unavailable(f) IN
           /\ g \in Frame
           /\ \/ /\ f.tries < MaxRetries /\ g.tries = f.tries + 1
                 /\ g.pc = f.pc /\ g.since = f.since /\ g.why = f.why
              \/ g.pc = "raised" /\ g.since = now /\ g.why = "failed" /\ g.tries = 0
           /\ g.op = f.op /\ g.dict = f.dict
           /\ g.scope = f.scope /\ g.chain = f.chain /\ g.auth = f.auth
           /\ g.rid = f.rid /\ g.yes = f.yes
           /\ g.queue = f.queue /\ g.latest = f.latest
           /\ g.answered = f.answered /\ g.log = f.log /\ g.sent = f.sent
           /\ g.shed = f.shed
<1>1. CASE f.tries < MaxRetries
  <2>. DEFINE n == f.tries + 1
              h == [f EXCEPT !.tries = n]
  <2>1. Unavailable(f) = h
    BY <1>1 DEF Unavailable
  <2>2. n \in Nat /\ n = f.tries + 1
    BY FrameFields
  <2>. HIDE DEF n
  <2>3. h \in Frame
    BY <2>2, Zenon DEF Frame
  <2>4. /\ h.pc = f.pc /\ h.since = f.since /\ h.tries = n /\ h.why = f.why
        /\ h.op = f.op /\ h.dict = f.dict
        /\ h.scope = f.scope /\ h.chain = f.chain /\ h.auth = f.auth
        /\ h.rid = f.rid /\ h.yes = f.yes
        /\ h.queue = f.queue /\ h.latest = f.latest
        /\ h.answered = f.answered /\ h.log = f.log /\ h.sent = f.sent
        /\ h.shed = f.shed
    BY Zenon DEF Frame
  <2>. HIDE DEF h
  <2>. QED
    BY <1>1, <2>1, <2>2, <2>3, <2>4
<1>2. CASE ~(f.tries < MaxRetries)
  <2>1. "failed" \in Reasons /\ Unavailable(f) = Raise(f, "failed")
    BY <1>2 DEF Reasons, Unavailable
  <2>2. Raise(f, "failed") \in Frame
    BY <2>1, RaiseType
  <2>. QED
    BY <2>1, <2>2, RaiseFields
<1>. QED
  BY <1>1, <1>2

LEMMA UnavailableOK ==
    ASSUME NEW f \in Frame, now \in Nat, FrameOK(f), f.pc # "idle"
    PROVE  LET g == Unavailable(f) IN
           /\ g \in Frame /\ FrameOK(g)
           /\ f.pc \notin BeforeSend => g.pc \notin BeforeSend
<1>. DEFINE g == Unavailable(f)
<1>1. /\ g \in Frame /\ (g.pc = f.pc \/ g.pc = "raised")
      /\ g.op = f.op /\ g.scope = f.scope /\ g.chain = f.chain /\ g.auth = f.auth
      /\ g.queue = f.queue /\ g.sent = f.sent
  BY UnavailableFields
<1>. HIDE DEF g
<1>2. CASE g.pc = f.pc
  BY <1>1, <1>2 DEF FrameOK, g
<1>3. CASE g.pc = "raised"
  BY <1>1, <1>3 DEF FrameOK, BeforeSend, ReplyStages, g
<1>. QED
  BY <1>1, <1>2, <1>3 DEF g

\* A write that is counted as processed and answered 503.
LEMMA ShedFields ==
    ASSUME NEW f \in Frame
    PROVE  LET g == [f EXCEPT !.shed = @ + 1] IN
           /\ g \in Frame /\ g.shed = f.shed + 1
           /\ g.pc = f.pc /\ g.since = f.since /\ g.tries = f.tries
           /\ g.op = f.op /\ g.why = f.why /\ g.dict = f.dict
           /\ g.scope = f.scope /\ g.chain = f.chain /\ g.auth = f.auth
           /\ g.rid = f.rid /\ g.yes = f.yes
           /\ g.queue = f.queue /\ g.latest = f.latest
           /\ g.answered = f.answered /\ g.log = f.log /\ g.sent = f.sent
<1>. DEFINE n == f.shed + 1
            h == [f EXCEPT !.shed = n]
<1>1. [f EXCEPT !.shed = @ + 1] = h
  OBVIOUS
<1>2. n \in Nat /\ n = f.shed + 1
  BY FrameFields
<1>. HIDE DEF n
<1>3. h \in Frame
  BY <1>2, Zenon DEF Frame
<1>4. /\ h.shed = n
      /\ h.pc = f.pc /\ h.since = f.since /\ h.tries = f.tries
      /\ h.op = f.op /\ h.why = f.why /\ h.dict = f.dict
      /\ h.scope = f.scope /\ h.chain = f.chain /\ h.auth = f.auth
      /\ h.rid = f.rid /\ h.yes = f.yes
      /\ h.queue = f.queue /\ h.latest = f.latest
      /\ h.answered = f.answered /\ h.log = f.log /\ h.sent = f.sent
  BY Zenon DEF Frame
<1>. HIDE DEF h
<1>. QED
  BY <1>1, <1>2, <1>3, <1>4

LEMMA BeginWriteOK == ASSUME FramesOK, NEW c \in Calls, BeginWrite(c) PROVE FramesOK'
<1>. DEFINE f == call[c]
<1>1. f \in Frame /\ now \in Nat /\ f.sent = 0 /\ FrameOK(f)
  BY DEF FramesOK, TypeOK, BeginWrite, FrameOK, BeforeSend
<1>2. PICK op \in Ops \ (Chained \cup {"reply"}), a \in Accounts :
      \E o \in IF op = "place" THEN {NoOrder} ELSE Orders,
         b \in IF op = "cancel" THEN {NoBody} ELSE Bodies,
         auth \in IF op = "cancel" THEN {NoAuth} ELSE Granted \cup {NoAuth} :
        call' = [call EXCEPT ![c] =
                    [Goto(@, FirstStage(op)) EXCEPT
                       !.op = op, !.dict = b, !.auth = auth,
                       !.scope = OrderWriteScope(Kind(op), a, o, b)]]
  BY Zenon DEF BeginWrite
<1>3. PICK o \in Orders \cup {NoOrder}, b \in Bodies \cup {NoBody},
           auth \in Granted \cup {NoAuth} :
        call' = [call EXCEPT ![c] =
                    [Goto(f, FirstStage(op)) EXCEPT
                       !.op = op, !.dict = b, !.auth = auth,
                       !.scope = OrderWriteScope(Kind(op), a, o, b)]]
  BY <1>2
<1>. DEFINE s == OrderWriteScope(Kind(op), a, o, b)
<1>4. s \in Scope /\ op \in Methods \ Chained
  BY <1>2, ScopeType, KindType, ConstantsOK DEF ConstantsOK
<1>5. auth \in Authorization \cup {NoAuth}
  BY DEF Granted, FramesOK, TypeOK, Frame
<1>6. FirstStage(op) = "accounts" /\ "accounts" \in Stages
  BY <1>4 DEF FirstStage, Stages, Requesting, Chained
<1>7. Goto(f, "accounts") \in Frame /\ Goto(f, "accounts").pc = "accounts"
      /\ Goto(f, "accounts").sent = 0
  BY <1>1, <1>6, GotoType, GotoFields
<1>. DEFINE g == [Goto(f, "accounts") EXCEPT
                     !.op = op, !.dict = b, !.auth = auth, !.scope = s]
<1>8. g \in Frame
  BY <1>4, <1>5, <1>7, Zenon DEF Frame
<1>9. g.pc = "accounts" /\ g.op = op /\ g.scope = s /\ g.sent = 0
  BY <1>7, Zenon DEF Frame
<1>10. call' = [call EXCEPT ![c] = g]
  BY <1>3, <1>6
<1>. HIDE DEF g, s
<1>11. FrameOK(g)
  BY <1>4, <1>9 DEF FrameOK, BeforeSend, ReplyStages
<1>. QED
  BY <1>8, <1>10, <1>11, QuietStep DEF BeginWrite, BeforeSend, session, human,
     FramesOK, TypeOK

LEMMA BeginChainOK == ASSUME FramesOK, NEW c \in Calls, BeginChain(c) PROVE FramesOK'
<1>. DEFINE f == call[c]
<1>1. f \in Frame /\ now \in Nat /\ f.sent = 0 /\ f.auth \in Authorization \cup {NoAuth}
  BY FrameFields DEF FramesOK, TypeOK, BeginChain, FrameOK, BeforeSend
<1>2. PICK op \in Ops \cap Chained, a \in Accounts, b \in Bodies :
      \E o \in IF Kind(op) = "modify" THEN Orders ELSE {NoOrder} :
         LET s == OrderWriteScope(Kind(op), a, o, b)
         IN  call' = [call EXCEPT ![c] =
                 [Goto(@, FirstStage(op)) EXCEPT
                    !.op = op, !.dict = b, !.scope = s, !.chain = s]]
  BY Zenon DEF BeginChain
<1>3. PICK o \in Orders \cup {NoOrder} :
         LET s == OrderWriteScope(Kind(op), a, o, b)
         IN  call' = [call EXCEPT ![c] =
                 [Goto(f, FirstStage(op)) EXCEPT
                    !.op = op, !.dict = b, !.scope = s, !.chain = s]]
  BY <1>2
<1>. DEFINE s == OrderWriteScope(Kind(op), a, o, b)
<1>4. s \in Scope /\ op \in Methods /\ op \in Chained
  BY <1>2, ScopeType, KindType, ConstantsOK DEF ConstantsOK
<1>5. PICK stage \in {"accounts", "authorize"} :
         stage = FirstStage(op) /\ (stage = "accounts" => op = "place_bracket")
  BY <1>4 DEF FirstStage
<1>6. stage \in Stages
  BY DEF Stages, Requesting, Asking
<1>7. Goto(f, stage) \in Frame /\ Goto(f, stage).pc = stage
      /\ Goto(f, stage).sent = 0
  BY <1>1, <1>6, GotoType, GotoFields
<1>. DEFINE g == [Goto(f, stage) EXCEPT
                    !.op = op, !.dict = b, !.scope = s, !.chain = s]
<1>8. g \in Frame
  BY <1>2, <1>4, <1>7, Zenon DEF Frame
<1>9. g.pc = stage /\ g.op = op /\ g.scope = s /\ g.chain = s /\ g.sent = 0
  BY <1>7, Zenon DEF Frame
<1>10. call' = [call EXCEPT ![c] = g]
  BY <1>3, <1>5
<1>. HIDE DEF g, s
<1>11. FrameOK(g)
  <2>1. CASE stage = "accounts"
    <3>1. op = "place_bracket"
      BY <2>1, <1>5
    <3>2. g.pc = "accounts" /\ g.op = "place_bracket" /\ g.scope \in Scope /\ g.sent = 0
      BY <3>1, <2>1, <1>4, <1>9
    <3>. QED
      BY <3>2 DEF FrameOK, BeforeSend, ReplyStages
  <2>2. CASE stage = "authorize"
    BY <2>2, <1>4, <1>9 DEF FrameOK, BeforeSend, ReplyStages
  <2>. QED
    BY <2>1, <2>2
<1>. QED
  BY <1>8, <1>10, <1>11, QuietStep DEF BeginChain, BeforeSend, session, human,
     FramesOK, TypeOK

LEMMA BeginReplyOK == ASSUME FramesOK, NEW c \in Calls, BeginReply(c) PROVE FramesOK'
<1>. DEFINE f == call[c]
<1>1. f \in Frame /\ now \in Nat /\ f.sent = 0 /\ FrameOK(f)
  BY DEF FramesOK, TypeOK, BeginReply, FrameOK, BeforeSend
<1>2. FirstStage("reply") = "accounts" /\ "accounts" \in Stages /\ "reply" \in Methods
      /\ "reply" \notin Chained
  BY DEF FirstStage, Stages, Requesting, Chained, Methods
<1>3. PICK r \in raised, yes \in BOOLEAN :
         call' = [call EXCEPT ![c] =
                    [Goto(f, "accounts") EXCEPT
                       !.op = "reply", !.rid = r, !.yes = yes,
                       !.scope = call[r[1]].scope]]
  BY <1>2, Zenon DEF BeginReply
<1>4. r \in ReplyId /\ r[1] \in Calls /\ call[r[1]].scope \in Scope
  BY DEF FramesOK, TypeOK, FrameOK, BeforeSend, ReplyId
<1>5. Goto(f, "accounts") \in Frame /\ Goto(f, "accounts").pc = "accounts"
      /\ Goto(f, "accounts").sent = 0
  BY <1>1, <1>2, GotoType, GotoFields
<1>. DEFINE g == [Goto(f, "accounts") EXCEPT
                     !.op = "reply", !.rid = r, !.yes = yes,
                     !.scope = call[r[1]].scope]
<1>6. g \in Frame
  BY <1>2, <1>4, <1>5, Zenon DEF Frame
<1>7. g.pc = "accounts" /\ g.op = "reply" /\ g.scope = call[r[1]].scope /\ g.sent = 0
  BY <1>5, Zenon DEF Frame
<1>8. call' = [call EXCEPT ![c] = g]
  BY <1>3
<1>. HIDE DEF g
<1>9. FrameOK(g)
  BY <1>2, <1>4, <1>7 DEF FrameOK, BeforeSend, ReplyStages
<1>. QED
  BY <1>6, <1>8, <1>9, QuietStep DEF BeginReply, BeforeSend, session, human,
     FramesOK, TypeOK

LEMMA CallerMutatesDictOK ==
    ASSUME FramesOK, NEW c \in Calls, CallerMutatesDict(c) PROVE FramesOK'
<1>. DEFINE f == call[c]
<1>1. PICK b \in Bodies : call' = [call EXCEPT ![c] = [f EXCEPT !.dict = b]]
  BY Zenon DEF CallerMutatesDict
<1>2. f \in Frame /\ FrameOK(f)
  BY DEF FramesOK, TypeOK
<1>. DEFINE g == [f EXCEPT !.dict = b]
<1>3. g \in Frame
  BY <1>2, Zenon DEF Frame
<1>4. /\ g.pc = f.pc /\ g.op = f.op /\ g.scope = f.scope /\ g.chain = f.chain
      /\ g.auth = f.auth /\ g.queue = f.queue /\ g.sent = f.sent
  BY <1>2, Zenon DEF Frame
<1>5. call' = [call EXCEPT ![c] = g]
  BY <1>1
<1>. HIDE DEF g
<1>6. FrameOK(g)
  BY <1>2, <1>4 DEF FrameOK
<1>. QED
  BY <1>3, <1>4, <1>5, <1>6, QuietStep DEF CallerMutatesDict, session, human,
     FramesOK, TypeOK

\* A step that takes the call to another stage, or ends it with an exception, and
\* does nothing else.
LEMMA GotoOK ==
    ASSUME FramesOK, NEW c \in Calls, NEW stage \in Stages,
           call' = [call EXCEPT ![c] = Goto(call[c], stage)],
           FrameOK(Goto(call[c], stage)),
           call[c].pc \notin BeforeSend => stage \notin BeforeSend,
           UNCHANGED <<now, session, human, gateway>>
    PROVE  FramesOK'
<1>1. Goto(call[c], stage) \in Frame /\ Goto(call[c], stage).pc = stage
  BY GotoType, GotoFields DEF FramesOK, TypeOK
<1>. QED
  BY <1>1, QuietStep DEF session, human, FramesOK, TypeOK

LEMMA RaisingOK ==
    ASSUME FramesOK, NEW c \in Calls, NEW reason \in Reasons,
           call[c].pc # "idle",
           call' = [call EXCEPT ![c] = Raise(call[c], reason)],
           UNCHANGED <<now, session, human, gateway>>
    PROVE  FramesOK'
<1>1. call[c] \in Frame /\ FrameOK(call[c]) /\ now \in Nat
  BY DEF FramesOK, TypeOK
<1>2. /\ Raise(call[c], reason) \in Frame /\ FrameOK(Raise(call[c], reason))
      /\ Raise(call[c], reason).pc \notin BeforeSend
  BY <1>1, RaiseOK
<1>. QED
  BY <1>2, QuietStep DEF session, human, FramesOK, TypeOK

\* The copy that AfterAccounts makes differs from the frame in its scope only, and
\* there in the body only.
LEMMA AfterAccountsScope ==
    ASSUME NEW f \in Frame, f.scope \in Scope
    PROVE  \E s \in Scope, g \in Frame :
             /\ g.scope = s /\ g.pc = f.pc /\ g.op = f.op /\ g.auth = f.auth
             /\ g.chain = f.chain /\ g.queue = f.queue /\ g.sent = f.sent
             /\ g.rid = f.rid /\ g.since = f.since /\ g.latest = f.latest
             /\ g.why = f.why /\ g.log = f.log /\ g.shed = f.shed
             /\ f.op \in {"cancel", "reply"} => s = f.scope
             /\ AfterAccounts(f) =
                  IF f.op = "place_bracket"
                  THEN [Goto(g, "authorize") EXCEPT !.chain = s]
                  ELSE IF f.op \in Single /\ Covers(f.auth, s)
                       THEN AfterGate1(g)
                       ELSE Goto(g, "gate1")
<1>. DEFINE s == IF f.op \in {"cancel", "reply"}
                 THEN f.scope
                 ELSE [f.scope EXCEPT !.body = f.dict]
            g == [f EXCEPT !.scope = s]
<1>1. f.dict \in Bodies \cup {NoBody}
  BY FrameFields
<1>2. [f.scope EXCEPT !.body = f.dict] \in Scope
  BY <1>1, Zenon DEF Scope
<1>3. s \in Scope
  BY <1>2
<1>4. f.op \in {"cancel", "reply"} => s = f.scope
  OBVIOUS
<1>5. AfterAccounts(f) =
          IF f.op = "place_bracket"
          THEN [Goto(g, "authorize") EXCEPT !.chain = s]
          ELSE IF f.op \in Single /\ Covers(f.auth, s)
               THEN AfterGate1(g)
               ELSE Goto(g, "gate1")
  BY Zenon DEF AfterAccounts
<1>. HIDE DEF s
<1>6. g \in Frame
  BY <1>3, Zenon DEF Frame
<1>7. /\ g.scope = s /\ g.pc = f.pc /\ g.op = f.op /\ g.auth = f.auth
      /\ g.chain = f.chain /\ g.queue = f.queue /\ g.sent = f.sent
      /\ g.rid = f.rid /\ g.since = f.since /\ g.latest = f.latest
      /\ g.why = f.why /\ g.log = f.log /\ g.shed = f.shed
  BY <1>3, Zenon DEF Frame
<1>. HIDE DEF g
<1>. QED
  BY <1>3, <1>4, <1>5, <1>6, <1>7, Zenon

LEMMA AfterAccountsOK ==
    ASSUME NEW f \in Frame, now \in Nat, FrameOK(f), f.pc = "accounts"
    PROVE  AfterAccounts(f) \in Frame /\ FrameOK(AfterAccounts(f))
<1>1. f.scope \in Scope /\ f.sent = 0
      /\ (f.op \in Chained /\ f.auth = NoAuth => f.op = "place_bracket")
  BY DEF FrameOK, BeforeSend
<1>2. PICK s \in Scope, g \in Frame :
             /\ g.scope = s /\ g.pc = f.pc /\ g.op = f.op /\ g.auth = f.auth
             /\ g.chain = f.chain /\ g.queue = f.queue /\ g.sent = f.sent
             /\ AfterAccounts(f) =
                  IF f.op = "place_bracket"
                  THEN [Goto(g, "authorize") EXCEPT !.chain = s]
                  ELSE IF f.op \in Single /\ Covers(f.auth, s)
                       THEN AfterGate1(g)
                       ELSE Goto(g, "gate1")
  BY <1>1, AfterAccountsScope, Zenon
<1>3. ASSUME NEW stage \in {"gate1", "read", "dialog"}, f.op # "place_bracket"
      PROVE  Goto(g, stage) \in Frame /\ FrameOK(Goto(g, stage))
  <2>1. stage \in Stages
    BY DEF Stages, Asking, Showing
  <2>2. Goto(g, stage) \in Frame
    BY <2>1, GotoType
  <2>3. /\ Goto(g, stage).pc = stage /\ Goto(g, stage).op = f.op
        /\ Goto(g, stage).scope = s /\ Goto(g, stage).auth = f.auth
        /\ Goto(g, stage).sent = 0
    BY <1>1, <1>2, GotoFields
  <2>. QED
    BY <1>1, <1>3, <2>2, <2>3 DEF FrameOK, BeforeSend, ReplyStages
<1>4. CASE f.op = "place_bracket"
  <2>. DEFINE h == [Goto(g, "authorize") EXCEPT !.chain = s]
  <2>1. "authorize" \in Stages
    BY DEF Stages, Asking
  <2>2. /\ Goto(g, "authorize") \in Frame /\ Goto(g, "authorize").pc = "authorize"
        /\ Goto(g, "authorize").op = f.op /\ Goto(g, "authorize").scope = s
        /\ Goto(g, "authorize").sent = 0
    BY <1>1, <1>2, <2>1, GotoType, GotoFields
  <2>3. h \in Frame
    BY <2>2, Zenon DEF Frame
  <2>4. h.pc = "authorize" /\ h.op = f.op /\ h.scope = s /\ h.chain = s /\ h.sent = 0
    BY <2>2, Zenon DEF Frame
  <2>5. AfterAccounts(f) = h
    BY <1>2, <1>4
  <2>. HIDE DEF h
  <2>6. FrameOK(h)
    BY <1>4, <2>4 DEF FrameOK, BeforeSend, ReplyStages, Chained
  <2>. QED
    BY <2>3, <2>5, <2>6
<1>5. CASE f.op # "place_bracket"
  <2>1. \E stage \in {"read", "dialog"} : AfterGate1(g) = Goto(g, stage)
    BY AfterGate1Type
  <2>2. \E stage \in {"gate1", "read", "dialog"} : AfterAccounts(f) = Goto(g, stage)
    BY <1>2, <1>5, <2>1, Zenon
  <2>. QED
    BY <1>3, <1>5, <2>2
<1>. QED
  BY <1>4, <1>5

LEMMA EnsureAccountsOK ==
    ASSUME FramesOK, NEW c \in Calls, EnsureAccounts(c) PROVE FramesOK'
<1>1. call[c] \in Frame /\ now \in Nat /\ FrameOK(call[c]) /\ call[c].pc = "accounts"
  BY DEF FramesOK, TypeOK, EnsureAccounts
<1>2. AfterAccounts(call[c]) \in Frame /\ FrameOK(AfterAccounts(call[c]))
  BY <1>1, AfterAccountsOK
<1>3. call' = [call EXCEPT ![c] = AfterAccounts(call[c])]
  BY Zenon DEF EnsureAccounts
<1>4. /\ UNCHANGED <<now, drops, up, gateway, human>>
      /\ ready' \in BOOLEAN /\ primed' \in BOOLEAN
  BY DEF EnsureAccounts, session, FramesOK, TypeOK
<1>. QED
  BY <1>1, <1>2, <1>3, <1>4, QuietStep DEF BeforeSend, human, FramesOK, TypeOK

LEMMA AuthorizeOK == ASSUME FramesOK, NEW c \in Calls, Authorize(c) PROVE FramesOK'
<1>. DEFINE f == call[c]
            a == [scope |-> f.chain, at |-> now]
<1>1. /\ f \in Frame /\ now \in Nat /\ f.pc = "authorize" /\ f.scope \in Scope
      /\ f.op \in Chained /\ f.chain = f.scope /\ f.sent = 0
  BY DEF FramesOK, TypeOK, Authorize, FrameOK, BeforeSend
<1>2. PICK stage \in {"dialog", "accounts"} :
        call' = [call EXCEPT ![c] = [Goto(f, stage) EXCEPT !.auth = a]]
  BY DEF Authorize
<1>3. stage \in Stages
  BY DEF Stages, Showing, Requesting
<1>4. /\ Goto(f, stage) \in Frame /\ Goto(f, stage).pc = stage
      /\ Goto(f, stage).op = f.op /\ Goto(f, stage).scope = f.scope
      /\ Goto(f, stage).sent = 0
  BY <1>1, <1>3, GotoType, GotoFields
<1>5. a \in Authorization /\ a # NoAuth
  BY <1>1, NoneIsNoValue DEF Authorization
<1>. DEFINE g == [Goto(f, stage) EXCEPT !.auth = a]
<1>6. g \in Frame
  BY <1>4, <1>5, Zenon DEF Frame
<1>7. g.pc = stage /\ g.op = f.op /\ g.scope = f.scope /\ g.auth = a /\ g.sent = 0
  BY <1>4, Zenon DEF Frame
<1>8. call' = [call EXCEPT ![c] = g]
  BY <1>2
<1>. HIDE DEF g, a
<1>9. FrameOK(g)
  <2>1. g.auth # NoAuth /\ g.scope \in Scope /\ g.sent = 0 /\ g.op \in Chained
    BY <1>1, <1>5, <1>7
  <2>2. CASE g.pc = "dialog"
    BY <2>1, <2>2 DEF FrameOK, BeforeSend, ReplyStages
  <2>3. CASE g.pc = "accounts"
    BY <2>1, <2>3 DEF FrameOK, BeforeSend, ReplyStages
  <2>. QED
    BY <1>7, <2>2, <2>3
<1>10. Itself(c) \in ReplyId
  BY DEF Itself, ReplyId
<1>11. touches' \subseteq Touch
  BY <1>1, <1>10 DEF Authorize, FramesOK, TypeOK, Touch
<1>. QED
  BY <1>1, <1>6, <1>8, <1>9, <1>11, QuietStep
     DEF Authorize, BeforeSend, session, FramesOK, TypeOK

LEMMA TouchIDOK == ASSUME FramesOK, NEW c \in Calls, TouchID(c) PROVE FramesOK'
<1>. DEFINE f == call[c]
<1>1. /\ f \in Frame /\ now \in Nat /\ f.pc = "gate1" /\ FrameOK(f)
  BY DEF FramesOK, TypeOK, TouchID
<1>2. PICK stage \in {"read", "dialog"} : AfterGate1(f) = Goto(f, stage)
  BY <1>1, AfterGate1Type
<1>3. stage \in Stages
  BY DEF Stages, Showing
<1>4. /\ Goto(f, stage) \in Frame /\ Goto(f, stage).pc = stage
      /\ Goto(f, stage).op = f.op /\ Goto(f, stage).scope = f.scope
      /\ Goto(f, stage).sent = f.sent /\ Goto(f, stage).auth = f.auth
  BY <1>1, <1>3, GotoType, GotoFields
<1>5. FrameOK(Goto(f, stage))
  BY <1>1, <1>4 DEF FrameOK, BeforeSend, ReplyStages
<1>6. touches' \subseteq Touch
  BY <1>1, FrameFields DEF TouchID, FramesOK, TypeOK, FrameOK, Touch
<1>7. call' = [call EXCEPT ![c] = Goto(f, stage)]
  BY <1>2 DEF TouchID
<1>. QED
  BY <1>1, <1>4, <1>5, <1>6, <1>7, QuietStep
     DEF TouchID, BeforeSend, session, FramesOK, TypeOK

LEMMA TouchIDDeniedOK ==
    ASSUME FramesOK, NEW c \in Calls, TouchIDDenied(c) PROVE FramesOK'
<1>1. "denied" \in Reasons /\ call[c].pc # "idle"
  BY DEF Reasons, TouchIDDenied, Asking
<1>. QED
  BY <1>1, RaisingOK DEF TouchIDDenied

LEMMA ReadOrderOK == ASSUME FramesOK, NEW c \in Calls, ReadOrder(c) PROVE FramesOK'
<1>1. call[c] \in Frame /\ FrameOK(call[c]) /\ call[c].pc = "read"
  BY DEF FramesOK, TypeOK, ReadOrder
<1>2. "dialog" \in Stages /\ "refused" \in Reasons
  BY DEF Stages, Showing, Reasons
<1>3. CASE call' = [call EXCEPT ![c] = Goto(call[c], "dialog")]
  <2>1. LET g == Goto(call[c], "dialog") IN
          /\ g.pc = "dialog" /\ g.op = call[c].op /\ g.scope = call[c].scope
          /\ g.auth = call[c].auth /\ g.sent = call[c].sent
    BY <1>1, GotoFields
  <2>2. FrameOK(Goto(call[c], "dialog"))
    BY <1>1, <2>1 DEF FrameOK, BeforeSend, ReplyStages
  <2>. QED
    BY <1>1, <1>2, <1>3, <2>2, GotoOK DEF ReadOrder, BeforeSend
<1>4. CASE call' = [call EXCEPT ![c] = Raise(call[c], "refused")]
  BY <1>1, <1>2, <1>4, RaisingOK DEF ReadOrder
<1>. QED
  BY <1>3, <1>4 DEF ReadOrder

LEMMA ConfirmOK == ASSUME FramesOK, NEW c \in Calls, Confirm(c) PROVE FramesOK'
<1>. DEFINE f == call[c]
<1>1. f \in Frame /\ now \in Nat /\ f.pc = "dialog" /\ FrameOK(f)
  BY DEF FramesOK, TypeOK, Confirm
<1>2. "send" \in Stages
  BY DEF Stages, Requesting
<1>3. /\ Goto(f, "send") \in Frame /\ Goto(f, "send").pc = "send"
      /\ Goto(f, "send").op = f.op /\ Goto(f, "send").scope = f.scope
      /\ Goto(f, "send").sent = f.sent /\ Goto(f, "send").auth = f.auth
  BY <1>1, <1>2, GotoType, GotoFields
<1>4. FrameOK(Goto(f, "send"))
  BY <1>1, <1>3 DEF FrameOK, BeforeSend, ReplyStages
<1>5. f.scope \in Scope /\ f.rid \in ReplyId
  BY <1>1, FrameFields DEF FrameOK
<1>6. confirms' \subseteq Shown
  BY <1>5 DEF Confirm, FramesOK, TypeOK, Shown
<1>. QED
  BY <1>1, <1>3, <1>4, <1>6, QuietStep
     DEF Confirm, BeforeSend, session, FramesOK, TypeOK

LEMMA DeclineOK == ASSUME FramesOK, NEW c \in Calls, Decline(c) PROVE FramesOK'
<1>1. "declined" \in Reasons /\ call[c].pc # "idle"
  BY DEF Reasons, Decline
<1>. QED
  BY <1>1, RaisingOK DEF Decline

-----------------------------------------------------------------------------
(* The write and the loop over the replies. *)

LEMMA StartRoundOK ==
    ASSUME NEW f \in Frame, now \in Nat, NEW response \in Seq(ReplyId),
           f.scope \in Scope, f.op \in Chained, f.auth # NoAuth, f.sent <= 1
    PROVE  LET g == StartRound(f, response) IN
           g \in Frame /\ FrameOK(g) /\ g.pc \in {"reply", "returned"}
<1>1. FirstEntry(response) \in Seq(ReplyId) /\ <<>> \in Seq(ReplyId)
  BY DEF FirstEntry
<1>2. PICK queue \in Seq(ReplyId) :
        StartRound(f, response) =
            IF \E i \in DOMAIN queue : IsQuestion(queue[i])
            THEN [Goto(f, "reply") EXCEPT !.queue = queue, !.latest = <<>>]
            ELSE Goto(f, "returned")
  BY <1>1, Zenon DEF StartRound
<1>3. "reply" \in Stages /\ "returned" \in Stages
  BY DEF Stages, Internal, Ended
<1>4. \A stage \in Stages :
        /\ Goto(f, stage) \in Frame /\ Goto(f, stage).pc = stage
        /\ Goto(f, stage).op = f.op /\ Goto(f, stage).scope = f.scope
        /\ Goto(f, stage).sent = f.sent /\ Goto(f, stage).auth = f.auth
  BY GotoType, GotoFields
<1>. DEFINE g == [Goto(f, "reply") EXCEPT !.queue = queue, !.latest = <<>>]
<1>5. g \in Frame
  <2>1. Goto(f, "reply") \in Frame
    BY <1>3, <1>4
  <2>. QED
    BY <1>1, <2>1, Zenon DEF Frame
<1>6. /\ g.pc = "reply" /\ g.op = f.op /\ g.scope = f.scope /\ g.sent = f.sent
      /\ g.auth = f.auth
  BY <1>3, <1>4, Zenon DEF Frame
<1>7. StartRound(f, response) = g \/ StartRound(f, response) = Goto(f, "returned")
  BY <1>2
<1>. HIDE DEF g
<1>8. FrameOK(g)
  BY <1>6 DEF FrameOK, BeforeSend, ReplyStages
<1>9. FrameOK(Goto(f, "returned"))
  BY <1>3, <1>4 DEF FrameOK, BeforeSend, ReplyStages
<1>. QED
  BY <1>3, <1>4, <1>5, <1>6, <1>7, <1>8, <1>9

LEMMA ReceiveOK ==
    ASSUME NEW f \in Frame, now \in Nat, NEW response \in Seq(ReplyId),
           f.scope \in Scope, f.op \in Chained => f.auth # NoAuth, f.sent <= 1
    PROVE  LET g == Receive(f, response) IN
           g \in Frame /\ FrameOK(g) /\ g.pc \in {"reply", "returned"}
<1>1. CASE f.op \in Chained
  BY <1>1, StartRoundOK DEF Receive
<1>2. CASE f.op \notin Chained
  <2>1. "returned" \in Stages
    BY DEF Stages, Ended
  <2>2. LET g == Goto(f, "returned") IN
        /\ g \in Frame /\ g.pc = "returned" /\ g.op = f.op /\ g.scope = f.scope
        /\ g.sent = f.sent
    BY <2>1, GotoType, GotoFields
  <2>3. FrameOK(Goto(f, "returned"))
    BY <1>2, <2>2 DEF FrameOK, BeforeSend, ReplyStages
  <2>. QED
    BY <1>2, <2>2, <2>3 DEF Receive
<1>. QED
  BY <1>1, <1>2

LEMMA AnswerLostOK ==
    ASSUME NEW f \in Frame, now \in Nat, f.scope \in Scope, f.sent <= 1
    PROVE  LET g == AnswerLost(f) IN
           g \in Frame /\ FrameOK(g) /\ g.pc \notin BeforeSend
<1>1. "lost" \in Reasons
  BY DEF Reasons
<1>2. LET g == Raise(f, "lost") IN
      g \in Frame /\ g.pc = "raised" /\ g.scope = f.scope /\ g.sent = f.sent
  BY <1>1, RaiseType, RaiseFields
<1>3. FrameOK(Raise(f, "lost"))
  BY <1>2 DEF FrameOK, BeforeSend, ReplyStages
<1>. QED
  BY <1>2, <1>3 DEF AnswerLost, BeforeSend

\* The response to a write: one entry per leg, each an entry of this call.
LEMMA WriteResponse ==
    ASSUME NEW c \in Calls, NEW op, NEW q \in [1..NLegs(op) -> {0, 1}]
    PROVE  /\ [i \in 1..NLegs(op) |-> <<c, i, q[i]>>] \in Seq(ReplyId)
           /\ {<<c, i, q[i]>> : i \in {j \in 1..NLegs(op) : q[j] > 0}} \in SUBSET ReplyId
<1>1. NLegs(op) \in Nat /\ 1..NLegs(op) \subseteq 0..2
  BY DEF NLegs
<1>2. \A i \in 1..NLegs(op) : <<c, i, q[i]>> \in ReplyId
  BY <1>1 DEF ReplyId
<1>. QED
  BY <1>1, <1>2

\* A step that sends something: new questions of calls that have sent their
\* write, and more on the wire.
LEMMA SendingStep ==
    ASSUME FramesOK, NEW c \in Calls, NEW g \in Frame,
           call' = [call EXCEPT ![c] = g], FrameOK(g),
           NEW new \in SUBSET ReplyId, raised' = raised \cup new,
           asked' \subseteq asked \cup new,
           \A r \in new : call'[r[1]].pc \notin BeforeSend,
           call[c].pc \notin BeforeSend => g.pc \notin BeforeSend,
           NEW w \in Request,
           wire' = wire \cup {w},
           UNCHANGED <<now, session, human>>
    PROVE  FramesOK'
<1>1. /\ call' \in [Calls -> Frame] /\ raised' \subseteq ReplyId
      /\ \A d \in Calls : FrameOK(call'[d])
      /\ \A r \in raised' : call'[r[1]].pc \notin BeforeSend
  BY StepFrames
<1>2. TypeOK'
  BY <1>1 DEF FramesOK, TypeOK, session, human
<1>. QED
  BY <1>1, <1>2 DEF FramesOK, FrameOK

LEMMA SendWriteOK == ASSUME FramesOK, NEW c \in Calls, SendWrite(c) PROVE FramesOK'
<1>. DEFINE e == call[c]
            f == [call[c] EXCEPT !.sent = @ + 1]
            w == Write(c, f)
<1>1. /\ e \in Frame /\ now \in Nat /\ FrameOK(e)
  BY DEF FramesOK, TypeOK
<1>2. e.sent \in Nat /\ e.sent + 1 \in Nat /\ e.rid \in ReplyId
  BY <1>1, FrameFields
<1>3. f \in Frame
  BY <1>1, <1>2, Zenon DEF Frame
<1>4. /\ f.pc = e.pc /\ f.op = e.op /\ f.scope = e.scope /\ f.auth = e.auth
      /\ f.sent = e.sent + 1 /\ f.rid = e.rid
  BY <1>1, Zenon DEF Frame
<1>5. /\ f.pc = "send" /\ f.op # "reply" /\ up
      /\ \E q \in [1..NLegs(f.op) -> IF f.op = "cancel" \/ MaxQuestions = 0
                                   THEN {0} ELSE {0, 1}] :
           LET response == [i \in 1..NLegs(f.op) |-> <<c, i, q[i]>>]
               questions == {<<c, i, q[i]>> : i \in {j \in 1..NLegs(f.op) : q[j] > 0}}
           IN  /\ asked' = asked \cup questions
               /\ raised' = raised \cup questions
               /\ \/ call' = [call EXCEPT ![c] = Receive(f, response)]
                  \/ call' = [call EXCEPT ![c] = AnswerLost(f)]
      /\ wire' = wire \cup {w}
      /\ UNCHANGED <<now, session, human>>
  BY Zenon DEF SendWrite
<1>. HIDE DEF f, w
<1>6. f.scope \in Scope /\ f.sent = 1 /\ (f.op \in Chained => f.auth # NoAuth)
  BY <1>1, <1>4, <1>5 DEF FrameOK, BeforeSend
<1>7. PICK q \in [1..NLegs(f.op) -> {0, 1}] :
           LET response == [i \in 1..NLegs(f.op) |-> <<c, i, q[i]>>]
               questions == {<<c, i, q[i]>> : i \in {j \in 1..NLegs(f.op) : q[j] > 0}}
           IN  /\ asked' = asked \cup questions
               /\ raised' = raised \cup questions
               /\ \/ call' = [call EXCEPT ![c] = Receive(f, response)]
                  \/ call' = [call EXCEPT ![c] = AnswerLost(f)]
  BY <1>5
<1>. DEFINE response == [i \in 1..NLegs(f.op) |-> <<c, i, q[i]>>]
            questions == {<<c, i, q[i]>> : i \in {j \in 1..NLegs(f.op) : q[j] > 0}}
<1>8. response \in Seq(ReplyId) /\ questions \in SUBSET ReplyId
  BY WriteResponse
<1>9. \A r \in questions : r[1] = c
  OBVIOUS
<1>10. PICK g \in {Receive(f, response), AnswerLost(f)} :
         call' = [call EXCEPT ![c] = g]
  BY <1>7
<1>11. asked' = asked \cup questions /\ raised' = raised \cup questions
  BY <1>7
<1>. HIDE DEF response, questions
<1>12. g \in Frame /\ FrameOK(g) /\ g.pc \notin BeforeSend
  <2>1. f.sent <= 1
    BY <1>6
  <2>2. CASE g = Receive(f, response)
    BY <1>1, <1>3, <1>6, <1>8, <2>1, <2>2, ReceiveOK DEF BeforeSend
  <2>3. CASE g = AnswerLost(f)
    BY <1>1, <1>3, <1>6, <2>1, <2>3, AnswerLostOK
  <2>. QED
    BY <1>10, <2>2, <2>3
<1>13. w \in Request
  <2>1. f.scope \in Scope /\ f.rid \in ReplyId /\ now \in Nat /\ TRUE \in BOOLEAN
    BY <1>1, <1>2, <1>4, <1>6
  <2>. QED
    BY <2>1, Zenon DEF w, Write, Sent, Request
<1>14. \A r \in questions : call'[r[1]].pc \notin BeforeSend
  BY <1>9, <1>10, <1>12 DEF FramesOK, TypeOK
<1>. QED
  BY <1>5, <1>8, <1>10, <1>11, <1>12, <1>13, <1>14, SendingStep

\* What the gateway does with an answer: at most one new question, of the same call.
LEMMA AnswerFacts ==
    ASSUME FramesOK, NEW c \in Calls, NEW r \in ReplyId, NEW yes \in BOOLEAN,
           NEW n \in NextQuestions(r, yes), r \in asked
    PROVE  /\ n \in Nat /\ r \in raised /\ r[1] \in Calls
           /\ Follows(r, n) \in SUBSET ReplyId
           /\ \A s \in Follows(r, n) : s[1] = r[1]
           /\ Answer(c, r, yes) \in Request
<1>1. r[1] \in Calls /\ r[2] \in 0..2 /\ r[3] \in Nat
  BY DEF ReplyId
<1>2. n \in Nat
  BY <1>1 DEF NextQuestions
<1>3. r \in raised
  BY DEF FramesOK, TypeOK
<1>4. Follows(r, n) \in SUBSET ReplyId /\ \A s \in Follows(r, n) : s[1] = r[1]
  BY <1>1, <1>2 DEF ReplyId, Follows
<1>5. call[r[1]].scope \in Scope
  BY <1>1, <1>3 DEF FramesOK, TypeOK, FrameOK, BeforeSend
<1>6. Answer(c, r, yes) \in Request
  BY <1>5 DEF FramesOK, TypeOK, Request, Answer
<1>. QED
  BY <1>1, <1>2, <1>3, <1>4, <1>6

\* A step that sends an answer.
LEMMA AnsweringStep ==
    ASSUME FramesOK, NEW c \in Calls, NEW g \in Frame,
           call' = [call EXCEPT ![c] = g], FrameOK(g),
           call[c].pc \notin BeforeSend => g.pc \notin BeforeSend,
           NEW r \in ReplyId, NEW yes \in BOOLEAN, NEW n \in NextQuestions(r, yes),
           GatewayAnswers(c, r, yes, n),
           UNCHANGED <<now, session, human>>
    PROVE  FramesOK'
<1>1. r \in asked
  BY DEF GatewayAnswers
<1>2. /\ n \in Nat /\ r \in raised /\ r[1] \in Calls
      /\ Follows(r, n) \in SUBSET ReplyId
      /\ \A s \in Follows(r, n) : s[1] = r[1]
      /\ Answer(c, r, yes) \in Request
  BY <1>1, AnswerFacts
<1>3. /\ raised' = raised \cup Follows(r, n)
      /\ asked' \subseteq asked \cup Follows(r, n)
      /\ wire' = wire \cup {Answer(c, r, yes)}
  BY DEF GatewayAnswers
<1>4. call'[r[1]].pc \notin BeforeSend
  <2>1. call[r[1]].pc \notin BeforeSend
    BY <1>2 DEF FramesOK
  <2>. QED
    BY <1>2, <2>1 DEF FramesOK, TypeOK
<1>5. \A s \in Follows(r, n) : call'[s[1]].pc \notin BeforeSend
  BY <1>2, <1>4
<1>. QED
  BY <1>2, <1>3, <1>5, SendingStep

LEMMA SendReplyOK == ASSUME FramesOK, NEW c \in Calls, SendReply(c) PROVE FramesOK'
<1>. DEFINE f == call[c]
<1>1. /\ f \in Frame /\ now \in Nat /\ FrameOK(f) /\ f.pc = "send" /\ f.op = "reply"
      /\ f.rid \in ReplyId /\ f.yes \in BOOLEAN
  BY FrameFields DEF FramesOK, TypeOK, SendReply
<1>2. f.scope \in Scope /\ f.sent = 0
  BY <1>1 DEF FrameOK, BeforeSend
<1>3. PICK n \in NextQuestions(f.rid, f.yes) : GatewayAnswers(c, f.rid, f.yes, n)
  BY DEF SendReply
<1>4. PICK g \in {Goto(f, "returned"), AnswerLost(f)} : call' = [call EXCEPT ![c] = g]
  BY DEF SendReply
<1>5. g \in Frame /\ FrameOK(g) /\ g.pc \notin BeforeSend
  <2>1. CASE g = Goto(f, "returned")
    <3>1. "returned" \in Stages
      BY DEF Stages, Ended
    <3>2. /\ g \in Frame /\ g.pc = "returned" /\ g.op = "reply"
          /\ g.scope = f.scope /\ g.sent = 0
      BY <1>1, <1>2, <2>1, <3>1, GotoType, GotoFields
    <3>. QED
      BY <1>2, <3>2 DEF FrameOK, BeforeSend, ReplyStages, Chained
  <2>2. CASE g = AnswerLost(f)
    <3>1. f.sent <= 1
      BY <1>2
    <3>. QED
      BY <1>1, <1>2, <2>2, <3>1, AnswerLostOK
  <2>. QED
    BY <1>4, <2>1, <2>2
<1>6. UNCHANGED <<now, session, human>>
  BY DEF SendReply
<1>. QED
  BY <1>1, <1>3, <1>4, <1>5, <1>6, AnsweringStep

LEMMA SkipTerminalOK ==
    ASSUME FramesOK, NEW c \in Calls, SkipTerminal(c) PROVE FramesOK'
<1>. DEFINE f == call[c]
<1>1. /\ f \in Frame /\ FrameOK(f) /\ f.pc = "reply" /\ f.queue # <<>>
      /\ f.queue \in Seq(ReplyId)
  BY FrameFields DEF FramesOK, TypeOK, SkipTerminal
<1>2. Tail(f.queue) \in Seq(ReplyId)
  BY <1>1
<1>. DEFINE g == [f EXCEPT !.queue = Tail(f.queue)]
<1>3. g \in Frame
  BY <1>1, <1>2, Zenon DEF Frame
<1>4. /\ g.pc = "reply" /\ g.op = f.op /\ g.scope = f.scope /\ g.auth = f.auth
      /\ g.sent = f.sent
  BY <1>1, Zenon DEF Frame
<1>5. call' = [call EXCEPT ![c] = g]
  BY Zenon DEF SkipTerminal
<1>. HIDE DEF g
<1>6. FrameOK(g)
  BY <1>1, <1>4 DEF FrameOK, BeforeSend, ReplyStages
<1>. QED
  BY <1>1, <1>3, <1>4, <1>5, <1>6, QuietStep
     DEF SkipTerminal, session, human, BeforeSend, FramesOK, TypeOK

LEMMA NextRoundOK == ASSUME FramesOK, NEW c \in Calls, NextRound(c) PROVE FramesOK'
<1>. DEFINE f == call[c]
            g == StartRound(f, f.latest)
<1>1. /\ f \in Frame /\ now \in Nat /\ FrameOK(f) /\ f.pc = "reply"
      /\ f.latest \in Seq(ReplyId)
  BY FrameFields DEF FramesOK, TypeOK, NextRound
<1>2. f.scope \in Scope /\ f.op \in Chained /\ f.auth # NoAuth /\ f.sent <= 1
  BY <1>1 DEF FrameOK
<1>3. g \in Frame /\ FrameOK(g) /\ g.pc \notin BeforeSend
  BY <1>1, <1>2, StartRoundOK DEF BeforeSend
<1>4. call' = [call EXCEPT ![c] = g]
  BY DEF NextRound
<1>. HIDE DEF g
<1>. QED
  BY <1>3, <1>4, QuietStep DEF NextRound, session, human, FramesOK, TypeOK

\* A stage of the resolution of one reply, entered from another one.
LEMMA ReplyStageOK ==
    ASSUME NEW f \in Frame, now \in Nat, FrameOK(f),
           f.pc \in ReplyStages \cup {"reply"}, f.queue # <<>>,
           NEW stage \in ReplyStages
    PROVE  LET g == Goto(f, stage) IN
           g \in Frame /\ FrameOK(g) /\ g.pc = stage /\ stage \notin BeforeSend
<1>1. stage \in Stages
  BY DEF Stages, ReplyStages, Asking, Showing, Requesting
<1>2. LET g == Goto(f, stage) IN
      /\ g \in Frame /\ g.pc = stage /\ g.op = f.op /\ g.scope = f.scope
      /\ g.auth = f.auth /\ g.queue = f.queue /\ g.sent = f.sent
  BY <1>1, GotoType, GotoFields
<1>3. /\ f.op \in Chained /\ f.scope \in Scope /\ f.auth # NoAuth /\ f.sent <= 1
  BY DEF FrameOK, ReplyStages
<1>4. FrameOK(Goto(f, stage))
  BY <1>2, <1>3 DEF FrameOK, ReplyStages, BeforeSend
<1>. QED
  BY <1>2, <1>4 DEF ReplyStages, BeforeSend

LEMMA OpenReplyOK == ASSUME FramesOK, NEW c \in Calls, OpenReply(c) PROVE FramesOK'
<1>. DEFINE f == call[c]
            r == Head(f.queue)
<1>1. /\ f \in Frame /\ now \in Nat /\ FrameOK(f) /\ f.pc = "reply" /\ f.queue # <<>>
      /\ f.queue \in Seq(ReplyId) /\ UNCHANGED <<now, session, human, gateway>>
  BY FrameFields, Zenon DEF FramesOK, TypeOK, OpenReply
<1>2. CASE call' = [call EXCEPT ![c] = Raise(f, "resent")]
  <2>1. "resent" \in Reasons
    BY DEF Reasons
  <2>. QED
    BY <1>1, <1>2, <2>1, RaisingOK
<1>3. CASE call' = [call EXCEPT ![c] =
            [Goto(f, IF Covers(f.auth, f.chain) THEN "reply dialog" ELSE "reply gate1")
                 EXCEPT !.log = NewRecord(@, r),
                        !.answered = IF f.op = "place_bracket" THEN @ \cup {r} ELSE @]]
  <2>1. PICK stage \in {"reply dialog", "reply gate1"} :
          call' = [call EXCEPT ![c] =
            [Goto(f, stage)
                 EXCEPT !.log = NewRecord(@, r),
                        !.answered = IF f.op = "place_bracket" THEN @ \cup {r} ELSE @]]
    BY <1>3
  <2>. DEFINE h == Goto(f, stage)
              log == NewRecord(h.log, r)
              answered == IF f.op = "place_bracket" THEN h.answered \cup {r}
                                                    ELSE h.answered
              g == [h EXCEPT !.log = log, !.answered = answered]
  <2>2. h \in Frame /\ FrameOK(h) /\ h.pc = stage /\ stage \notin BeforeSend
    <3>1. stage \in ReplyStages /\ f.pc \in ReplyStages \cup {"reply"}
      BY <1>1 DEF ReplyStages
    <3>. QED
      BY <1>1, <3>1, ReplyStageOK
  <2>3. r \in ReplyId
    BY <1>1, HeadTailProperties
  <2>4. h.log \in SUBSET (ReplyId \X BOOLEAN) /\ h.answered \in SUBSET ReplyId
    BY <2>2, FrameFields
  <2>5. call' = [call EXCEPT ![c] = g]
    BY <2>1
  <2>. HIDE DEF r, h
  <2>6. <<r, FALSE>> \in ReplyId \X BOOLEAN
    BY <2>3
  <2>7. log \in SUBSET (ReplyId \X BOOLEAN) /\ answered \in SUBSET ReplyId
    BY <2>3, <2>4, <2>6, Zenon DEF NewRecord
  <2>. HIDE DEF log, answered
  <2>8. g \in Frame
    BY <2>2, <2>7, Zenon DEF Frame
  <2>9. /\ g.pc = h.pc /\ g.op = h.op /\ g.scope = h.scope /\ g.chain = h.chain
        /\ g.auth = h.auth /\ g.queue = h.queue /\ g.sent = h.sent
    BY <2>2, Zenon DEF Frame
  <2>. HIDE DEF g
  <2>10. FrameOK(g)
    BY <2>2, <2>9 DEF FrameOK
  <2>. QED
    BY <1>1, <2>2, <2>5, <2>8, <2>9, <2>10, QuietStep
       DEF session, human, FramesOK, TypeOK
<1>. QED
  BY <1>2, <1>3, Zenon DEF OpenReply

LEMMA ReplyTouchIDOK ==
    ASSUME FramesOK, NEW c \in Calls, ReplyTouchID(c) PROVE FramesOK'
<1>. DEFINE f == call[c]
            g == Goto(f, "reply dialog")
<1>1. /\ f \in Frame /\ now \in Nat /\ FrameOK(f) /\ f.pc = "reply gate1"
      /\ f.queue # <<>> /\ f.queue \in Seq(ReplyId) /\ f.scope \in Scope
  BY FrameFields DEF FramesOK, TypeOK, FrameOK, ReplyTouchID, ReplyStages
<1>2. g \in Frame /\ FrameOK(g) /\ g.pc = "reply dialog" /\ g.pc \notin BeforeSend
  BY <1>1, ReplyStageOK DEF ReplyStages
<1>3. touches' \subseteq Touch
  <2>1. Head(f.queue) \in ReplyId
    BY <1>1, HeadTailProperties
  <2>2. [scope |-> f.scope, rid |-> Head(f.queue), at |-> now]
           \in Touch
    BY <1>1, <2>1 DEF Touch
  <2>. QED
    BY <2>2, Zenon DEF ReplyTouchID, FramesOK, TypeOK
<1>4. call' = [call EXCEPT ![c] = g]
  BY DEF ReplyTouchID
<1>. HIDE DEF g
<1>. QED
  BY <1>2, <1>3, <1>4, QuietStep DEF ReplyTouchID, session, FramesOK, TypeOK

LEMMA ConfirmReplyOK ==
    ASSUME FramesOK, NEW c \in Calls, ConfirmReply(c) PROVE FramesOK'
<1>. DEFINE f == call[c]
            r == Head(f.queue)
            h == Goto(f, "confirming")
            log == (h.log \ {<<r, FALSE>>}) \cup {<<r, TRUE>>}
            g == [h EXCEPT !.log = log]
<1>1. /\ f \in Frame /\ now \in Nat /\ FrameOK(f) /\ f.pc = "reply dialog"
      /\ f.queue # <<>> /\ f.queue \in Seq(ReplyId)
      /\ f.scope \in Scope /\ f.op \in Chained /\ f.auth # NoAuth
      /\ f.auth \in Authorization \cup {NoAuth}
  BY FrameFields DEF FramesOK, TypeOK, FrameOK, ConfirmReply, ReplyStages
<1>2. h \in Frame /\ FrameOK(h) /\ h.pc = "confirming" /\ h.pc \notin BeforeSend
  BY <1>1, ReplyStageOK DEF ReplyStages
<1>3. r \in ReplyId
  BY <1>1, HeadTailProperties
<1>4. call' = [call EXCEPT ![c] = g]
  BY Zenon DEF ConfirmReply
<1>5. confirms' \subseteq Shown
  <2>1. f.auth.scope \in Scope
    BY <1>1 DEF Authorization
  <2>2. [by |-> c, scope |-> f.scope, rid |-> r, label |-> f.auth.scope]
           \in Shown
    BY <1>1, <1>3, <2>1 DEF Shown
  <2>. QED
    BY <2>2, Zenon DEF ConfirmReply, FramesOK, TypeOK
<1>. HIDE DEF r, h
<1>6. h.log \in SUBSET (ReplyId \X BOOLEAN)
  BY <1>2, FrameFields
<1>7. <<r, TRUE>> \in ReplyId \X BOOLEAN
  BY <1>3
<1>8. log \in SUBSET (ReplyId \X BOOLEAN)
  BY <1>6, <1>7, Zenon
<1>. HIDE DEF log
<1>9. g \in Frame
  BY <1>2, <1>8, Zenon DEF Frame
<1>10. /\ g.pc = h.pc /\ g.op = h.op /\ g.scope = h.scope /\ g.chain = h.chain
       /\ g.auth = h.auth /\ g.queue = h.queue /\ g.sent = h.sent
  BY <1>2, Zenon DEF Frame
<1>. HIDE DEF g
<1>11. FrameOK(g)
  BY <1>2, <1>10 DEF FrameOK
<1>. QED
  BY <1>2, <1>4, <1>5, <1>9, <1>10, <1>11, QuietStep
     DEF ConfirmReply, session, FramesOK, TypeOK

LEMMA DeclineReplyOK ==
    ASSUME FramesOK, NEW c \in Calls, DeclineReply(c) PROVE FramesOK'
<1>. DEFINE f == call[c]
<1>1. /\ f \in Frame /\ now \in Nat /\ FrameOK(f) /\ f.pc = "reply dialog"
      /\ f.queue # <<>>
  BY DEF FramesOK, TypeOK, FrameOK, DeclineReply, ReplyStages
<1>2. LET g == Goto(f, "declining") IN
      g \in Frame /\ FrameOK(g) /\ g.pc = "declining" /\ g.pc \notin BeforeSend
  BY <1>1, ReplyStageOK DEF ReplyStages
<1>. QED
  BY <1>2, QuietStep DEF DeclineReply, session, human, FramesOK, TypeOK

\* The response to a reply is a sequence of entries.
LEMMA ReplyResponseType ==
    ASSUME NEW r \in ReplyId, NEW n \in Nat
    PROVE  ReplyResponse(r, n) \in Seq(ReplyId)
<1>1. r[1] \in Calls /\ r[2] \in 0..2
  BY DEF ReplyId
<1>2. CASE ~Restates
  <2>1. <<r[1], r[2], n>> \in ReplyId
    BY <1>1 DEF ReplyId
  <2>. QED
    BY <1>2, <2>1 DEF ReplyResponse
<1>3. CASE Restates
  <2>. DEFINE m == NLegs(call[r[1]].op)
              e(i) == IF i = r[2] THEN <<r[1], i, n>> ELSE CurrentEntry(r[1], i)
  <2>1. m \in Nat /\ 1..m \subseteq 0..2
    BY DEF NLegs
  <2>2. ASSUME NEW i \in 1..m PROVE CurrentEntry(r[1], i) \in ReplyId
    <3>1. CASE \E k \in 1..MaxQuestions : <<r[1], i, k>> \in asked
      <4>. DEFINE k == CHOOSE k \in 1..MaxQuestions : <<r[1], i, k>> \in asked
      <4>1. k \in 1..MaxQuestions
        BY <3>1
      <4>2. k \in Nat
        BY <4>1
      <4>3. CurrentEntry(r[1], i) = <<r[1], i, k>>
        BY <3>1 DEF CurrentEntry
      <4>. HIDE DEF k
      <4>. QED
        BY <1>1, <2>1, <4>2, <4>3 DEF ReplyId
    <3>2. CASE ~ \E k \in 1..MaxQuestions : <<r[1], i, k>> \in asked
      <4>1. CurrentEntry(r[1], i) = <<r[1], i, 0>>
        BY <3>2 DEF CurrentEntry
      <4>. QED
        BY <1>1, <2>1, <4>1 DEF ReplyId
    <3>. QED
      BY <3>1, <3>2
  <2>3. ASSUME NEW i \in 1..m PROVE e(i) \in ReplyId
    BY <1>1, <2>1, <2>2 DEF ReplyId
  <2>4. ReplyResponse(r, n) = [i \in 1..m |-> e(i)]
    BY <1>3 DEF ReplyResponse
  <2>. HIDE DEF m, e
  <2>. QED
    BY <2>1, <2>3, <2>4
<1>. QED
  BY <1>2, <1>3

\* The frame of a chain whose answer has come back, or has been lost.
Answered(f, response) ==
    [Goto(f, "reply") EXCEPT !.queue = Tail(@), !.latest = @ \o response]

LEMMA AnsweredFrame ==
    ASSUME NEW f \in Frame, now \in Nat, FrameOK(f), f.queue # <<>>,
           f.pc \in {"confirming", "declining"}, NEW response \in Seq(ReplyId),
           NEW g \in {Answered(f, response), AfterNo(f), AnswerLost(f)}
    PROVE  g \in Frame /\ FrameOK(g) /\ g.pc \notin BeforeSend
<1>1. /\ f.op \in Chained /\ f.scope \in Scope /\ f.auth # NoAuth /\ f.sent <= 1
  BY DEF FrameOK, ReplyStages
<1>2. CASE g \in {AfterNo(f), AnswerLost(f)}
  <2>1. f.pc # "idle" /\ "declined" \in Reasons /\ "lost" \in Reasons
    BY DEF Reasons
  <2>2. \E reason \in Reasons : g = Raise(f, reason)
    BY <1>2, <2>1 DEF AfterNo, AnswerLost
  <2>. QED
    BY <2>1, <2>2, RaiseOK
<1>3. CASE g = Answered(f, response)
  <2>. DEFINE h == Goto(f, "reply")
              queue == Tail(h.queue)
              latest == h.latest \o response
              k == [h EXCEPT !.queue = queue, !.latest = latest]
  <2>1. "reply" \in Stages
    BY DEF Stages, Internal
  <2>2. /\ h \in Frame /\ h.pc = "reply" /\ h.op = f.op /\ h.scope = f.scope
        /\ h.auth = f.auth /\ h.queue = f.queue /\ h.sent = f.sent
    BY <2>1, GotoType, GotoFields
  <2>3. h.queue \in Seq(ReplyId) /\ h.queue # <<>> /\ h.latest \in Seq(ReplyId)
    BY <2>2, FrameFields
  <2>. HIDE DEF h
  <2>4. queue \in Seq(ReplyId) /\ latest \in Seq(ReplyId)
    BY <2>3, HeadTailProperties, ConcatProperties
  <2>. HIDE DEF queue, latest
  <2>5. k \in Frame
    BY <2>2, <2>4, Zenon DEF Frame
  <2>6. /\ k.pc = "reply" /\ k.op = f.op /\ k.scope = f.scope /\ k.auth = f.auth
        /\ k.sent = f.sent
    BY <2>2, Zenon DEF Frame
  <2>7. g = k
    BY <1>3 DEF Answered, h, queue, latest
  <2>. HIDE DEF k
  <2>8. FrameOK(k)
    BY <1>1, <2>6 DEF FrameOK, ReplyStages, BeforeSend
  <2>. QED
    BY <2>5, <2>6, <2>7, <2>8 DEF BeforeSend
<1>. QED
  BY <1>2, <1>3

LEMMA SendAnswerOK == ASSUME FramesOK, NEW c \in Calls, SendAnswer(c) PROVE FramesOK'
<1>. DEFINE f == call[c]
            r == Head(f.queue)
            yes == f.pc = "confirming"
<1>1. /\ f \in Frame /\ now \in Nat /\ FrameOK(f) /\ f.pc \in {"confirming", "declining"}
      /\ f.queue # <<>> /\ f.queue \in Seq(ReplyId)
  BY FrameFields DEF FramesOK, TypeOK, FrameOK, SendAnswer, ReplyStages
<1>2. r \in ReplyId /\ yes \in BOOLEAN
  BY <1>1, HeadTailProperties
<1>3. PICK n \in NextQuestions(r, yes) :
        /\ GatewayAnswers(c, r, yes, n)
        /\ \/ call' = [call EXCEPT ![c] =
                 IF yes THEN [Goto(f, "reply") EXCEPT
                                !.queue = Tail(@),
                                !.latest = @ \o ReplyResponse(r, n)]
                        ELSE AfterNo(f)]
           \/ call' = [call EXCEPT ![c] = AnswerLost(f)]
  BY Zenon DEF SendAnswer
<1>. DEFINE response == ReplyResponse(r, n)
<1>4. PICK g \in {Answered(f, response), AfterNo(f), AnswerLost(f)} :
        call' = [call EXCEPT ![c] = g]
  BY <1>3 DEF Answered
<1>5. UNCHANGED <<now, session, human>>
  BY DEF SendAnswer
<1>6. PICK y \in BOOLEAN : n \in NextQuestions(r, y) /\ GatewayAnswers(c, r, y, n)
  BY <1>2, <1>3, Zenon
<1>. HIDE DEF r, yes
<1>7. n \in Nat /\ response \in Seq(ReplyId)
  <2>1. n \in Nat
    BY <1>2 DEF NextQuestions, ReplyId
  <2>. QED
    BY <1>2, <2>1, ReplyResponseType
<1>. HIDE DEF f, response
<1>8. g \in Frame /\ FrameOK(g) /\ g.pc \notin BeforeSend
  BY <1>1, <1>4, <1>7, AnsweredFrame
<1>9. r \in ReplyId /\ n \in NextQuestions(r, y)
  BY <1>2, <1>6
<1>10. GatewayAnswers(c, r, y, n)
  BY <1>6
<1>. QED
  BY <1>4, <1>5, <1>8, <1>9, <1>10, AnsweringStep

LEMMA WriteShedOK == ASSUME FramesOK, NEW c \in Calls, WriteShed(c) PROVE FramesOK'
<1>. DEFINE f == call[c]
            h == [f EXCEPT !.shed = @ + 1]
            g == Unavailable(h)
            w == Write(c, f)
<1>1. /\ f \in Frame /\ now \in Nat /\ FrameOK(f) /\ f.pc = "send"
      /\ f.rid \in ReplyId /\ f.scope \in Scope
  BY FrameFields DEF FramesOK, TypeOK, WriteShed, FrameOK
<1>2. /\ h \in Frame /\ h.pc = f.pc /\ h.op = f.op /\ h.scope = f.scope
      /\ h.chain = f.chain /\ h.auth = f.auth /\ h.queue = f.queue /\ h.sent = f.sent
  BY <1>1, ShedFields
<1>3. /\ call' = [call EXCEPT ![c] = g] /\ wire' = wire \cup {w}
      /\ raised' = raised \cup {} /\ asked' \subseteq asked \cup {}
      /\ UNCHANGED <<now, session, human>>
  BY DEF WriteShed
<1>. HIDE DEF h
<1>4. FrameOK(h) /\ h.pc # "idle"
  BY <1>1, <1>2 DEF FrameOK
<1>5. g \in Frame /\ FrameOK(g)
  BY <1>1, <1>2, <1>4, UnavailableOK
<1>6. w \in Request
  BY <1>1, Zenon, TRUE \in BOOLEAN DEF Write, Sent, Request
<1>. HIDE DEF g, w
<1>7. f.pc \in BeforeSend
  BY <1>1 DEF BeforeSend
<1>. QED
  BY <1>3, <1>5, <1>6, <1>7, {} \in SUBSET ReplyId, SendingStep

\* What a reply that is answered 503 does to the gateway: an answer like any other.
LEMMA ShedReply ==
    ASSUME FramesOK, NEW c \in Calls, ReplyShed(c)
    PROVE  \E r \in ReplyId, yes \in BOOLEAN :
             /\ \/ call[c].pc = "send" /\ call[c].op = "reply"
                   /\ r = call[c].rid /\ yes = call[c].yes
                \/ call[c].pc = "confirming" /\ r = Head(call[c].queue) /\ yes = TRUE
                \/ call[c].pc = "declining" /\ r = Head(call[c].queue) /\ yes = FALSE
             /\ \E n \in NextQuestions(r, yes) : GatewayAnswers(c, r, yes, n)
             /\ call' = [call EXCEPT ![c] = Unavailable(call[c])]
             /\ UNCHANGED <<now, session, human>>
<1>. DEFINE f == call[c]
<1>1. f \in Frame /\ FrameOK(f) /\ f.rid \in ReplyId /\ f.yes \in BOOLEAN
      /\ f.queue \in Seq(ReplyId)
  BY FrameFields DEF FramesOK, TypeOK
<1>2. /\ call' = [call EXCEPT ![c] = Unavailable(f)]
      /\ UNCHANGED <<now, session, human>>
  BY DEF ReplyShed
<1>3. CASE f.pc = "send" /\ f.op = "reply"
  <2>1. \E n \in NextQuestions(f.rid, f.yes) : GatewayAnswers(c, f.rid, f.yes, n)
    BY <1>3 DEF ReplyShed
  <2>. QED
    BY <1>1, <1>2, <1>3, <2>1
<1>4. CASE f.pc \in {"confirming", "declining"}
  <2>. DEFINE r == Head(f.queue)
              yes == f.pc = "confirming"
  <2>1. f.queue # <<>>
    BY <1>1, <1>4 DEF FrameOK, ReplyStages
  <2>2. r \in ReplyId /\ yes \in BOOLEAN
    BY <1>1, <2>1, HeadTailProperties
  <2>3. \E n \in NextQuestions(r, yes) : GatewayAnswers(c, r, yes, n)
    BY <1>4 DEF ReplyShed
  <2>4. /\ f.pc = "confirming" => yes = TRUE
        /\ f.pc = "declining" => yes = FALSE
    OBVIOUS
  <2>. HIDE DEF yes
  <2>5. PICK y \in BOOLEAN : y = yes
    BY <2>2
  <2>6. \E n \in NextQuestions(r, y) : GatewayAnswers(c, r, y, n)
    BY <2>3, <2>5
  <2>7. \/ f.pc = "confirming" /\ y = TRUE
        \/ f.pc = "declining" /\ y = FALSE
    BY <1>4, <2>4, <2>5
  <2>. QED
    BY <1>2, <2>2, <2>6, <2>7
<1>. QED
  BY <1>3, <1>4 DEF ReplyShed

LEMMA ReplyShedOK == ASSUME FramesOK, NEW c \in Calls, ReplyShed(c) PROVE FramesOK'
<1>. DEFINE f == call[c]
            g == Unavailable(f)
<1>1. PICK r \in ReplyId, yes \in BOOLEAN :
        /\ f.pc \in {"send", "confirming", "declining"}
        /\ \E n \in NextQuestions(r, yes) : GatewayAnswers(c, r, yes, n)
        /\ call' = [call EXCEPT ![c] = g]
        /\ UNCHANGED <<now, session, human>>
  BY ShedReply
<1>2. PICK n \in NextQuestions(r, yes) : GatewayAnswers(c, r, yes, n)
  BY <1>1
<1>3. f \in Frame /\ FrameOK(f) /\ now \in Nat /\ f.pc # "idle"
  BY <1>1 DEF FramesOK, TypeOK
<1>4. /\ g \in Frame /\ FrameOK(g)
      /\ f.pc \notin BeforeSend => g.pc \notin BeforeSend
  BY <1>3, UnavailableOK
<1>. HIDE DEF g
<1>. QED
  BY <1>1, <1>2, <1>4, AnsweringStep

-----------------------------------------------------------------------------
(* Requests that are not processed, and the environment. *)

LEMMA RetryOK == ASSUME FramesOK, NEW c \in Calls, Retry(c) PROVE FramesOK'
<1>. DEFINE f == call[c]
            g == [f EXCEPT !.tries = f.tries + 1]
<1>1. f \in Frame /\ FrameOK(f)
  BY DEF FramesOK, TypeOK
<1>2. f.tries + 1 \in Nat
  BY <1>1, FrameFields
<1>3. g \in Frame
  BY <1>1, <1>2, Zenon DEF Frame
<1>4. /\ g.pc = f.pc /\ g.op = f.op /\ g.scope = f.scope /\ g.chain = f.chain
      /\ g.auth = f.auth /\ g.queue = f.queue /\ g.sent = f.sent
  BY <1>1, Zenon DEF Frame
<1>5. call' = [call EXCEPT ![c] = g]
  BY Zenon DEF Retry
<1>. HIDE DEF g
<1>6. FrameOK(g)
  BY <1>1, <1>4 DEF FrameOK
<1>. QED
  BY <1>3, <1>4, <1>5, <1>6, QuietStep DEF Retry, session, human, FramesOK, TypeOK

LEMMA RequestFailsOK ==
    ASSUME FramesOK, NEW c \in Calls, RequestFails(c) PROVE FramesOK'
<1>1. "failed" \in Reasons /\ call[c].pc # "idle"
  BY DEF Reasons, RequestFails, AwaitsGateway, Requesting
<1>. QED
  BY <1>1, RaisingOK DEF RequestFails

LEMMA EnvironmentOK ==
    ASSUME FramesOK,
           Tick \/ QuestionLapses \/ SessionLost \/ LoggedInAgain \/ UNCHANGED vars
    PROVE  FramesOK'
<1>1. CASE Tick
  BY <1>1 DEF Tick, session, human, gateway, FramesOK, TypeOK, FrameOK
<1>2. CASE QuestionLapses
  BY <1>2 DEF QuestionLapses, session, human, FramesOK, TypeOK, FrameOK
<1>3. CASE SessionLost
  <2>1. /\ drops' \in Nat /\ UNCHANGED <<call, now, ready, touches, confirms, raised, wire>>
        /\ up' = FALSE /\ primed' = FALSE /\ asked' = {}
    BY <1>3 DEF SessionLost, human, FramesOK, TypeOK
  <2>. QED
    BY <2>1, Zenon DEF FramesOK, TypeOK, FrameOK
<1>4. CASE LoggedInAgain
  BY <1>4 DEF LoggedInAgain, human, gateway, FramesOK, TypeOK, FrameOK
<1>5. CASE UNCHANGED vars
  BY <1>5 DEF vars, session, FramesOK, TypeOK, FrameOK
<1>. QED
  BY <1>1, <1>2, <1>3, <1>4, <1>5

-----------------------------------------------------------------------------
(* The theorems. *)

LEMMA FramesOKInit == Init => FramesOK
<1>. SUFFICES ASSUME Init PROVE FramesOK
  OBVIOUS
<1>1. call \in [Calls -> Frame]
  BY IdleType DEF Init
<1>2. TypeOK
  BY <1>1 DEF Init, TypeOK
<1>3. ASSUME NEW c \in Calls PROVE FrameOK(call[c])
  <2>1. call[c].pc = "idle" /\ call[c].op = "place" /\ call[c].sent = 0
    BY DEF Init, Idle
  <2>. QED
    BY <2>1 DEF FrameOK, BeforeSend, ReplyStages, Chained
<1>. QED
  BY <1>2, <1>3 DEF FramesOK, Init

LEMMA FramesOKNext == FramesOK /\ [Next]_vars => FramesOK'
<1>. SUFFICES ASSUME FramesOK, [Next]_vars PROVE FramesOK'
  OBVIOUS
<1>1. ASSUME NEW c \in Calls, Begin(c) PROVE FramesOK'
  BY <1>1, BeginWriteOK, BeginChainOK, BeginReplyOK DEF Begin
<1>2. ASSUME NEW c \in Calls, Step(c) PROVE FramesOK'
  BY <1>2, AuthorizeOK, EnsureAccountsOK, TouchIDOK, TouchIDDeniedOK, ReadOrderOK,
     ConfirmOK, DeclineOK, SendWriteOK, SendReplyOK, SkipTerminalOK, NextRoundOK,
     OpenReplyOK, ReplyTouchIDOK, ConfirmReplyOK, DeclineReplyOK, SendAnswerOK,
     WriteShedOK, ReplyShedOK, RetryOK, RequestFailsOK DEF Step
<1>3. ASSUME NEW c \in Calls, CallerMutatesDict(c) PROVE FramesOK'
  BY <1>3, CallerMutatesDictOK
<1>. QED
  BY <1>1, <1>2, <1>3, EnvironmentOK DEF Next, AllEnded

THEOREM FramesInvariant == Spec => []FramesOK
BY FramesOKInit, FramesOKNext, PTL DEF Spec

\* The frames, the session, what the gateway knows and the history of the
\* gates are always of their types.
THEOREM TypeCorrect == Spec => []TypeOK
<1>1. FramesOK => TypeOK
  BY DEF FramesOK
<1>. QED
  BY <1>1, FramesInvariant, PTL

-----------------------------------------------------------------------------
(* How often the gateway processes a write: what the frame counts.             *)

ShedInv == \A c \in Calls : ShedOK(call[c])

\* A call that moves on starts with all its attempts, and comes to a stage before
\* its write from an earlier one only.
MovesOn(f, g) ==
    /\ g.tries = 0 /\ g.sent = f.sent /\ g.shed = f.shed
    /\ g.pc \in BeforeSend => f.pc \in BeforeSend \ {"send"}

LEMMA OneShed ==
    ASSUME FramesOK, ShedInv, NEW c \in Calls, NEW g, ShedOK(g),
           call' = [call EXCEPT ![c] = g]
    PROVE  ShedInv'
<1>1. \A d \in Calls : call'[d] = IF d = c THEN g ELSE call[d]
  BY DEF FramesOK, TypeOK
<1>. QED
  BY <1>1 DEF ShedInv, ShedOK

LEMMA MovesOnOK ==
    ASSUME FramesOK, ShedInv, NEW c \in Calls, NEW g, MovesOn(call[c], g),
           call' = [call EXCEPT ![c] = g]
    PROVE  ShedInv'
<1>1. call[c].sent \in Nat /\ call[c].shed \in Nat /\ MaxRetries \in Nat
  BY FrameFields, ConstantsOK DEF FramesOK, TypeOK, ConstantsOK
<1>2. ShedOK(call[c])
  BY DEF ShedInv
<1>3. ShedOK(g)
  BY <1>1, <1>2 DEF MovesOn, ShedOK, BeforeSend
<1>. QED
  BY <1>3, OneShed

LEMMA GotoMovesOn ==
    ASSUME NEW f \in Frame, NEW stage,
           stage \in BeforeSend => f.pc \in BeforeSend \ {"send"}
    PROVE  MovesOn(f, Goto(f, stage))
BY GotoFields DEF MovesOn

LEMMA RaiseMovesOn ==
    ASSUME NEW f \in Frame, NEW reason
    PROVE  MovesOn(f, Raise(f, reason))
BY RaiseFields DEF MovesOn, BeforeSend

\* A frame made of one that moved on, with the same stage and the same counts.
LEMMA LikeMovesOn ==
    ASSUME NEW f, NEW h, NEW g, MovesOn(f, h),
           g.pc = h.pc, g.tries = h.tries, g.sent = h.sent, g.shed = h.shed
    PROVE  MovesOn(f, g)
BY DEF MovesOn

LEMMA BeginMovesOn ==
    ASSUME FramesOK, NEW c \in Calls, Begin(c)
    PROVE  \E g : MovesOn(call[c], g) /\ call' = [call EXCEPT ![c] = g]
<1>. DEFINE f == call[c]
<1>1. f \in Frame /\ now \in Nat /\ f.pc = "idle"
  BY DEF FramesOK, TypeOK, Begin, BeginWrite, BeginChain, BeginReply
<1>2. ASSUME NEW op
      PROVE  /\ Goto(f, FirstStage(op)) \in Frame
             /\ MovesOn(f, Goto(f, FirstStage(op)))
  <2>1. FirstStage(op) \in Stages
    BY DEF FirstStage, Stages, Asking, Requesting
  <2>. QED
    BY <1>1, <2>1, GotoType, GotoMovesOn DEF BeforeSend
<1>3. CASE BeginWrite(c)
  <2>1. PICK op, b, auth, s :
          call' = [call EXCEPT ![c] = [Goto(f, FirstStage(op)) EXCEPT
                       !.op = op, !.dict = b, !.auth = auth, !.scope = s]]
    BY <1>3, Zenon DEF BeginWrite
  <2>. DEFINE h == Goto(f, FirstStage(op))
              g == [h EXCEPT !.op = op, !.dict = b, !.auth = auth, !.scope = s]
  <2>2. h \in Frame /\ MovesOn(f, h)
    BY <1>2
  <2>. HIDE DEF h
  <2>3. g.pc = h.pc /\ g.tries = h.tries /\ g.sent = h.sent /\ g.shed = h.shed
    BY <2>2, Zenon DEF Frame
  <2>4. call' = [call EXCEPT ![c] = g]
    BY <2>1 DEF h
  <2>. HIDE DEF f, g
  <2>. QED
    BY <2>2, <2>3, <2>4, LikeMovesOn DEF f
<1>4. CASE BeginChain(c)
  <2>1. PICK op, b, s :
          call' = [call EXCEPT ![c] = [Goto(f, FirstStage(op)) EXCEPT
                       !.op = op, !.dict = b, !.scope = s, !.chain = s]]
    BY <1>4, Zenon DEF BeginChain
  <2>. DEFINE h == Goto(f, FirstStage(op))
              g == [h EXCEPT !.op = op, !.dict = b, !.scope = s, !.chain = s]
  <2>2. h \in Frame /\ MovesOn(f, h)
    BY <1>2
  <2>. HIDE DEF h
  <2>3. g.pc = h.pc /\ g.tries = h.tries /\ g.sent = h.sent /\ g.shed = h.shed
    BY <2>2, Zenon DEF Frame
  <2>4. call' = [call EXCEPT ![c] = g]
    BY <2>1 DEF h
  <2>. HIDE DEF f, g
  <2>. QED
    BY <2>2, <2>3, <2>4, LikeMovesOn DEF f
<1>5. CASE BeginReply(c)
  <2>1. PICK r, yes, s :
          call' = [call EXCEPT ![c] = [Goto(f, FirstStage("reply")) EXCEPT
                       !.op = "reply", !.rid = r, !.yes = yes, !.scope = s]]
    BY <1>5, Zenon DEF BeginReply
  <2>. DEFINE h == Goto(f, FirstStage("reply"))
              g == [h EXCEPT !.op = "reply", !.rid = r, !.yes = yes, !.scope = s]
  <2>2. h \in Frame /\ MovesOn(f, h)
    BY <1>2
  <2>. HIDE DEF h
  <2>3. g.pc = h.pc /\ g.tries = h.tries /\ g.sent = h.sent /\ g.shed = h.shed
    BY <2>2, Zenon DEF Frame
  <2>4. call' = [call EXCEPT ![c] = g]
    BY <2>1 DEF h
  <2>. HIDE DEF f, g
  <2>. QED
    BY <2>2, <2>3, <2>4, LikeMovesOn DEF f
<1>. QED
  BY <1>3, <1>4, <1>5 DEF Begin

LEMMA AccountsMovesOn ==
    ASSUME FramesOK, NEW c \in Calls, EnsureAccounts(c)
    PROVE  \E g : MovesOn(call[c], g) /\ call' = [call EXCEPT ![c] = g]
<1>. DEFINE e == call[c]
            g == AfterAccounts(e)
<1>1. e \in Frame /\ now \in Nat /\ e.pc = "accounts" /\ e.scope \in Scope
  BY DEF FramesOK, TypeOK, FrameOK, EnsureAccounts
<1>2. PICK s \in Scope, f \in Frame :
        /\ f.pc = e.pc /\ f.sent = e.sent /\ f.shed = e.shed
        /\ g = IF e.op = "place_bracket"
               THEN [Goto(f, "authorize") EXCEPT !.chain = s]
               ELSE IF e.op \in Single /\ Covers(e.auth, s)
                    THEN AfterGate1(f)
                    ELSE Goto(f, "gate1")
  BY <1>1, AfterAccountsScope, Zenon
<1>3. call' = [call EXCEPT ![c] = g]
  BY Zenon DEF EnsureAccounts
<1>4. ASSUME NEW stage \in Stages PROVE MovesOn(f, Goto(f, stage))
  BY <1>1, <1>2, GotoMovesOn DEF BeforeSend
<1>5. MovesOn(f, g)
  <2>1. CASE e.op = "place_bracket"
    <3>. DEFINE h == Goto(f, "authorize")
                k == [h EXCEPT !.chain = s]
    <3>1. "authorize" \in Stages
      BY DEF Stages, Asking
    <3>2. h \in Frame /\ MovesOn(f, h)
      BY <1>1, <1>4, <3>1, GotoType
    <3>. HIDE DEF h
    <3>3. k.pc = h.pc /\ k.tries = h.tries /\ k.sent = h.sent /\ k.shed = h.shed
      BY <3>2, Zenon DEF Frame
    <3>4. g = k
      BY <1>2, <2>1 DEF h
    <3>. HIDE DEF k, g
    <3>. QED
      BY <3>2, <3>3, <3>4, LikeMovesOn
  <2>2. CASE e.op # "place_bracket"
    <3>1. \E stage \in {"read", "dialog"} : AfterGate1(f) = Goto(f, stage)
      BY <1>1, AfterGate1Type
    <3>2. {"gate1", "read", "dialog"} \subseteq Stages
      BY DEF Stages, Asking, Showing
    <3>3. \E stage \in {"gate1", "read", "dialog"} : g = Goto(f, stage)
      BY <1>2, <2>2, <3>1, Zenon
    <3>. QED
      BY <1>4, <3>2, <3>3
  <2>. QED
    BY <2>1, <2>2
<1>6. MovesOn(e, g)
  BY <1>2, <1>5 DEF MovesOn
<1>. QED
  BY <1>3, <1>6

\* The loop over the replies, and what an answer makes of a frame.
LEMMA RoundMovesOn ==
    ASSUME NEW f \in Frame, now \in Nat, NEW response \in Seq(ReplyId)
    PROVE  /\ MovesOn(f, StartRound(f, response)) /\ MovesOn(f, Receive(f, response))
           /\ MovesOn(f, Answered(f, response))
<1>1. MovesOn(f, Goto(f, "reply")) /\ MovesOn(f, Goto(f, "returned"))
  BY GotoMovesOn DEF BeforeSend
<1>. DEFINE h == Goto(f, "reply")
<1>2. h \in Frame
  BY GotoType DEF Stages, Internal
<1>3. ASSUME NEW queue, NEW latest
      PROVE  MovesOn(f, [h EXCEPT !.queue = queue, !.latest = latest])
  <2>. DEFINE g == [h EXCEPT !.queue = queue, !.latest = latest]
  <2>1. MovesOn(f, h)
    BY <1>1
  <2>. HIDE DEF h
  <2>2. g.pc = h.pc /\ g.tries = h.tries /\ g.sent = h.sent /\ g.shed = h.shed
    BY <1>2, Zenon DEF Frame
  <2>. HIDE DEF g
  <2>. QED
    BY <2>1, <2>2, LikeMovesOn DEF g
<1>4. MovesOn(f, StartRound(f, response))
  <2>1. PICK queue : StartRound(f, response) \in
               {[h EXCEPT !.queue = queue, !.latest = <<>>], Goto(f, "returned")}
    BY DEF StartRound
  <2>2. MovesOn(f, [h EXCEPT !.queue = queue, !.latest = <<>>])
    BY <1>3
  <2>. HIDE DEF h
  <2>. QED
    BY <1>1, <2>1, <2>2, Zenon
<1>5. MovesOn(f, Receive(f, response))
  BY <1>1, <1>4 DEF Receive
<1>6. MovesOn(f, Answered(f, response))
  <2>. DEFINE queue == Tail(h.queue)
              latest == h.latest \o response
  <2>1. Answered(f, response) = [h EXCEPT !.queue = queue, !.latest = latest]
    BY DEF Answered
  <2>2. MovesOn(f, [h EXCEPT !.queue = queue, !.latest = latest])
    BY <1>3
  <2>. HIDE DEF h, queue, latest
  <2>. QED
    BY <2>1, <2>2, Zenon
<1>. QED
  BY <1>4, <1>5, <1>6

LEMMA OpenMovesOn ==
    ASSUME FramesOK, NEW c \in Calls, OpenReply(c)
    PROVE  \E g : MovesOn(call[c], g) /\ call' = [call EXCEPT ![c] = g]
<1>. DEFINE f == call[c]
            r == Head(f.queue)
<1>1. f \in Frame /\ now \in Nat
  BY DEF FramesOK, TypeOK
<1>2. CASE call' = [call EXCEPT ![c] = Raise(f, "resent")]
  BY <1>1, <1>2, RaiseMovesOn
<1>3. CASE call' = [call EXCEPT ![c] =
            [Goto(f, IF Covers(f.auth, f.chain) THEN "reply dialog" ELSE "reply gate1")
                 EXCEPT !.log = NewRecord(@, r),
                        !.answered = IF f.op = "place_bracket" THEN @ \cup {r} ELSE @]]
  <2>1. PICK stage \in {"reply dialog", "reply gate1"} :
          call' = [call EXCEPT ![c] =
            [Goto(f, stage)
                 EXCEPT !.log = NewRecord(@, r),
                        !.answered = IF f.op = "place_bracket" THEN @ \cup {r} ELSE @]]
    BY <1>3
  <2>. DEFINE h == Goto(f, stage)
              log == NewRecord(h.log, r)
              answered == IF f.op = "place_bracket" THEN h.answered \cup {r}
                                                    ELSE h.answered
              g == [h EXCEPT !.log = log, !.answered = answered]
  <2>2. h \in Frame /\ MovesOn(f, h)
    BY <1>1, GotoType, GotoMovesOn DEF Stages, Asking, Showing, BeforeSend
  <2>3. call' = [call EXCEPT ![c] = g]
    BY <2>1
  <2>. HIDE DEF h, log, answered
  <2>4. g.pc = h.pc /\ g.tries = h.tries /\ g.sent = h.sent /\ g.shed = h.shed
    BY <2>2, Zenon DEF Frame
  <2>. HIDE DEF f, g
  <2>. QED
    BY <2>2, <2>3, <2>4, LikeMovesOn DEF f
<1>. QED
  BY <1>2, <1>3, Zenon DEF OpenReply

\* The steps that take a call to another stage without counting anything.
LEMMA StepMovesOn ==
    ASSUME FramesOK, NEW c \in Calls,
           \/ Authorize(c) \/ TouchID(c) \/ TouchIDDenied(c)
           \/ ReadOrder(c) \/ Confirm(c) \/ Decline(c) \/ SendReply(c)
           \/ NextRound(c) \/ ReplyTouchID(c) \/ ConfirmReply(c) \/ DeclineReply(c)
           \/ SendAnswer(c) \/ RequestFails(c)
    PROVE  \E g : MovesOn(call[c], g) /\ call' = [call EXCEPT ![c] = g]
<1>. DEFINE f == call[c]
<1>1. f \in Frame /\ now \in Nat
  BY DEF FramesOK, TypeOK
<1>2. ASSUME NEW stage, stage \in BeforeSend => f.pc \in BeforeSend \ {"send"},
             call' = [call EXCEPT ![c] = Goto(f, stage)]
      PROVE  \E g : MovesOn(call[c], g) /\ call' = [call EXCEPT ![c] = g]
  BY <1>1, <1>2, GotoMovesOn
<1>3. ASSUME NEW reason, call' = [call EXCEPT ![c] = Raise(f, reason)]
      PROVE  \E g : MovesOn(call[c], g) /\ call' = [call EXCEPT ![c] = g]
  BY <1>1, <1>3, RaiseMovesOn
<1>4. CASE TouchIDDenied(c) \/ Decline(c) \/ RequestFails(c)
  BY <1>3, <1>4, Zenon DEF TouchIDDenied, Decline, RequestFails
<1>5. CASE Confirm(c) \/ DeclineReply(c) \/ ReplyTouchID(c)
  <2>1. \E stage : /\ stage \in BeforeSend => f.pc \in BeforeSend \ {"send"}
                   /\ call' = [call EXCEPT ![c] = Goto(f, stage)]
    BY <1>5 DEF Confirm, DeclineReply, ReplyTouchID, BeforeSend
  <2>. QED
    BY <1>2, <2>1
<1>6. CASE TouchID(c)
  <2>1. PICK stage \in {"read", "dialog"} : AfterGate1(f) = Goto(f, stage)
    BY <1>1, AfterGate1Type
  <2>2. call' = [call EXCEPT ![c] = Goto(f, stage)] /\ f.pc = "gate1"
    BY <1>6, <2>1 DEF TouchID
  <2>. QED
    BY <1>2, <2>2 DEF BeforeSend
<1>7. CASE ReadOrder(c)
  <2>1. f.pc = "read" /\ (\/ call' = [call EXCEPT ![c] = Goto(f, "dialog")]
                          \/ call' = [call EXCEPT ![c] = Raise(f, "refused")])
    BY <1>7 DEF ReadOrder
  <2>. QED
    BY <1>2, <1>3, <2>1 DEF BeforeSend
<1>8. CASE SendReply(c)
  <2>1. \/ call' = [call EXCEPT ![c] = Goto(f, "returned")]
        \/ call' = [call EXCEPT ![c] = Raise(f, "lost")]
    BY <1>8 DEF SendReply, AnswerLost
  <2>. QED
    BY <1>2, <1>3, <2>1 DEF BeforeSend
<1>9. CASE Authorize(c)
  <2>. DEFINE a == [scope |-> f.chain, at |-> now]
  <2>1. PICK stage \in {"dialog", "accounts"} :
          call' = [call EXCEPT ![c] = [Goto(f, stage) EXCEPT !.auth = a]]
    BY <1>9 DEF Authorize
  <2>. DEFINE h == Goto(f, stage)
              g == [h EXCEPT !.auth = a]
  <2>2. h \in Frame /\ MovesOn(f, h)
    BY <1>1, <1>9, GotoType, GotoMovesOn
       DEF Authorize, Stages, Showing, Requesting, BeforeSend
  <2>3. call' = [call EXCEPT ![c] = g]
    BY <2>1
  <2>. HIDE DEF h, a
  <2>4. g.pc = h.pc /\ g.tries = h.tries /\ g.sent = h.sent /\ g.shed = h.shed
    BY <2>2, Zenon DEF Frame
  <2>. HIDE DEF f, g
  <2>. QED
    BY <2>2, <2>3, <2>4, LikeMovesOn DEF f
<1>10. CASE ConfirmReply(c)
  <2>. DEFINE h == Goto(f, "confirming")
              r == Head(f.queue)
              log == (h.log \ {<<r, FALSE>>}) \cup {<<r, TRUE>>}
              g == [h EXCEPT !.log = log]
  <2>1. h \in Frame /\ MovesOn(f, h)
    BY <1>1, GotoType, GotoMovesOn DEF Stages, Requesting, BeforeSend
  <2>2. call' = [call EXCEPT ![c] = g]
    BY <1>10, Zenon DEF ConfirmReply
  <2>. HIDE DEF h, log
  <2>3. g.pc = h.pc /\ g.tries = h.tries /\ g.sent = h.sent /\ g.shed = h.shed
    BY <2>1, Zenon DEF Frame
  <2>. HIDE DEF f, g
  <2>. QED
    BY <2>1, <2>2, <2>3, LikeMovesOn DEF f
<1>11. CASE NextRound(c)
  <2>1. f.latest \in Seq(ReplyId)
    BY <1>1, FrameFields
  <2>2. call' = [call EXCEPT ![c] = StartRound(f, f.latest)]
    BY <1>11 DEF NextRound
  <2>. QED
    BY <1>1, <2>1, <2>2, RoundMovesOn
<1>12. CASE SendAnswer(c)
  <2>. DEFINE r == Head(f.queue)
              yes == f.pc = "confirming"
  <2>1. f.queue # <<>> /\ f.queue \in Seq(ReplyId)
    BY <1>1, <1>12, FrameFields DEF FramesOK, FrameOK, SendAnswer, ReplyStages
  <2>2. r \in ReplyId
    BY <2>1, HeadTailProperties
  <2>3. PICK n \in NextQuestions(r, yes) :
          call' \in {[call EXCEPT ![c] = Answered(f, ReplyResponse(r, n))],
                     [call EXCEPT ![c] = Raise(f, "declined")],
                     [call EXCEPT ![c] = Raise(f, "lost")]}
    BY <1>12, Zenon DEF SendAnswer, Answered, AfterNo, AnswerLost
  <2>4. n \in Nat
    BY <2>2 DEF NextQuestions, ReplyId
  <2>. HIDE DEF r, yes
  <2>5. ReplyResponse(r, n) \in Seq(ReplyId)
    BY <2>2, <2>4, ReplyResponseType
  <2>. QED
    BY <1>1, <1>3, <2>3, <2>5, RoundMovesOn
<1>. QED
  BY <1>4, <1>5, <1>6, <1>7, <1>8, <1>9, <1>10, <1>11, <1>12

\* The steps that count: an attempt, the write, and a write answered 503.
LEMMA CountingOK ==
    ASSUME FramesOK, ShedInv, NEW c \in Calls,
           \/ SendWrite(c) \/ WriteShed(c) \/ ReplyShed(c) \/ Retry(c)
           \/ SkipTerminal(c) \/ CallerMutatesDict(c)
    PROVE  ShedInv'
<1>. DEFINE f == call[c]
<1>1. f \in Frame /\ FrameOK(f) /\ now \in Nat /\ ShedOK(f)
  BY DEF FramesOK, TypeOK, ShedInv
<1>2. /\ f.sent \in Nat /\ f.shed \in Nat /\ f.tries \in Nat /\ MaxRetries \in Nat
      /\ f.queue \in Seq(ReplyId)
  BY <1>1, FrameFields, ConstantsOK DEF ConstantsOK
<1>3. ASSUME NEW g, g.pc = f.pc, g.tries = f.tries, g.sent = f.sent, g.shed = f.shed,
             call' = [call EXCEPT ![c] = g]
      PROVE  ShedInv'
  <2>1. ShedOK(g)
    BY <1>1, <1>3 DEF ShedOK
  <2>. QED
    BY <1>3, <2>1, OneShed
<1>4. CASE SkipTerminal(c)
  <2>. DEFINE g == [f EXCEPT !.queue = Tail(f.queue)]
  <2>1. g.pc = f.pc /\ g.tries = f.tries /\ g.sent = f.sent /\ g.shed = f.shed
    BY <1>1, Zenon DEF Frame
  <2>2. call' = [call EXCEPT ![c] = g]
    BY <1>4, Zenon DEF SkipTerminal
  <2>. HIDE DEF g
  <2>. QED
    BY <1>3, <2>1, <2>2
<1>5. CASE CallerMutatesDict(c)
  <2>1. PICK b : call' = [call EXCEPT ![c] = [f EXCEPT !.dict = b]]
    BY <1>5, Zenon DEF CallerMutatesDict
  <2>. DEFINE g == [f EXCEPT !.dict = b]
  <2>2. g.pc = f.pc /\ g.tries = f.tries /\ g.sent = f.sent /\ g.shed = f.shed
    BY <1>1, Zenon DEF Frame
  <2>3. call' = [call EXCEPT ![c] = g]
    BY <2>1
  <2>. HIDE DEF g
  <2>. QED
    BY <1>3, <2>2, <2>3
<1>6. CASE Retry(c)
  <2>. DEFINE n == f.tries + 1
              g == [f EXCEPT !.tries = n]
  <2>1. call' = [call EXCEPT ![c] = g] /\ f.tries < MaxRetries
    BY <1>6, Zenon DEF Retry
  <2>2. n = f.tries + 1
    OBVIOUS
  <2>. HIDE DEF n
  <2>3. g.pc = f.pc /\ g.tries = n /\ g.sent = f.sent /\ g.shed = f.shed
    BY <1>1, Zenon DEF Frame
  <2>. HIDE DEF f, g
  <2>4. ShedOK(g)
    BY <1>1, <1>2, <2>1, <2>2, <2>3 DEF ShedOK
  <2>. QED
    BY <2>1, <2>4, OneShed
<1>7. CASE ReplyShed(c)
  <2>. DEFINE g == Unavailable(f)
  <2>1. call' = [call EXCEPT ![c] = g]
    BY <1>7, Zenon DEF ReplyShed
  <2>2. /\ g.sent = f.sent /\ g.shed = f.shed
        /\ \/ f.tries < MaxRetries /\ g.tries = f.tries + 1 /\ g.pc = f.pc
           \/ g.pc = "raised" /\ g.tries = 0
    BY <1>1, UnavailableFields
  <2>. HIDE DEF f, g
  <2>3. ShedOK(g)
    BY <1>1, <1>2, <2>2 DEF ShedOK, BeforeSend
  <2>. QED
    BY <2>1, <2>3, OneShed
<1>8. CASE WriteShed(c)
  <2>. DEFINE h == [f EXCEPT !.shed = @ + 1]
              g == Unavailable(h)
  <2>1. call' = [call EXCEPT ![c] = g] /\ f.pc = "send"
    BY <1>8, Zenon DEF WriteShed
  <2>2. /\ h \in Frame /\ h.shed = f.shed + 1 /\ h.sent = f.sent /\ h.tries = f.tries
        /\ h.pc = f.pc
    BY <1>1, ShedFields
  <2>. HIDE DEF h
  <2>3. /\ g.sent = h.sent /\ g.shed = h.shed
        /\ \/ h.tries < MaxRetries /\ g.tries = h.tries + 1 /\ g.pc = h.pc
           \/ g.pc = "raised" /\ g.tries = 0
    BY <1>1, <2>2, UnavailableFields
  <2>4. f.sent = 0
    BY <1>1, <2>1 DEF FrameOK, BeforeSend
  <2>. HIDE DEF f, g
  <2>5. ShedOK(g)
    BY <1>1, <1>2, <2>1, <2>2, <2>3, <2>4 DEF ShedOK, BeforeSend
  <2>. QED
    BY <2>1, <2>5, OneShed
<1>9. CASE SendWrite(c)
  <2>. DEFINE n == f.sent + 1
              h == [f EXCEPT !.sent = n]
  <2>1. /\ f.pc = "send"
        /\ \E q \in [1..NLegs(h.op) -> {0, 1}] :
             LET response == [i \in 1..NLegs(h.op) |-> <<c, i, q[i]>>] IN
             \/ call' = [call EXCEPT ![c] = Receive(h, response)]
             \/ call' = [call EXCEPT ![c] = AnswerLost(h)]
    <3>1. /\ h.pc = "send"
          /\ \E q \in [1..NLegs(h.op) -> IF h.op = "cancel" \/ MaxQuestions = 0
                                         THEN {0} ELSE {0, 1}] :
               LET response == [i \in 1..NLegs(h.op) |-> <<c, i, q[i]>>] IN
               \/ call' = [call EXCEPT ![c] = Receive(h, response)]
               \/ call' = [call EXCEPT ![c] = AnswerLost(h)]
      BY <1>9, Zenon DEF SendWrite
    <3>2. h.pc = f.pc
      BY <1>1, Zenon DEF Frame
    <3>. HIDE DEF h
    <3>. QED
      BY <3>1, <3>2
  <2>2. n = f.sent + 1 /\ n \in Nat
    BY <1>2
  <2>. HIDE DEF n
  <2>3. h \in Frame
    BY <1>1, <2>2, Zenon DEF Frame
  <2>4. h.sent = n /\ h.shed = f.shed /\ h.pc = f.pc
    BY <1>1, Zenon DEF Frame
  <2>. HIDE DEF h
  <2>5. PICK q \in [1..NLegs(h.op) -> {0, 1}] :
             LET response == [i \in 1..NLegs(h.op) |-> <<c, i, q[i]>>] IN
             \/ call' = [call EXCEPT ![c] = Receive(h, response)]
             \/ call' = [call EXCEPT ![c] = AnswerLost(h)]
    BY <2>1
  <2>. DEFINE response == [i \in 1..NLegs(h.op) |-> <<c, i, q[i]>>]
  <2>6. response \in Seq(ReplyId)
    BY WriteResponse
  <2>7. PICK g \in {Receive(h, response), AnswerLost(h)} :
          call' = [call EXCEPT ![c] = g]
    BY <2>5
  <2>. HIDE DEF response
  <2>8. MovesOn(h, g) /\ g.pc \notin BeforeSend
    <3>1. MovesOn(h, Receive(h, response)) /\ MovesOn(h, AnswerLost(h))
      BY <1>1, <2>3, <2>6, RoundMovesOn, RaiseMovesOn DEF AnswerLost
    <3>2. h.pc = "send"
      BY <2>1, <2>4
    <3>. QED
      BY <2>7, <3>1, <3>2 DEF MovesOn
  <2>9. f.sent = 0
    BY <1>1, <2>1 DEF FrameOK, BeforeSend
  <2>. HIDE DEF f
  <2>10. ShedOK(g)
    <3>1. g.tries = 0 /\ g.sent = 1 /\ g.shed = f.shed
      BY <2>2, <2>4, <2>8, <2>9 DEF MovesOn
    <3>2. f.shed <= f.tries /\ f.tries <= MaxRetries
      BY <1>1, <2>1 DEF ShedOK
    <3>3. g.pc # "send" /\ g.pc \notin BeforeSend
      BY <2>8 DEF BeforeSend
    <3>4. g.tries <= MaxRetries /\ g.sent + g.shed <= MaxRetries + 1
      BY <1>2, <3>1, <3>2
    <3>. QED
      BY <3>3, <3>4 DEF ShedOK
  <2>. QED
    BY <2>7, <2>10, OneShed
<1>. QED
  BY <1>4, <1>5, <1>6, <1>7, <1>8, <1>9

LEMMA ShedInit == Init => ShedInv
<1>. SUFFICES ASSUME Init, NEW c \in Calls PROVE ShedOK(call[c])
  BY DEF ShedInv
<1>1. call[c].pc = "idle" /\ call[c].tries = 0 /\ call[c].sent = 0 /\ call[c].shed = 0
  BY DEF Init, Idle
<1>. QED
  BY <1>1, ConstantsOK DEF ShedOK, ConstantsOK

LEMMA ShedNext == FramesOK /\ ShedInv /\ [Next]_vars => ShedInv'
<1>. SUFFICES ASSUME FramesOK, ShedInv, [Next]_vars PROVE ShedInv'
  OBVIOUS
<1>1. ASSUME NEW c \in Calls, Begin(c) PROVE ShedInv'
  BY <1>1, BeginMovesOn, MovesOnOK
<1>2. ASSUME NEW c \in Calls, Step(c) PROVE ShedInv'
  BY <1>2, StepMovesOn, AccountsMovesOn, OpenMovesOn, MovesOnOK, CountingOK DEF Step
<1>3. ASSUME NEW c \in Calls, CallerMutatesDict(c) PROVE ShedInv'
  BY <1>3, CountingOK
<1>4. CASE Tick \/ QuestionLapses \/ SessionLost \/ LoggedInAgain \/ UNCHANGED vars
  <2>1. UNCHANGED call
    BY <1>4 DEF Tick, QuestionLapses, SessionLost, LoggedInAgain, vars
  <2>. QED
    BY <2>1 DEF ShedInv, ShedOK
<1>. QED
  BY <1>1, <1>2, <1>3, <1>4 DEF Next, AllEnded

\* with_retry around the POST of an order-write method: the gateway never processes
\* a write again after an answer that arrived or was lost.  After a 503 it may, and
\* then at most 1 + MaxRetries orders stand behind one yes.
THEOREM WrittenOnce == Spec => []SentOnce
<1>1. FramesOK /\ ShedInv => SentOnce
  BY DEF FramesOK, FrameOK, ShedInv, ShedOK, SentOnce
<1>2. Spec => []ShedInv
  BY ShedInit, ShedNext, FramesInvariant, PTL DEF Spec
<1>. QED
  BY <1>1, <1>2, FramesInvariant, PTL

(***************************************************************************)
(* The gates: the inductive invariant IInv, the safety properties          *)
(* ShownAsSent and Authorized, and the refinement of TwoGates.  Then what  *)
(* the chains make of IBKR's questions: the inductive invariant HonestInv, *)
(* and RepliesHonest; what a no rules out, and the account query that      *)
(* precedes every write.                                                   *)
(***************************************************************************)


LEMMA LimitNat == ASSUME NEW stage PROVE Limit(stage) \in Nat
BY ConstantsOK DEF Limit, ConstantsOK

\* A frame that has just entered its stage is within the limit.
LEMMA FreshClock ==
    ASSUME NEW c \in Calls, now \in Nat, now' = now, call'[c].since = now
    PROVE  ClockOK(call[c])'
BY LimitNat DEF ClockOK

\* Fingerprints and confirmed dialogs are never forgotten, so what stands behind
\* a frame or a request stays there.
LEMMA HistoryGrows ==
    ASSUME NEW d \in Calls, call'[d] = call[d], now' = now,
           touches \subseteq touches', confirms \subseteq confirms'
    PROVE  /\ ClockOK(call[d]) => ClockOK(call[d])'
           /\ AuthOK(call[d]) => AuthOK(call[d])'
           /\ GateOK(d, call[d]) => GateOK(d, call[d])'
<1>1. ClockOK(call[d]) => ClockOK(call[d])'
  BY DEF ClockOK
<1>2. AuthOK(call[d]) => AuthOK(call[d])'
  BY DEF AuthOK
<1>3. GateOK(d, call[d]) => GateOK(d, call[d])'
  BY DEF GateOK, Backed, WasShown
<1>. QED
  BY <1>1, <1>2, <1>3

\* A step of c that leaves the other calls alone preserves the invariant if it
\* preserves what the invariant says of c.
LEMMA StepCalls ==
    ASSUME IInv, FramesOK', NEW c \in Calls,
           \A d \in Calls \ {c} : call'[d] = call[d],
           now' = now, raised \subseteq raised',
           touches \subseteq touches', confirms \subseteq confirms',
           \A t \in touches' : t \in touches \/ t.at = now,
           call[c].pc \notin BeforeSend => call'[c].scope = call[c].scope,
           CallOK(c, call[c])', Authorized', ShownAsSent'
    PROVE  IInv'
<1>1. now \in Nat /\ raised \subseteq ReplyId
  BY DEF IInv, FramesOK, TypeOK
<1>2. \A t \in touches' : t.at <= now'
  BY <1>1 DEF IInv
<1>3. ASSUME NEW d \in Calls \ {c} PROVE CallOK(d, call[d])'
  <2>1. CallOK(d, call[d])
    BY DEF IInv
  <2>2. ClockOK(call[d])' /\ AuthOK(call[d])' /\ GateOK(d, call[d])'
    BY <2>1, HistoryGrows DEF CallOK
  <2>3. IdentityOK(d, call[d])'
    <3>1. CASE call[d].op # "reply"
      BY <2>1, <3>1 DEF CallOK, IdentityOK, Itself
    <3>2. CASE call[d].op = "reply"
      <4>. DEFINE e == call[d].rid[1]
      <4>1. call[d].rid \in raised /\ call[d].scope = call[e].scope
        BY <2>1, <3>2 DEF CallOK, IdentityOK
      <4>2. e \in Calls /\ call[e].pc \notin BeforeSend
        BY <1>1, <4>1 DEF IInv, FramesOK, ReplyId
      <4>3. call'[e].scope = call[e].scope
        BY <4>2
      <4>. HIDE DEF e
      <4>4. call'[d].rid \in raised' /\ call'[d].scope = call'[e].scope
        BY <4>1, <4>3
      <4>5. call'[d].rid[1] = e
        BY DEF e
      <4>. QED
        BY <2>1, <3>2, <4>4, <4>5 DEF CallOK, IdentityOK
    <3>. QED
      BY <3>1, <3>2
  <2>. QED
    BY <2>2, <2>3 DEF CallOK
<1>. QED
  BY <1>2, <1>3 DEF IInv

\* Nothing is sent: what stands behind the requests of the past stays there.
LEMMA NothingSent ==
    ASSUME IInv, wire' = wire, touches \subseteq touches', confirms \subseteq confirms'
    PROVE  Authorized' /\ ShownAsSent'
BY DEF IInv, Authorized, StandsBehind, ShownAsSent

\* A step of c that leaves c its identity.
LEMMA KeepOK ==
    ASSUME IInv, FramesOK', NEW c \in Calls,
           \A d \in Calls \ {c} : call'[d] = call[d],
           now' = now, raised \subseteq raised', Authorized', ShownAsSent',
           touches \subseteq touches', confirms \subseteq confirms',
           \A t \in touches' : t \in touches \/ t.at = now,
           call'[c].op = call[c].op, call'[c].scope = call[c].scope,
           call'[c].auth = call[c].auth, call'[c].rid = call[c].rid,
           \A i \in DOMAIN call'[c].queue : call'[c].queue[i][1] = c,
           \A i \in DOMAIN call'[c].latest : call'[c].latest[i][1] = c,
           ClockOK(call[c])', GateOK(c, call[c])',
           \/ call[c].pc \in PastGate1
           \/ call'[c].op \notin Chained \/ call'[c].pc \notin PastGate1
           \/ \E t \in touches' : /\ t.scope = call[c].scope /\ ~IsQuestion(t.rid)
                                  /\ call[c].auth.at <= t.at
    PROVE  IInv'
<1>1. CallOK(c, call[c])
  BY DEF IInv
<1>2. raised \subseteq ReplyId
  BY DEF IInv, FramesOK, TypeOK
<1>3. AuthOK(call[c])'
  BY <1>1 DEF CallOK, AuthOK
<1>4. IdentityOK(c, call[c])'
  <2>1. CASE call[c].op # "reply"
    BY <1>1, <2>1 DEF CallOK, IdentityOK, Itself
  <2>2. CASE call[c].op = "reply"
    <3>. DEFINE e == call[c].rid[1]
    <3>1. call[c].rid \in raised /\ call[c].scope = call[e].scope
      BY <1>1, <2>2 DEF CallOK, IdentityOK
    <3>2. e \in Calls
      BY <1>2, <3>1 DEF ReplyId
    <3>3. call'[e].scope = call[e].scope
      BY <3>2
    <3>4. call'[c].rid[1] = e
      OBVIOUS
    <3>. HIDE DEF e
    <3>. QED
      BY <1>1, <2>2, <3>1, <3>3, <3>4 DEF CallOK, IdentityOK
  <2>. QED
    BY <2>1, <2>2
<1>5. CallOK(c, call[c])'
  BY <1>3, <1>4 DEF CallOK
<1>. QED
  BY <1>5, StepCalls

\* ... and sends nothing.
LEMMA StayOK ==
    ASSUME IInv, FramesOK', NEW c \in Calls,
           \A d \in Calls \ {c} : call'[d] = call[d],
           now' = now, raised' = raised, wire' = wire,
           touches \subseteq touches', confirms \subseteq confirms',
           \A t \in touches' : t \in touches \/ t.at = now,
           call'[c].op = call[c].op, call'[c].scope = call[c].scope,
           call'[c].auth = call[c].auth, call'[c].rid = call[c].rid,
           \A i \in DOMAIN call'[c].queue : call'[c].queue[i][1] = c,
           \A i \in DOMAIN call'[c].latest : call'[c].latest[i][1] = c,
           ClockOK(call[c])', GateOK(c, call[c])',
           \/ call[c].pc \in PastGate1
           \/ call'[c].op \notin Chained \/ call'[c].pc \notin PastGate1
           \/ \E t \in touches' : /\ t.scope = call[c].scope /\ ~IsQuestion(t.rid)
                                  /\ call[c].auth.at <= t.at
    PROVE  IInv'
<1>1. Authorized' /\ ShownAsSent'
  BY NothingSent
<1>. QED
  BY <1>1, KeepOK

\* ... to a stage that owes the gates nothing: the end of the call, the next
\* prompt, the loop over the replies.
LEMMA OwesNothing ==
    ASSUME NEW c \in Calls,
           call'[c].pc \notin {"read", "dialog", "send", "reply dialog", "confirming"}
    PROVE  GateOK(c, call[c])'
BY DEF GateOK

\* A step that takes c to another stage and sends nothing.
LEMMA GotoStay ==
    ASSUME IInv, FramesOK', NEW c \in Calls, NEW stage,
           call' = [call EXCEPT ![c] = Goto(call[c], stage)],
           now' = now, raised' = raised, wire' = wire,
           touches \subseteq touches', confirms \subseteq confirms',
           \A t \in touches' : t \in touches \/ t.at = now,
           GateOK(c, call[c])',
           \/ call[c].pc \in PastGate1
           \/ call[c].op \notin Chained \/ stage \notin PastGate1
           \/ \E t \in touches' : /\ t.scope = call[c].scope /\ ~IsQuestion(t.rid)
                                  /\ call[c].auth.at <= t.at
    PROVE  IInv'
<1>1. call \in [Calls -> Frame] /\ call[c] \in Frame /\ now \in Nat
  BY DEF IInv, FramesOK, TypeOK
<1>2. /\ \A d \in Calls \ {c} : call'[d] = call[d]
      /\ call'[c] = Goto(call[c], stage)
  BY <1>1
<1>3. /\ call'[c].pc = stage /\ call'[c].since = now /\ call'[c].op = call[c].op
      /\ call'[c].scope = call[c].scope /\ call'[c].auth = call[c].auth
      /\ call'[c].rid = call[c].rid /\ call'[c].queue = call[c].queue
      /\ call'[c].latest = call[c].latest
  BY <1>1, <1>2, GotoFields
<1>4. /\ \A i \in DOMAIN call'[c].queue : call'[c].queue[i][1] = c
      /\ \A i \in DOMAIN call'[c].latest : call'[c].latest[i][1] = c
  BY <1>3 DEF IInv, CallOK, IdentityOK
<1>5. ClockOK(call[c])'
  BY <1>1, <1>3, FreshClock
<1>. QED
  BY <1>2, <1>3, <1>4, <1>5, StayOK

\* The stage, its start and the scope of c after a Goto.
LEMMA AfterGoto ==
    ASSUME IInv, NEW c \in Calls, NEW stage,
           call' = [call EXCEPT ![c] = Goto(call[c], stage)]
    PROVE  /\ call'[c].pc = stage /\ call'[c].since = now
           /\ call'[c].scope = call[c].scope /\ call'[c].rid = call[c].rid
           /\ call'[c].queue = call[c].queue /\ call'[c].op = call[c].op
<1>1. call \in [Calls -> Frame] /\ call[c] \in Frame
  BY DEF IInv, FramesOK, TypeOK
<1>2. call'[c] = Goto(call[c], stage)
  BY <1>1
<1>. QED
  BY <1>1, <1>2, GotoFields

LEMMA RaiseStay ==
    ASSUME IInv, FramesOK', NEW c \in Calls, NEW reason,
           call' = [call EXCEPT ![c] = Raise(call[c], reason)],
           UNCHANGED <<now, human, gateway>>
    PROVE  IInv'
<1>1. call \in [Calls -> Frame] /\ call[c] \in Frame /\ now \in Nat
  BY DEF IInv, FramesOK, TypeOK
<1>2. /\ \A d \in Calls \ {c} : call'[d] = call[d]
      /\ call'[c] = Raise(call[c], reason)
  BY <1>1
<1>3. /\ call'[c].pc = "raised" /\ call'[c].since = now /\ call'[c].op = call[c].op
      /\ call'[c].scope = call[c].scope /\ call'[c].auth = call[c].auth
      /\ call'[c].rid = call[c].rid /\ call'[c].queue = call[c].queue
      /\ call'[c].latest = call[c].latest
  BY <1>1, <1>2, RaiseFields
<1>4. /\ \A i \in DOMAIN call'[c].queue : call'[c].queue[i][1] = c
      /\ \A i \in DOMAIN call'[c].latest : call'[c].latest[i][1] = c
  BY <1>3 DEF IInv, CallOK, IdentityOK
<1>5. ClockOK(call[c])'
  BY <1>1, <1>3, FreshClock DEF human
<1>6. GateOK(c, call[c])' /\ call'[c].pc \notin PastGate1
  BY <1>3, OwesNothing DEF PastGate1, ReplyStages
<1>. QED
  BY <1>2, <1>3, <1>4, <1>5, <1>6, StayOK DEF human, gateway

\* What the authorization of a chain is worth: a fingerprint of the past.
LEMMA AuthBacked ==
    ASSUME IInv, NEW c \in Calls, call[c].auth # NoAuth
    PROVE  \E t \in touches : /\ t.scope = call[c].auth.scope
                              /\ t.at = call[c].auth.at /\ ~IsQuestion(t.rid)
                              /\ t.at \in Nat /\ t.at <= now
<1>1. AuthOK(call[c]) /\ touches \subseteq Touch /\ \A t \in touches : t.at <= now
  BY DEF IInv, CallOK, FramesOK, TypeOK
<1>2. PICK t \in touches : /\ t.scope = call[c].auth.scope
                           /\ t.at = call[c].auth.at /\ ~IsQuestion(t.rid)
  BY <1>1 DEF AuthOK
<1>3. t.at \in Nat
  BY <1>1 DEF Touch
<1>. QED
  BY <1>1, <1>2, <1>3

LEMMA TimesNat == TTL \in Nat /\ 0 < TTL /\ DialogTime \in Nat /\ RequestTime \in Nat
<1>1. TTL \in Nat \ {0} /\ DialogTime \in Nat /\ RequestTime \in Nat
  BY ConstantsOK DEF ConstantsOK
<1>. QED
  BY <1>1

\* Ages: of what has just happened, of what happened later than something, and
\* after some more time.
LEMMA JustNow ==
    ASSUME NEW x \in Nat
    PROVE  x <= x /\ x - x < TTL /\ x - x < TTL + RequestTime
BY TimesNat

LEMMA Younger ==
    ASSUME NEW x \in Nat, NEW y \in Nat, NEW z \in Nat, z - x < TTL, x <= y, y <= z
    PROVE  z - y < TTL
BY TimesNat

LEMMA Elapsed ==
    ASSUME NEW x \in Nat, NEW y \in Nat, NEW z \in Nat, NEW m \in Nat, NEW n \in Nat,
           x <= y, y <= z, y - x < m, z - y <= n
    PROVE  x <= z /\ z - x < m + n
OBVIOUS

LEMMA TouchIDGate ==
    ASSUME IInv, FramesOK', NEW c \in Calls, TouchID(c) PROVE IInv'
<1>. DEFINE f == call[c]
            t == [scope |-> f.scope, rid |-> f.rid, at |-> now]
<1>1. f \in Frame /\ now \in Nat /\ f.pc = "gate1" /\ FrameOK(f) /\ CallOK(c, f)
  BY DEF TouchID, IInv, FramesOK, TypeOK
<1>2. PICK stage \in {"read", "dialog"} :
        call' = [call EXCEPT ![c] = Goto(call[c], stage)]
  BY <1>1, AfterGate1Type DEF TouchID
<1>3. touches' = touches \cup {t} /\ UNCHANGED <<now, session, confirms, gateway>>
  BY DEF TouchID
<1>4. t \in touches' /\ t.scope = f.scope /\ t.rid = f.rid /\ t.at = now
  BY <1>3
<1>. HIDE DEF t
<1>5. /\ call'[c].pc = stage /\ call'[c].since = now
      /\ call'[c].scope = call[c].scope /\ call'[c].rid = call[c].rid
  BY <1>2, AfterGoto
<1>6. GateOK(c, call[c])'
  <2>1. now - now < TTL /\ now - now < TTL + RequestTime /\ now <= now
    BY <1>1, TimesNat
  <2>2. CASE stage = "read"
    BY <1>4, <1>5, <2>1, <2>2 DEF GateOK, Backed
  <2>3. CASE stage = "dialog"
    BY <1>4, <1>5, <2>1, <2>3 DEF GateOK, Backed
  <2>. QED
    BY <2>2, <2>3
<1>7. f.op \in Chained => ~IsQuestion(t.rid) /\ f.auth.at <= t.at
  <2>1. SUFFICES ASSUME f.op \in Chained PROVE ~IsQuestion(t.rid) /\ f.auth.at <= t.at
    OBVIOUS
  <2>2. f.auth # NoAuth
    BY <1>1, <2>1 DEF FrameOK
  <2>3. f.auth.at <= now
    BY <2>2, AuthBacked
  <2>4. f.rid = Itself(c)
    BY <1>1, <2>1 DEF CallOK, IdentityOK, Chained
  <2>. QED
    BY <1>4, <2>3, <2>4 DEF Itself, IsQuestion
<1>8. raised' = raised /\ wire' = wire /\ now' = now /\ confirms' = confirms
  BY <1>3 DEF gateway
<1>9. \A u \in touches' : u \in touches \/ u.at = now
  BY <1>3, <1>4
<1>. QED
  BY <1>2, <1>3, <1>4, <1>6, <1>7, <1>8, <1>9, GotoStay

LEMMA ReadOrderGate ==
    ASSUME IInv, FramesOK', NEW c \in Calls, ReadOrder(c) PROVE IInv'
<1>. DEFINE f == call[c]
<1>1. f \in Frame /\ now \in Nat /\ f.pc = "read" /\ CallOK(c, f) /\ f.since \in Nat
  BY FrameFields DEF ReadOrder, IInv, FramesOK, TypeOK
<1>2. touches \subseteq Touch
  BY DEF IInv, FramesOK, TypeOK
<1>3. CASE call' = [call EXCEPT ![c] = Goto(call[c], "dialog")]
  <2>1. /\ call'[c].pc = "dialog" /\ call'[c].since = now
        /\ call'[c].scope = f.scope /\ call'[c].rid = f.rid
    BY <1>3, AfterGoto
  <2>2. now - f.since <= RequestTime
    BY <1>1 DEF CallOK, ClockOK, Limit, Requesting, Asking, Showing, Ended
  <2>3. PICK t \in touches : /\ t.scope = f.scope
                             /\ t.rid = f.rid \/ ~IsQuestion(t.rid)
                             /\ t.at <= f.since /\ f.since - t.at < TTL
    BY <1>1 DEF CallOK, GateOK, Backed
  <2>4. t.at \in Nat /\ t.at <= now /\ now - t.at < TTL + RequestTime
    <3>1. t.at \in Nat
      BY <1>2 DEF Touch
    <3>2. f.since <= now
      BY <1>1 DEF CallOK, ClockOK
    <3>. QED
      BY <1>1, <2>2, <2>3, <3>1, <3>2, TimesNat
  <2>5. UNCHANGED <<now, touches, confirms, raised, wire>>
    BY DEF ReadOrder, human, gateway
  <2>6. GateOK(c, call[c])'
    BY <2>1, <2>3, <2>4, <2>5 DEF GateOK, Backed
  <2>7. f.pc \in PastGate1
    BY <1>1 DEF PastGate1
  <2>. QED
    BY <1>3, <2>5, <2>6, <2>7, GotoStay
<1>4. CASE call' = [call EXCEPT ![c] = Raise(call[c], "refused")]
  BY <1>4, RaiseStay DEF ReadOrder
<1>. QED
  BY <1>3, <1>4 DEF ReadOrder

LEMMA ConfirmGate ==
    ASSUME IInv, FramesOK', NEW c \in Calls, Confirm(c) PROVE IInv'
<1>. DEFINE f == call[c]
            e == [by |-> c, scope |-> f.scope, rid |-> f.rid, label |-> f.scope]
<1>1. f \in Frame /\ now \in Nat /\ f.pc = "dialog" /\ CallOK(c, f) /\ f.since \in Nat
  BY FrameFields DEF Confirm, IInv, FramesOK, TypeOK
<1>2. touches \subseteq Touch
  BY DEF IInv, FramesOK, TypeOK
<1>3. /\ call' = [call EXCEPT ![c] = Goto(call[c], "send")]
      /\ confirms' = confirms \cup {e}
      /\ UNCHANGED <<now, touches, raised, wire>>
  BY DEF Confirm, gateway
<1>4. e \in confirms' /\ e.by = c /\ e.scope = f.scope /\ e.rid = f.rid
  BY <1>3
<1>. HIDE DEF e
<1>5. /\ call'[c].pc = "send" /\ call'[c].since = now
      /\ call'[c].scope = f.scope /\ call'[c].rid = f.rid
  BY <1>3, AfterGoto
<1>6. now - f.since <= DialogTime /\ f.since <= now
  BY <1>1 DEF CallOK, ClockOK, Limit, Requesting, Asking, Showing, Ended
<1>7. PICK t \in touches : /\ t.scope = f.scope
                           /\ t.rid = f.rid \/ ~IsQuestion(t.rid)
                           /\ t.at <= f.since /\ f.since - t.at < TTL + RequestTime
  BY <1>1 DEF CallOK, GateOK, Backed
<1>8. t.at \in Nat /\ t.at <= now /\ now - t.at < TTL + RequestTime + DialogTime
  <2>1. t.at \in Nat
    BY <1>2 DEF Touch
  <2>. QED
    BY <1>1, <1>6, <1>7, <2>1, TimesNat
<1>9. GateOK(c, call[c])'
  BY <1>3, <1>4, <1>5, <1>7, <1>8 DEF GateOK, Backed, WasShown
<1>10. f.pc \in PastGate1
  BY <1>1 DEF PastGate1
<1>. QED
  BY <1>3, <1>9, <1>10, GotoStay

\* A step that changes neither the stage of c nor anything the invariant reads.
LEMMA StandStill ==
    ASSUME IInv, FramesOK', NEW c \in Calls, NEW g \in Frame,
           call' = [call EXCEPT ![c] = g],
           g.pc = call[c].pc, g.since = call[c].since, g.op = call[c].op,
           g.scope = call[c].scope, g.auth = call[c].auth, g.rid = call[c].rid,
           g.queue = call[c].queue, g.latest = call[c].latest,
           UNCHANGED <<now, human>>, raised \subseteq raised',
           Authorized', ShownAsSent'
    PROVE  IInv'
<1>1. call \in [Calls -> Frame]
  BY DEF IInv, FramesOK, TypeOK
<1>2. call'[c] = g /\ \A d \in Calls \ {c} : call'[d] = call[d]
  BY <1>1
<1>3. CallOK(c, call[c])
  BY DEF IInv
<1>4. UNCHANGED <<now, touches, confirms>>
  BY DEF human
<1>5. ClockOK(call[c])'
  BY <1>2, <1>3, <1>4 DEF CallOK, ClockOK
<1>6. GateOK(c, call[c])'
  <2>. DEFINE f == call[c]
  <2>1. GateOK(c, f)
    BY <1>3 DEF CallOK
  <2>2. /\ call'[c].pc = f.pc /\ call'[c].since = f.since
        /\ call'[c].scope = f.scope /\ call'[c].rid = f.rid
        /\ call'[c].queue = f.queue
    BY <1>2
  <2>3. CASE f.pc = "read"
    BY <1>4, <2>1, <2>2, <2>3 DEF GateOK, Backed
  <2>4. CASE f.pc = "dialog"
    BY <1>4, <2>1, <2>2, <2>4 DEF GateOK, Backed
  <2>5. CASE f.pc = "send"
    BY <1>4, <2>1, <2>2, <2>5 DEF GateOK, Backed, WasShown
  <2>6. CASE f.pc = "reply dialog"
    BY <1>4, <2>1, <2>2, <2>6 DEF GateOK, Backed
  <2>7. CASE f.pc = "confirming"
    BY <1>4, <2>1, <2>2, <2>7 DEF GateOK, Backed, WasShown
  <2>. QED
    BY <2>2, <2>3, <2>4, <2>5, <2>6, <2>7, OwesNothing
<1>7. AuthOK(call[c])'
  BY <1>2, <1>3, <1>4 DEF CallOK, AuthOK
<1>8. IdentityOK(c, call[c])'
  <2>1. CASE call[c].op # "reply"
    BY <1>2, <1>3, <2>1 DEF CallOK, IdentityOK, Itself
  <2>2. CASE call[c].op = "reply"
    <3>. DEFINE e == call[c].rid[1]
    <3>1. call[c].rid \in raised /\ call[c].scope = call[e].scope
      BY <1>3, <2>2 DEF CallOK, IdentityOK
    <3>2. e \in Calls
      BY <3>1 DEF IInv, FramesOK, TypeOK, ReplyId
    <3>3. call'[e].scope = call[e].scope
      BY <1>2, <3>2
    <3>4. call'[c].rid[1] = e
      BY <1>2
    <3>. HIDE DEF e
    <3>. QED
      BY <1>2, <1>3, <1>4, <2>2, <3>1, <3>3, <3>4 DEF CallOK, IdentityOK
  <2>. QED
    BY <2>1, <2>2
<1>9. CallOK(c, call[c])'
  BY <1>5, <1>6, <1>7, <1>8 DEF CallOK
<1>. QED
  BY <1>2, <1>4, <1>9, StepCalls

LEMMA RetryGate == ASSUME IInv, FramesOK', NEW c \in Calls, Retry(c) PROVE IInv'
<1>. DEFINE f == call[c]
            g == [f EXCEPT !.tries = f.tries + 1]
<1>1. f \in Frame
  BY DEF IInv, FramesOK, TypeOK
<1>2. f.tries + 1 \in Nat
  BY <1>1, FrameFields
<1>3. g \in Frame
  BY <1>1, <1>2, Zenon DEF Frame
<1>4. /\ g.pc = f.pc /\ g.since = f.since /\ g.op = f.op /\ g.scope = f.scope
      /\ g.auth = f.auth /\ g.rid = f.rid /\ g.queue = f.queue /\ g.latest = f.latest
  BY <1>1, Zenon DEF Frame
<1>5. call' = [call EXCEPT ![c] = g]
  BY Zenon DEF Retry
<1>. HIDE DEF g
<1>6. Authorized' /\ ShownAsSent'
  BY NothingSent DEF Retry, human, gateway
<1>. QED
  BY <1>3, <1>4, <1>5, <1>6, StandStill DEF Retry, gateway

LEMMA CallerMutatesDictGate ==
    ASSUME IInv, FramesOK', NEW c \in Calls, CallerMutatesDict(c) PROVE IInv'
<1>. DEFINE f == call[c]
<1>1. PICK b \in Bodies : call' = [call EXCEPT ![c] = [f EXCEPT !.dict = b]]
  BY Zenon DEF CallerMutatesDict
<1>. DEFINE g == [f EXCEPT !.dict = b]
<1>2. f \in Frame
  BY DEF IInv, FramesOK, TypeOK
<1>3. g \in Frame
  BY <1>2, Zenon DEF Frame
<1>4. /\ g.pc = f.pc /\ g.since = f.since /\ g.op = f.op /\ g.scope = f.scope
      /\ g.auth = f.auth /\ g.rid = f.rid /\ g.queue = f.queue /\ g.latest = f.latest
  BY <1>2, Zenon DEF Frame
<1>5. call' = [call EXCEPT ![c] = g]
  BY <1>1
<1>. HIDE DEF g
<1>6. Authorized' /\ ShownAsSent'
  BY NothingSent DEF CallerMutatesDict, human, gateway
<1>. QED
  BY <1>3, <1>4, <1>5, <1>6, StandStill DEF CallerMutatesDict, gateway

-----------------------------------------------------------------------------
(* The loop over the replies. *)

LEMMA SkipTerminalGate ==
    ASSUME IInv, FramesOK', NEW c \in Calls, SkipTerminal(c) PROVE IInv'
<1>. DEFINE f == call[c]
            g == [f EXCEPT !.queue = Tail(f.queue)]
<1>1. /\ call \in [Calls -> Frame] /\ f \in Frame /\ f.pc = "reply" /\ f.queue # <<>>
      /\ f.queue \in Seq(ReplyId) /\ CallOK(c, f) /\ now \in Nat
  BY FrameFields DEF SkipTerminal, IInv, FramesOK, TypeOK
<1>2. /\ g.pc = f.pc /\ g.since = f.since /\ g.op = f.op /\ g.scope = f.scope
      /\ g.auth = f.auth /\ g.rid = f.rid /\ g.queue = Tail(f.queue)
      /\ g.latest = f.latest
  BY <1>1, Zenon DEF Frame
<1>3. call' = [call EXCEPT ![c] = g]
  BY Zenon DEF SkipTerminal
<1>. HIDE DEF g
<1>4. call'[c] = g /\ \A d \in Calls \ {c} : call'[d] = call[d]
  BY <1>1, <1>3
<1>5. \A i \in DOMAIN Tail(f.queue) : Tail(f.queue)[i][1] = c
  <2>1. \A i \in DOMAIN f.queue : f.queue[i][1] = c
    BY <1>1 DEF CallOK, IdentityOK
  <2>2. \A i \in DOMAIN Tail(f.queue) :
           i + 1 \in DOMAIN f.queue /\ Tail(f.queue)[i] = f.queue[i + 1]
    BY <1>1, HeadTailProperties
  <2>. QED
    BY <2>1, <2>2
<1>6. \A i \in DOMAIN f.latest : f.latest[i][1] = c
  BY <1>1 DEF CallOK, IdentityOK
<1>7. UNCHANGED <<now, touches, confirms, raised, wire>>
  BY DEF SkipTerminal, human, gateway
<1>8. ClockOK(call[c])'
  BY <1>1, <1>2, <1>4, <1>7 DEF CallOK, ClockOK
<1>9. GateOK(c, call[c])'
  BY <1>1, <1>2, <1>4, OwesNothing
<1>10. f.pc \in PastGate1
  BY <1>1 DEF PastGate1
<1>11. /\ call'[c].op = f.op /\ call'[c].scope = f.scope /\ call'[c].auth = f.auth
       /\ call'[c].rid = f.rid
       /\ \A i \in DOMAIN call'[c].queue : call'[c].queue[i][1] = c
       /\ \A i \in DOMAIN call'[c].latest : call'[c].latest[i][1] = c
  BY <1>2, <1>4, <1>5, <1>6
<1>. QED
  BY <1>4, <1>7, <1>8, <1>9, <1>10, <1>11, StayOK

\* The frame of a chain after the loop head has looked at a response.
LEMMA RoundFields ==
    ASSUME NEW f \in Frame, NEW response \in Seq(ReplyId)
    PROVE  LET g == StartRound(f, response) IN
           /\ g.since = now /\ g.op = f.op /\ g.scope = f.scope /\ g.auth = f.auth
           /\ g.rid = f.rid /\ g.pc \in {"reply", "returned"}
           /\ \/ g.queue = response /\ g.latest = <<>>
              \/ g.queue = FirstEntry(response) /\ g.latest = <<>>
              \/ g.queue = f.queue /\ g.latest = f.latest
<1>. DEFINE h(stage) == Goto(f, stage)
            k(q) == [h("reply") EXCEPT !.queue = q, !.latest = <<>>]
<1>1. \A q : /\ k(q).since = now /\ k(q).op = f.op /\ k(q).scope = f.scope
             /\ k(q).auth = f.auth /\ k(q).rid = f.rid /\ k(q).pc = "reply"
             /\ k(q).queue = q /\ k(q).latest = <<>>
  BY Zenon DEF Goto, Frame
<1>2. /\ h("returned").since = now /\ h("returned").op = f.op
      /\ h("returned").scope = f.scope /\ h("returned").auth = f.auth
      /\ h("returned").rid = f.rid /\ h("returned").pc = "returned"
      /\ h("returned").queue = f.queue /\ h("returned").latest = f.latest
  BY GotoFields
<1>3. \/ StartRound(f, response) = k(response)
      \/ StartRound(f, response) = k(FirstEntry(response))
      \/ StartRound(f, response) = h("returned")
  BY Zenon DEF StartRound
<1>. HIDE DEF h, k
<1>. QED
  BY <1>1, <1>2, <1>3

LEMMA OwnFirst ==
    ASSUME NEW c, NEW q \in Seq(ReplyId), \A i \in DOMAIN q : q[i][1] = c
    PROVE  \A i \in DOMAIN FirstEntry(q) : FirstEntry(q)[i][1] = c
<1>1. CASE q = <<>>
  BY <1>1 DEF FirstEntry
<1>2. CASE q # <<>>
  <2>1. FirstEntry(q) = <<Head(q)>>
    BY <1>2 DEF FirstEntry
  <2>2. Head(q)[1] = c
    BY <1>2, HeadTailProperties
  <2>. QED
    BY <2>1, <2>2
<1>. QED
  BY <1>1, <1>2

LEMMA NextRoundGate ==
    ASSUME IInv, FramesOK', NEW c \in Calls, NextRound(c) PROVE IInv'
<1>. DEFINE f == call[c]
            g == StartRound(f, f.latest)
<1>1. /\ call \in [Calls -> Frame] /\ f \in Frame /\ f.pc = "reply"
      /\ f.latest \in Seq(ReplyId) /\ CallOK(c, f) /\ now \in Nat
  BY FrameFields DEF NextRound, IInv, FramesOK, TypeOK
<1>2. /\ g.since = now /\ g.op = f.op /\ g.scope = f.scope /\ g.auth = f.auth
      /\ g.rid = f.rid /\ g.pc \in {"reply", "returned"}
      /\ \/ g.queue = f.latest /\ g.latest = <<>>
         \/ g.queue = FirstEntry(f.latest) /\ g.latest = <<>>
         \/ g.queue = f.queue /\ g.latest = f.latest
  BY <1>1, RoundFields
<1>3. call' = [call EXCEPT ![c] = g]
  BY DEF NextRound
<1>. HIDE DEF g
<1>4. call'[c] = g /\ \A d \in Calls \ {c} : call'[d] = call[d]
  BY <1>1, <1>3
<1>5. /\ \A i \in DOMAIN f.queue : f.queue[i][1] = c
      /\ \A i \in DOMAIN f.latest : f.latest[i][1] = c
      /\ \A i \in DOMAIN FirstEntry(f.latest) : FirstEntry(f.latest)[i][1] = c
  <2>1. /\ \A i \in DOMAIN f.queue : f.queue[i][1] = c
        /\ \A i \in DOMAIN f.latest : f.latest[i][1] = c
    BY <1>1 DEF CallOK, IdentityOK
  <2>2. \A i \in DOMAIN FirstEntry(f.latest) : FirstEntry(f.latest)[i][1] = c
    <3>. DEFINE q == f.latest
    <3>1. q \in Seq(ReplyId) /\ \A i \in DOMAIN q : q[i][1] = c
      BY <1>1, <2>1
    <3>. HIDE DEF q
    <3>2. \A i \in DOMAIN FirstEntry(q) : FirstEntry(q)[i][1] = c
      BY <3>1, OwnFirst
    <3>. QED
      BY <3>2 DEF q
  <2>. QED
    BY <2>1, <2>2
<1>6. /\ \A i \in DOMAIN g.queue : g.queue[i][1] = c
      /\ \A i \in DOMAIN g.latest : g.latest[i][1] = c
  BY <1>2, <1>5
<1>7. UNCHANGED <<now, touches, confirms, raised, wire>>
  BY DEF NextRound, human, gateway
<1>8. ClockOK(call[c])'
  BY <1>1, <1>2, <1>4, <1>7, FreshClock
<1>9. GateOK(c, call[c])'
  BY <1>2, <1>4, OwesNothing
<1>10. f.pc \in PastGate1
  BY <1>1 DEF PastGate1
<1>. QED
  BY <1>2, <1>4, <1>6, <1>7, <1>8, <1>9, <1>10, StayOK

LEMMA OpenReplyGate ==
    ASSUME IInv, FramesOK', NEW c \in Calls, OpenReply(c) PROVE IInv'
<1>. DEFINE f == call[c]
            r == Head(f.queue)
<1>1. /\ call \in [Calls -> Frame] /\ f \in Frame /\ now \in Nat /\ FrameOK(f)
      /\ f.pc = "reply" /\ CallOK(c, f) /\ f.auth \in Authorization \cup {NoAuth}
  BY FrameFields, Zenon DEF IInv, FramesOK, TypeOK, OpenReply
<1>2. UNCHANGED <<now, session, human, gateway>>
  BY DEF OpenReply
<1>3. CASE call' = [call EXCEPT ![c] = Raise(f, "resent")]
  BY <1>2, <1>3, RaiseStay
<1>4. CASE call' = [call EXCEPT ![c] =
            [Goto(f, IF Covers(f.auth, f.chain) THEN "reply dialog" ELSE "reply gate1")
                 EXCEPT !.log = NewRecord(@, r),
                        !.answered = IF f.op = "place_bracket" THEN @ \cup {r} ELSE @]]
  <2>1. PICK stage \in {"reply dialog", "reply gate1"} :
          /\ stage = "reply dialog" => Covers(f.auth, f.chain)
          /\ call' = [call EXCEPT ![c] =
               [Goto(f, stage)
                 EXCEPT !.log = NewRecord(@, r),
                        !.answered = IF f.op = "place_bracket" THEN @ \cup {r} ELSE @]]
    BY <1>4
  <2>. DEFINE h == Goto(f, stage)
              g == [h EXCEPT !.log = NewRecord(h.log, r),
                             !.answered = IF f.op = "place_bracket" THEN h.answered \cup {r}
                                                                    ELSE h.answered]
  <2>2. call' = [call EXCEPT ![c] = g]
    BY <2>1
  <2>3. /\ g.pc = stage /\ g.since = now /\ g.op = f.op /\ g.scope = f.scope
        /\ g.auth = f.auth /\ g.rid = f.rid /\ g.queue = f.queue /\ g.latest = f.latest
    BY <1>1, Zenon DEF Goto, Frame
  <2>. HIDE DEF g, h, r
  <2>4. call'[c] = g /\ \A d \in Calls \ {c} : call'[d] = call[d]
    BY <1>1, <2>2
  <2>5. UNCHANGED <<now, touches, confirms, raised, wire>>
    BY <1>2 DEF human, gateway
  <2>6. ClockOK(call[c])'
    BY <1>1, <2>3, <2>4, <2>5, FreshClock
  <2>7. GateOK(c, call[c])'
    <3>1. CASE stage = "reply gate1"
      BY <2>3, <2>4, <3>1, OwesNothing
    <3>2. CASE stage = "reply dialog"
      <4>1. f.op \in Chained /\ f.auth # NoAuth
        BY <1>1 DEF FrameOK
      <4>2. f.auth.at \in Nat /\ now - f.auth.at < TTL
        BY <1>1, <2>1, <3>2, <4>1 DEF Covers, Authorization
      <4>3. PICK t \in touches : /\ t.scope = f.scope /\ ~IsQuestion(t.rid)
                                 /\ f.auth.at <= t.at
        BY <1>1, <4>1 DEF CallOK, AuthOK, PastGate1
      <4>4. t.at \in Nat /\ t.at <= now
        BY DEF IInv, FramesOK, TypeOK, Touch
      <4>5. now - t.at < TTL
        BY <1>1, <4>2, <4>3, <4>4, Younger
      <4>. QED
        BY <2>3, <2>4, <2>5, <3>2, <4>3, <4>4, <4>5 DEF GateOK, Backed
    <3>. QED
      BY <3>1, <3>2
  <2>8. /\ \A i \in DOMAIN f.queue : f.queue[i][1] = c
        /\ \A i \in DOMAIN f.latest : f.latest[i][1] = c
    BY <1>1 DEF CallOK, IdentityOK
  <2>9. f.pc \in PastGate1
    BY <1>1 DEF PastGate1
  <2>10. /\ call'[c].op = f.op /\ call'[c].scope = f.scope /\ call'[c].auth = f.auth
         /\ call'[c].rid = f.rid
         /\ \A i \in DOMAIN call'[c].queue : call'[c].queue[i][1] = c
         /\ \A i \in DOMAIN call'[c].latest : call'[c].latest[i][1] = c
    BY <2>3, <2>4, <2>8
  <2>. QED
    BY <2>4, <2>5, <2>6, <2>7, <2>9, <2>10, StayOK
<1>. QED
  BY <1>3, <1>4, Zenon DEF OpenReply

LEMMA ReplyTouchIDGate ==
    ASSUME IInv, FramesOK', NEW c \in Calls, ReplyTouchID(c) PROVE IInv'
<1>. DEFINE f == call[c]
            r == Head(f.queue)
            t == [scope |-> f.scope, rid |-> r, at |-> now]
<1>1. now \in Nat /\ f.pc = "reply gate1"
  BY DEF ReplyTouchID, IInv, FramesOK, TypeOK
<1>2. /\ call' = [call EXCEPT ![c] = Goto(call[c], "reply dialog")]
      /\ touches' = touches \cup {t}
      /\ UNCHANGED <<now, confirms, raised, wire>>
  BY DEF ReplyTouchID, gateway
<1>3. t \in touches' /\ t.scope = f.scope /\ t.rid = r /\ t.at = now
  BY <1>2
<1>. HIDE DEF r, t
<1>4. \A u \in touches' : u \in touches \/ u.at = now
  BY <1>2, <1>3
<1>5. /\ call'[c].pc = "reply dialog" /\ call'[c].since = now
      /\ call'[c].scope = f.scope /\ call'[c].queue = f.queue
  BY <1>2, AfterGoto
<1>6. now - now < TTL /\ now <= now
  BY <1>1, JustNow
<1>7. GateOK(c, call[c])'
  BY <1>3, <1>5, <1>6 DEF GateOK, Backed, r
<1>8. f.pc \in PastGate1
  BY <1>1 DEF PastGate1, ReplyStages
<1>. QED
  BY <1>2, <1>4, <1>7, <1>8, GotoStay

LEMMA ConfirmReplyGate ==
    ASSUME IInv, FramesOK', NEW c \in Calls, ConfirmReply(c) PROVE IInv'
<1>. DEFINE f == call[c]
            r == Head(f.queue)
            h == Goto(f, "confirming")
            g == [h EXCEPT !.log = (h.log \ {<<r, FALSE>>}) \cup {<<r, TRUE>>}]
            e == [by |-> c, scope |-> f.scope, rid |-> r, label |-> f.auth.scope]
<1>1. /\ call \in [Calls -> Frame] /\ f \in Frame /\ now \in Nat /\ f.since \in Nat
      /\ f.pc = "reply dialog" /\ CallOK(c, f) /\ touches \subseteq Touch
  BY FrameFields DEF ConfirmReply, IInv, FramesOK, TypeOK
<1>2. /\ call' = [call EXCEPT ![c] = g]
      /\ confirms' = confirms \cup {e}
      /\ UNCHANGED <<now, touches, raised, wire>>
  BY Zenon DEF ConfirmReply, gateway
<1>3. e \in confirms' /\ e.by = c /\ e.scope = f.scope /\ e.rid = r
  BY <1>2
<1>4. /\ g.pc = "confirming" /\ g.since = now /\ g.op = f.op /\ g.scope = f.scope
      /\ g.auth = f.auth /\ g.rid = f.rid /\ g.queue = f.queue /\ g.latest = f.latest
  BY <1>1, Zenon DEF Goto, Frame
<1>. HIDE DEF e, g, h, r
<1>5. call'[c] = g /\ \A d \in Calls \ {c} : call'[d] = call[d]
  BY <1>1, <1>2
<1>6. now - f.since <= DialogTime /\ f.since <= now
  BY <1>1 DEF CallOK, ClockOK, Limit, Requesting, Asking, Showing, Ended
<1>7. PICK t \in touches : /\ t.scope = f.scope
                           /\ t.rid = r \/ ~IsQuestion(t.rid)
                           /\ t.at <= f.since /\ f.since - t.at < TTL
  BY <1>1 DEF CallOK, GateOK, Backed, r
<1>8. t.at \in Nat /\ t.at <= now /\ now - t.at < TTL + DialogTime
  <2>1. t.at \in Nat
    BY <1>1 DEF Touch
  <2>. QED
    BY <1>1, <1>6, <1>7, <2>1, TimesNat, Elapsed
<1>9. GateOK(c, call[c])'
  <2>1. Head(call'[c].queue) = r
    BY <1>4, <1>5 DEF r
  <2>2. \E u \in touches' : /\ u.scope = call'[c].scope
                            /\ u.rid = Head(call'[c].queue) \/ ~IsQuestion(u.rid)
                            /\ u.at <= call'[c].since
                            /\ call'[c].since - u.at < TTL + DialogTime
    BY <1>2, <1>4, <1>5, <1>7, <1>8, <2>1
  <2>3. \E d \in confirms' : /\ d.by = c /\ d.rid = Head(call'[c].queue)
                             /\ d.scope = call'[c].scope
    BY <1>3, <1>4, <1>5, <2>1
  <2>4. call'[c].pc = "confirming"
    BY <1>4, <1>5
  <2>5. Backed(call[c], Head(call[c].queue), TTL + DialogTime)'
    BY <2>2, Zenon DEF Backed
  <2>6. WasShown(c, call[c], Head(call[c].queue))'
    BY <2>3, Zenon DEF WasShown
  <2>. QED
    BY <2>4, <2>5, <2>6 DEF GateOK
<1>10. ClockOK(call[c])'
  BY <1>1, <1>2, <1>4, <1>5, FreshClock
<1>11. /\ \A i \in DOMAIN f.queue : f.queue[i][1] = c
       /\ \A i \in DOMAIN f.latest : f.latest[i][1] = c
  BY <1>1 DEF CallOK, IdentityOK
<1>12. f.pc \in PastGate1
  BY <1>1 DEF PastGate1, ReplyStages
<1>. QED
  BY <1>2, <1>4, <1>5, <1>9, <1>10, <1>11, <1>12, StayOK

LEMMA DeclineReplyGate ==
    ASSUME IInv, FramesOK', NEW c \in Calls, DeclineReply(c) PROVE IInv'
<1>1. /\ call' = [call EXCEPT ![c] = Goto(call[c], "declining")]
      /\ UNCHANGED <<now, touches, confirms, raised, wire>>
  BY DEF DeclineReply, human, gateway
<1>2. call'[c].pc = "declining"
  BY <1>1, AfterGoto
<1>3. GateOK(c, call[c])'
  BY <1>2, OwesNothing
<1>4. call[c].pc \in PastGate1
  BY DEF DeclineReply, PastGate1, ReplyStages
<1>. QED
  BY <1>1, <1>3, <1>4, GotoStay

-----------------------------------------------------------------------------
(* Entering a method. *)

\* A step of c before its write is sent that fixes what c works on.
LEMMA EarlyStep ==
    ASSUME IInv, FramesOK', NEW c \in Calls, call[c].pc \in BeforeSend,
           \A d \in Calls \ {c} : call'[d] = call[d],
           now' = now, raised' = raised, wire' = wire, confirms' = confirms,
           touches \subseteq touches', \A t \in touches' : t \in touches \/ t.at = now,
           call'[c].since = now, call'[c].pc # "idle",
           call'[c].queue = call[c].queue, call'[c].latest = call[c].latest,
           call'[c].op # "reply" => call'[c].rid = Itself(c),
           call'[c].op = "reply" => /\ call'[c].rid \in raised
                                    /\ call'[c].scope = call[call'[c].rid[1]].scope,
           AuthOK(call[c])', GateOK(c, call[c])'
    PROVE  IInv'
<1>1. CallOK(c, call[c]) /\ now \in Nat /\ raised \subseteq ReplyId
  BY DEF IInv, FramesOK, TypeOK
<1>2. ClockOK(call[c])'
  BY <1>1, FreshClock
<1>3. call'[c].op = "reply" =>
        /\ call'[c].rid \in raised' /\ call'[c].scope = call'[call'[c].rid[1]].scope
  <2>1. SUFFICES ASSUME call'[c].op = "reply"
                 PROVE  /\ call'[c].rid \in raised'
                        /\ call'[c].scope = call'[call'[c].rid[1]].scope
    OBVIOUS
  <2>. DEFINE e == call'[c].rid[1]
  <2>2. call'[c].rid \in raised /\ call'[c].scope = call[e].scope
    BY <2>1
  <2>3. e \in Calls /\ call[e].pc \notin BeforeSend
    BY <1>1, <2>2 DEF IInv, FramesOK, ReplyId
  <2>. QED
    BY <2>2, <2>3
<1>4. /\ \A i \in DOMAIN call'[c].queue : call'[c].queue[i][1] = c
      /\ \A i \in DOMAIN call'[c].latest : call'[c].latest[i][1] = c
  BY <1>1 DEF CallOK, IdentityOK
<1>5. IdentityOK(c, call[c])'
  BY <1>3, <1>4, Zenon DEF IdentityOK, Itself
<1>6. CallOK(c, call[c])'
  BY <1>2, <1>5 DEF CallOK
<1>7. Authorized' /\ ShownAsSent'
  BY NothingSent
<1>. QED
  BY <1>6, <1>7, StepCalls

LEMMA AuthorizeGate ==
    ASSUME IInv, FramesOK', NEW c \in Calls, Authorize(c) PROVE IInv'
<1>. DEFINE f == call[c]
            a == [scope |-> f.chain, at |-> now]
            t == [scope |-> f.chain, rid |-> Itself(c), at |-> now]
<1>1. /\ call \in [Calls -> Frame] /\ f \in Frame /\ now \in Nat
      /\ f.pc = "authorize" /\ FrameOK(f) /\ CallOK(c, f)
  BY DEF IInv, FramesOK, TypeOK, Authorize
<1>2. f.op \in Chained /\ f.chain = f.scope /\ f.op # "reply" /\ f.rid = Itself(c)
  BY <1>1 DEF FrameOK, Chained, CallOK, IdentityOK
<1>3. PICK stage \in {"dialog", "accounts"} :
        call' = [call EXCEPT ![c] = [Goto(f, stage) EXCEPT !.auth = a]]
  BY DEF Authorize
<1>. DEFINE g == [Goto(f, stage) EXCEPT !.auth = a]
<1>4. /\ g.pc = stage /\ g.since = now /\ g.op = f.op /\ g.scope = f.scope
      /\ g.auth = a /\ g.rid = f.rid /\ g.queue = f.queue /\ g.latest = f.latest
  BY <1>1, Zenon DEF Goto, Frame
<1>5. touches' = touches \cup {t} /\ UNCHANGED <<now, confirms, raised, wire>>
  BY DEF Authorize, gateway
<1>6. /\ t \in touches' /\ t.scope = f.scope /\ t.rid = Itself(c) /\ t.at = now
      /\ \A u \in touches' : u \in touches \/ u.at = now
  BY <1>2, <1>5
<1>7. a.scope = f.scope /\ a.at = now
  BY <1>2
<1>8. call' = [call EXCEPT ![c] = g]
  BY <1>3
<1>. HIDE DEF a, g, t
<1>9. call'[c] = g /\ \A d \in Calls \ {c} : call'[d] = call[d]
  BY <1>1, <1>8
<1>10. ~IsQuestion(t.rid)
  BY <1>6 DEF IsQuestion, Itself
<1>11. now <= now /\ now - now < TTL + RequestTime
  BY <1>1, TimesNat
<1>12. AuthOK(call[c])'
  BY <1>4, <1>6, <1>7, <1>9, <1>10, <1>11 DEF AuthOK
<1>13. GateOK(c, call[c])'
  <2>1. CASE stage = "accounts"
    BY <1>4, <1>9, <2>1, OwesNothing
  <2>2. CASE stage = "dialog"
    BY <1>4, <1>6, <1>9, <1>10, <1>11, <2>2 DEF GateOK, Backed
  <2>. QED
    BY <2>1, <2>2
<1>14. f.pc \in BeforeSend
  BY <1>1 DEF BeforeSend
<1>. QED
  BY <1>2, <1>4, <1>5, <1>6, <1>9, <1>12, <1>13, <1>14, EarlyStep

LEMMA EnsureAccountsGate ==
    ASSUME IInv, FramesOK', NEW c \in Calls, EnsureAccounts(c) PROVE IInv'
<1>. DEFINE f == call[c]
<1>1. /\ call \in [Calls -> Frame] /\ f \in Frame /\ now \in Nat
      /\ f.pc = "accounts" /\ FrameOK(f) /\ CallOK(c, f)
      /\ f.auth \in Authorization \cup {NoAuth}
  BY FrameFields DEF IInv, FramesOK, TypeOK, EnsureAccounts
<1>2. f.scope \in Scope
  BY <1>1 DEF FrameOK
<1>3. PICK s \in Scope, g \in Frame :
             /\ g.scope = s /\ g.op = f.op /\ g.auth = f.auth
             /\ g.queue = f.queue /\ g.rid = f.rid /\ g.latest = f.latest
             /\ f.op \in {"cancel", "reply"} => s = f.scope
             /\ AfterAccounts(f) =
                  IF f.op = "place_bracket"
                  THEN [Goto(g, "authorize") EXCEPT !.chain = s]
                  ELSE IF f.op \in Single /\ Covers(f.auth, s)
                       THEN AfterGate1(g)
                       ELSE Goto(g, "gate1")
  BY <1>1, <1>2, AfterAccountsScope, Zenon
<1>4. call' = [call EXCEPT ![c] = AfterAccounts(f)]
      /\ UNCHANGED <<now, touches, confirms, raised, wire>>
  BY Zenon DEF EnsureAccounts, human, gateway
<1>. DEFINE h == AfterAccounts(f)
<1>5. \A stage : /\ Goto(g, stage).pc = stage /\ Goto(g, stage).since = now
                 /\ Goto(g, stage).op = f.op /\ Goto(g, stage).scope = s
                 /\ Goto(g, stage).auth = f.auth /\ Goto(g, stage).rid = f.rid
                 /\ Goto(g, stage).queue = f.queue /\ Goto(g, stage).latest = f.latest
  BY <1>3, GotoFields
<1>6. /\ h.since = now /\ h.op = f.op /\ h.scope = s /\ h.auth = f.auth
      /\ h.rid = f.rid /\ h.queue = f.queue /\ h.latest = f.latest
      /\ \/ h.pc \in {"authorize", "gate1"}
         \/ h.pc \in {"read", "dialog"} /\ Covers(f.auth, s)
  <2>1. CASE f.op = "place_bracket"
    <3>. DEFINE k == [Goto(g, "authorize") EXCEPT !.chain = s]
    <3>1. h = k
      BY <1>3, <2>1
    <3>2. /\ k.pc = "authorize" /\ k.since = now /\ k.op = g.op /\ k.scope = g.scope
          /\ k.auth = g.auth /\ k.rid = g.rid /\ k.queue = g.queue
          /\ k.latest = g.latest
      BY Zenon DEF Goto, Frame
    <3>. HIDE DEF h, k
    <3>. QED
      BY <1>3, <3>1, <3>2
  <2>2. CASE f.op # "place_bracket"
    <3>1. \E stage \in {"read", "dialog"} : AfterGate1(g) = Goto(g, stage)
      BY <1>1, AfterGate1Type
    <3>2. \E stage \in {"gate1", "read", "dialog"} :
             h = Goto(g, stage) /\ (stage # "gate1" => Covers(f.auth, s))
      BY <1>3, <2>2, <3>1, Zenon
    <3>. HIDE DEF h
    <3>. QED
      BY <1>5, <3>2
  <2>. QED
    BY <2>1, <2>2
<1>7. call'[c] = h /\ \A d \in Calls \ {c} : call'[d] = call[d]
  BY <1>1, <1>4
<1>. HIDE DEF h
<1>8. ASSUME f.auth # NoAuth, Covers(f.auth, s)
      PROVE  \E t \in touches : /\ t.scope = s /\ ~IsQuestion(t.rid)
                                /\ f.auth.at <= t.at
                                /\ t.at <= now /\ now - t.at < TTL
  <2>1. PICK t \in touches : /\ t.scope = f.auth.scope
                             /\ t.at = f.auth.at /\ ~IsQuestion(t.rid)
                             /\ t.at \in Nat /\ t.at <= now
    BY <1>8, AuthBacked
  <2>2. f.auth.scope = s /\ now - f.auth.at < TTL
    BY <1>8 DEF Covers
  <2>3. f.auth.at <= t.at
    BY <2>1
  <2>. QED
    BY <2>1, <2>2, <2>3
<1>9. Covers(f.auth, s) => f.auth # NoAuth
  BY DEF Covers
<1>10. AuthOK(call[c])'
  <2>1. f.auth # NoAuth => \E t \in touches : /\ t.scope = f.auth.scope
                                              /\ t.at = f.auth.at
                                              /\ ~IsQuestion(t.rid)
    BY <1>1 DEF CallOK, AuthOK
  <2>2. h.pc \in PastGate1 => \E t \in touches : /\ t.scope = s /\ ~IsQuestion(t.rid)
                                                 /\ f.auth.at <= t.at
    BY <1>6, <1>8, <1>9 DEF PastGate1, ReplyStages
  <2>. QED
    BY <1>4, <1>6, <1>7, <2>1, <2>2, Zenon DEF AuthOK
<1>11. GateOK(c, call[c])'
  <2>1. CASE h.pc \in {"authorize", "gate1"}
    BY <1>7, <2>1, OwesNothing
  <2>2. CASE h.pc \in {"read", "dialog"} /\ Covers(f.auth, s)
    <3>1. PICK t \in touches : /\ t.scope = s /\ ~IsQuestion(t.rid)
                               /\ t.at <= now /\ now - t.at < TTL
      BY <1>8, <1>9, <2>2
    <3>2. t.at \in Nat
      BY DEF IInv, FramesOK, TypeOK, Touch
    <3>3. now - t.at < TTL + RequestTime
      BY <1>1, <3>1, <3>2, TimesNat
    <3>. QED
      BY <1>4, <1>6, <1>7, <2>2, <3>1, <3>3 DEF GateOK, Backed
  <2>. QED
    BY <1>6, <2>1, <2>2
<1>12. f.pc \in BeforeSend
  BY <1>1 DEF BeforeSend
<1>13. h.pc # "idle"
  BY <1>6
<1>14. h.op # "reply" => h.rid = Itself(c)
  BY <1>1, <1>6 DEF CallOK, IdentityOK
<1>15. h.op = "reply" => h.rid \in raised /\ h.scope = call[h.rid[1]].scope
  BY <1>1, <1>3, <1>6 DEF CallOK, IdentityOK
<1>. QED
  BY <1>4, <1>6, <1>7, <1>10, <1>11, <1>12, <1>13, <1>14, <1>15, EarlyStep

LEMMA BeginWriteGate ==
    ASSUME IInv, FramesOK', NEW c \in Calls, BeginWrite(c) PROVE IInv'
<1>. DEFINE f == call[c]
<1>1. /\ call \in [Calls -> Frame] /\ f \in Frame /\ now \in Nat /\ f.pc = "idle"
      /\ FrameOK(f) /\ CallOK(c, f)
  BY DEF IInv, FramesOK, TypeOK, BeginWrite
<1>2. f.op # "reply" /\ f.rid = Itself(c)
  BY <1>1 DEF FrameOK, CallOK, IdentityOK
<1>3. PICK op \in Ops \ (Chained \cup {"reply"}), a \in Accounts,
           o \in Orders \cup {NoOrder}, b \in Bodies \cup {NoBody},
           auth \in Granted \cup {NoAuth} :
        call' = [call EXCEPT ![c] =
                    [Goto(f, FirstStage(op)) EXCEPT
                       !.op = op, !.dict = b, !.auth = auth,
                       !.scope = OrderWriteScope(Kind(op), a, o, b)]]
  <2>1. PICK op \in Ops \ (Chained \cup {"reply"}), a \in Accounts :
      \E o \in IF op = "place" THEN {NoOrder} ELSE Orders,
         b \in IF op = "cancel" THEN {NoBody} ELSE Bodies,
         auth \in IF op = "cancel" THEN {NoAuth} ELSE Granted \cup {NoAuth} :
        call' = [call EXCEPT ![c] =
                    [Goto(@, FirstStage(op)) EXCEPT
                       !.op = op, !.dict = b, !.auth = auth,
                       !.scope = OrderWriteScope(Kind(op), a, o, b)]]
    BY Zenon DEF BeginWrite
  <2>. QED
    BY <2>1
<1>. DEFINE s == OrderWriteScope(Kind(op), a, o, b)
            g == [Goto(f, "accounts") EXCEPT
                     !.op = op, !.dict = b, !.auth = auth, !.scope = s]
<1>4. op \notin Chained /\ op # "reply" /\ FirstStage(op) = "accounts"
  BY DEF FirstStage
<1>5. call' = [call EXCEPT ![c] = g]
  BY <1>3, <1>4
<1>6. /\ g.pc = "accounts" /\ g.since = now /\ g.op = op /\ g.auth = auth
      /\ g.rid = f.rid /\ g.queue = f.queue /\ g.latest = f.latest
  BY <1>1, Zenon DEF Goto, Frame
<1>. HIDE DEF g, s
<1>7. call'[c] = g /\ \A d \in Calls \ {c} : call'[d] = call[d]
  BY <1>1, <1>5
<1>8. UNCHANGED <<now, touches, confirms, raised, wire>>
  BY DEF BeginWrite, human, gateway
<1>9. GateOK(c, call[c])'
  BY <1>6, <1>7, OwesNothing
<1>10. auth # NoAuth => \E t \in touches : /\ t.scope = auth.scope /\ t.at = auth.at
                                           /\ ~IsQuestion(t.rid)
  <2>1. SUFFICES ASSUME auth # NoAuth
                 PROVE  \E t \in touches : /\ t.scope = auth.scope /\ t.at = auth.at
                                           /\ ~IsQuestion(t.rid)
    OBVIOUS
  <2>2. PICK d \in Calls : auth = call[d].auth
    BY <2>1 DEF Granted
  <2>. QED
    BY <2>1, <2>2, AuthBacked
<1>11. AuthOK(call[c])'
  BY <1>4, <1>6, <1>7, <1>8, <1>10 DEF AuthOK
<1>12. f.pc \in BeforeSend /\ g.pc # "idle"
  BY <1>1, <1>6 DEF BeforeSend
<1>. QED
  BY <1>2, <1>4, <1>6, <1>7, <1>8, <1>9, <1>11, <1>12, EarlyStep

LEMMA BeginChainGate ==
    ASSUME IInv, FramesOK', NEW c \in Calls, BeginChain(c) PROVE IInv'
<1>. DEFINE f == call[c]
<1>1. /\ call \in [Calls -> Frame] /\ f \in Frame /\ now \in Nat /\ f.pc = "idle"
      /\ FrameOK(f) /\ CallOK(c, f)
  BY DEF IInv, FramesOK, TypeOK, BeginChain
<1>2. f.op # "reply" /\ f.rid = Itself(c)
  BY <1>1 DEF FrameOK, CallOK, IdentityOK
<1>3. PICK op \in Ops \cap Chained, a \in Accounts, b \in Bodies,
           o \in Orders \cup {NoOrder} :
         LET s == OrderWriteScope(Kind(op), a, o, b)
         IN  call' = [call EXCEPT ![c] =
                 [Goto(f, FirstStage(op)) EXCEPT
                    !.op = op, !.dict = b, !.scope = s, !.chain = s]]
  <2>1. PICK op \in Ops \cap Chained, a \in Accounts, b \in Bodies :
      \E o \in IF Kind(op) = "modify" THEN Orders ELSE {NoOrder} :
         LET s == OrderWriteScope(Kind(op), a, o, b)
         IN  call' = [call EXCEPT ![c] =
                 [Goto(@, FirstStage(op)) EXCEPT
                    !.op = op, !.dict = b, !.scope = s, !.chain = s]]
    BY Zenon DEF BeginChain
  <2>. QED
    BY <2>1
<1>. DEFINE s == OrderWriteScope(Kind(op), a, o, b)
            stage == FirstStage(op)
            g == [Goto(f, stage) EXCEPT
                    !.op = op, !.dict = b, !.scope = s, !.chain = s]
<1>4. op # "reply" /\ stage \in {"accounts", "authorize"}
  BY DEF FirstStage, Chained
<1>5. call' = [call EXCEPT ![c] = g]
  BY <1>3
<1>6. /\ g.pc = stage /\ g.since = now /\ g.op = op /\ g.auth = f.auth
      /\ g.rid = f.rid /\ g.queue = f.queue /\ g.latest = f.latest
  BY <1>1, Zenon DEF Goto, Frame
<1>. HIDE DEF g, s, stage
<1>7. call'[c] = g /\ \A d \in Calls \ {c} : call'[d] = call[d]
  BY <1>1, <1>5
<1>8. UNCHANGED <<now, touches, confirms, raised, wire>>
  BY DEF BeginChain, human, gateway
<1>9. GateOK(c, call[c])'
  BY <1>4, <1>6, <1>7, OwesNothing
<1>10. AuthOK(f)
  BY <1>1 DEF CallOK
<1>11. g.pc \notin PastGate1
  BY <1>4, <1>6 DEF PastGate1, ReplyStages
<1>12. AuthOK(call[c])'
  BY <1>6, <1>7, <1>8, <1>10, <1>11 DEF AuthOK
<1>13. f.pc \in BeforeSend /\ g.pc # "idle"
  BY <1>1, <1>4, <1>6 DEF BeforeSend
<1>. QED
  BY <1>2, <1>4, <1>6, <1>7, <1>8, <1>9, <1>12, <1>13, EarlyStep

LEMMA BeginReplyGate ==
    ASSUME IInv, FramesOK', NEW c \in Calls, BeginReply(c) PROVE IInv'
<1>. DEFINE f == call[c]
<1>1. /\ call \in [Calls -> Frame] /\ f \in Frame /\ now \in Nat /\ f.pc = "idle"
      /\ CallOK(c, f)
  BY DEF IInv, FramesOK, TypeOK, BeginReply
<1>2. FirstStage("reply") = "accounts"
  BY DEF FirstStage, Chained
<1>3. PICK r \in raised, yes \in BOOLEAN :
         call' = [call EXCEPT ![c] =
                    [Goto(f, "accounts") EXCEPT
                       !.op = "reply", !.rid = r, !.yes = yes,
                       !.scope = call[r[1]].scope]]
  BY <1>2, Zenon DEF BeginReply
<1>. DEFINE s == call[r[1]].scope
            g == [Goto(f, "accounts") EXCEPT
                     !.op = "reply", !.rid = r, !.yes = yes, !.scope = s]
<1>4. call' = [call EXCEPT ![c] = g]
  BY <1>3
<1>5. /\ g.pc = "accounts" /\ g.since = now /\ g.op = "reply" /\ g.auth = f.auth
      /\ g.rid = r /\ g.scope = s /\ g.queue = f.queue /\ g.latest = f.latest
  BY <1>1, Zenon DEF Goto, Frame
<1>. HIDE DEF g
<1>6. call'[c] = g /\ \A d \in Calls \ {c} : call'[d] = call[d]
  BY <1>1, <1>4
<1>7. UNCHANGED <<now, touches, confirms, raised, wire>>
  BY DEF BeginReply, human, gateway
<1>8. GateOK(c, call[c])'
  BY <1>5, <1>6, OwesNothing
<1>9. AuthOK(f)
  BY <1>1 DEF CallOK
<1>10. AuthOK(call[c])'
  BY <1>5, <1>6, <1>7, <1>9 DEF AuthOK, Chained
<1>11. f.pc \in BeforeSend
  BY <1>1 DEF BeforeSend
<1>12. g.scope = call[g.rid[1]].scope
  BY <1>5
<1>. QED
  BY <1>5, <1>6, <1>7, <1>8, <1>10, <1>11, <1>12, EarlyStep

-----------------------------------------------------------------------------
(* The requests. *)

\* What call c sends while its gates stand behind it keeps the promise.
LEMMA SendsBacked ==
    ASSUME IInv, NEW c \in Calls, NEW w, wire' = wire \cup {w},
           touches' = touches, confirms' = confirms,
           w.yes => /\ w.by = c /\ w.scope = call[c].scope /\ w.at = now
                    /\ Backed(call[c], w.rid, TTL + RequestTime + DialogTime)
                    /\ WasShown(c, call[c], w.rid)
                    /\ now - call[c].since <= RequestTime
    PROVE  Authorized' /\ ShownAsSent'
<1>. DEFINE f == call[c]
<1>1. /\ f.since \in Nat /\ now \in Nat /\ f.since <= now /\ touches \subseteq Touch
  BY FrameFields DEF IInv, CallOK, ClockOK, FramesOK, TypeOK
<1>2. w.yes => \E t \in touches : /\ StandsBehind(t, w)
                                  /\ t.at <= w.at
                                  /\ w.at - t.at < TTL + 2 * RequestTime + DialogTime
  <2>1. SUFFICES ASSUME w.yes
                 PROVE  \E t \in touches :
                          /\ StandsBehind(t, w)
                          /\ t.at <= w.at
                          /\ w.at - t.at < TTL + 2 * RequestTime + DialogTime
    OBVIOUS
  <2>2. PICK t \in touches : /\ t.scope = f.scope
                             /\ t.rid = w.rid \/ ~IsQuestion(t.rid)
                             /\ t.at <= f.since
                             /\ f.since - t.at < TTL + RequestTime + DialogTime
    BY <2>1 DEF Backed
  <2>3. StandsBehind(t, w)
    BY <2>1, <2>2 DEF StandsBehind
  <2>4. t.at \in Nat
    BY <1>1 DEF Touch
  <2>5. t.at <= now /\ now - t.at < (TTL + RequestTime + DialogTime) + RequestTime
    <3>1. TTL + RequestTime + DialogTime \in Nat
      BY TimesNat
    <3>2. now - f.since <= RequestTime
      BY <2>1
    <3>. HIDE DEF f
    <3>. QED
      BY <1>1, <2>2, <2>4, <3>1, <3>2, Elapsed, TimesNat
  <2>6. now - t.at < TTL + 2 * RequestTime + DialogTime
    BY <1>1, <2>4, <2>5, TimesNat
  <2>7. w.at = now
    BY <2>1
  <2>. HIDE DEF f
  <2>. QED
    BY <2>3, <2>5, <2>6, <2>7
<1>3. w.yes => \E d \in confirms : d.by = w.by /\ d.rid = w.rid /\ d.scope = w.scope
  BY DEF WasShown
<1>4. Authorized /\ ShownAsSent
  BY DEF IInv
<1>5. Authorized'
  BY <1>2, <1>4 DEF Authorized, StandsBehind
<1>6. ShownAsSent'
  BY <1>3, <1>4 DEF ShownAsSent
<1>. QED
  BY <1>5, <1>6

\* A call in a stage that ends with a request is in time.
LEMMA RequestInTime ==
    ASSUME IInv, NEW c \in Calls, call[c].pc \in Requesting
    PROVE  now - call[c].since <= RequestTime
<1>1. ClockOK(call[c])
  BY DEF IInv, CallOK
<1>2. Limit(call[c].pc) = RequestTime
  BY DEF Limit, Requesting, Asking, Showing
<1>3. call[c].pc \notin {"idle"} \cup Ended
  BY DEF Requesting, Ended
<1>. QED
  BY <1>1, <1>2, <1>3 DEF ClockOK

\* A chain after its write has been answered; every other call has ended.
LEMMA ReceiveFields ==
    ASSUME NEW f \in Frame, NEW response \in Seq(ReplyId)
    PROVE  LET g == Receive(f, response) IN
           /\ g.since = now /\ g.op = f.op /\ g.scope = f.scope /\ g.auth = f.auth
           /\ g.rid = f.rid /\ g.pc \in {"reply", "returned"}
           /\ \/ g.queue = response /\ g.latest = <<>>
              \/ g.queue = FirstEntry(response) /\ g.latest = <<>>
              \/ g.queue = f.queue /\ g.latest = f.latest
<1>1. CASE f.op \in Chained
  BY <1>1, RoundFields DEF Receive
<1>2. CASE f.op \notin Chained
  BY <1>2, GotoFields DEF Receive
<1>. QED
  BY <1>1, <1>2

LEMMA SendWriteGate ==
    ASSUME IInv, FramesOK', NEW c \in Calls, SendWrite(c) PROVE IInv'
<1>. DEFINE e == call[c]
            f == [call[c] EXCEPT !.sent = @ + 1]
            w == Write(c, f)
<1>1. /\ call \in [Calls -> Frame] /\ e \in Frame /\ now \in Nat /\ CallOK(c, e)
      /\ e.sent \in Nat
  BY FrameFields DEF IInv, FramesOK, TypeOK
<1>2. e.sent + 1 \in Nat
  BY <1>1
<1>3. f \in Frame
  BY <1>1, <1>2, Zenon DEF Frame
<1>4. /\ f.pc = e.pc /\ f.op = e.op /\ f.scope = e.scope /\ f.auth = e.auth
      /\ f.rid = e.rid /\ f.queue = e.queue /\ f.latest = e.latest
  BY <1>1, Zenon DEF Frame
<1>5. /\ f.pc = "send" /\ f.op # "reply"
      /\ \E q \in [1..NLegs(f.op) -> IF f.op = "cancel" \/ MaxQuestions = 0
                                   THEN {0} ELSE {0, 1}] :
           LET response == [i \in 1..NLegs(f.op) |-> <<c, i, q[i]>>]
               questions == {<<c, i, q[i]>> : i \in {j \in 1..NLegs(f.op) : q[j] > 0}}
           IN  /\ asked' = asked \cup questions
               /\ raised' = raised \cup questions
               /\ \/ call' = [call EXCEPT ![c] = Receive(f, response)]
                  \/ call' = [call EXCEPT ![c] = AnswerLost(f)]
      /\ wire' = wire \cup {w}
      /\ UNCHANGED <<now, session, human>>
  BY Zenon DEF SendWrite
<1>6. w.by = c /\ w.scope = e.scope /\ w.rid = e.rid /\ w.at = now
  BY <1>4 DEF Write, Sent
<1>. HIDE DEF f, w
<1>7. PICK q \in [1..NLegs(f.op) -> {0, 1}] :
           LET response == [i \in 1..NLegs(f.op) |-> <<c, i, q[i]>>]
           IN  \/ call' = [call EXCEPT ![c] = Receive(f, response)]
               \/ call' = [call EXCEPT ![c] = AnswerLost(f)]
  BY <1>5
<1>. DEFINE response == [i \in 1..NLegs(f.op) |-> <<c, i, q[i]>>]
<1>8. response \in Seq(ReplyId) /\ \A i \in DOMAIN response : response[i][1] = c
  BY WriteResponse
<1>9. PICK g \in {Receive(f, response), Raise(f, "lost")} :
         call' = [call EXCEPT ![c] = g]
  BY <1>7 DEF AnswerLost
<1>. HIDE DEF response
<1>10. /\ g.since = now /\ g.op = f.op /\ g.scope = f.scope /\ g.auth = f.auth
       /\ g.rid = f.rid /\ g.pc \in {"reply", "returned", "raised"}
       /\ \/ g.queue = response /\ g.latest = <<>>
          \/ g.queue = FirstEntry(response) /\ g.latest = <<>>
          \/ g.queue = f.queue /\ g.latest = f.latest
  <2>1. CASE g = Receive(f, response)
    BY <1>3, <1>8, <2>1, ReceiveFields
  <2>2. CASE g = Raise(f, "lost")
    BY <1>3, <2>2, RaiseFields
  <2>. QED
    BY <1>9, <2>1, <2>2
<1>11. call'[c] = g /\ \A d \in Calls \ {c} : call'[d] = call[d]
  BY <1>1, <1>9
<1>12. UNCHANGED <<now, touches, confirms>> /\ raised \subseteq raised'
  BY <1>5 DEF human
<1>13. Authorized' /\ ShownAsSent'
  <2>1. e.pc \in Requesting
    BY <1>4, <1>5 DEF Requesting
  <2>2. now - e.since <= RequestTime
    BY <2>1, RequestInTime
  <2>3. /\ Backed(e, e.rid, TTL + RequestTime + DialogTime)
        /\ WasShown(c, e, e.rid)
    BY <1>1, <1>4, <1>5 DEF CallOK, GateOK
  <2>4. wire' = wire \cup {w}
    BY <1>5
  <2>. QED
    BY <1>6, <1>12, <2>2, <2>3, <2>4, SendsBacked
<1>14. /\ \A i \in DOMAIN g.queue : g.queue[i][1] = c
       /\ \A i \in DOMAIN g.latest : g.latest[i][1] = c
  <2>1. /\ \A i \in DOMAIN f.queue : f.queue[i][1] = c
        /\ \A i \in DOMAIN f.latest : f.latest[i][1] = c
    BY <1>1, <1>4 DEF CallOK, IdentityOK
  <2>2. \A i \in DOMAIN FirstEntry(response) : FirstEntry(response)[i][1] = c
    BY <1>8, OwnFirst
  <2>. QED
    BY <1>8, <1>10, <2>1, <2>2
<1>15. ClockOK(call[c])'
  BY <1>1, <1>10, <1>11, <1>12, FreshClock
<1>16. GateOK(c, call[c])'
  BY <1>10, <1>11, OwesNothing
<1>17. e.pc \in PastGate1
  BY <1>4, <1>5 DEF PastGate1
<1>. QED
  BY <1>4, <1>10, <1>11, <1>12, <1>13, <1>14, <1>15, <1>16, <1>17, KeepOK

\* What an answer to a question puts on the wire.
LEMMA AnswerFields ==
    ASSUME NEW c \in Calls, NEW r, NEW yes
    PROVE  LET w == Answer(c, r, yes) IN
           w.by = c /\ w.scope = call[r[1]].scope /\ w.rid = r /\ w.yes = yes /\ w.at = now
BY DEF Answer

LEMMA SendReplyGate ==
    ASSUME IInv, FramesOK', NEW c \in Calls, SendReply(c) PROVE IInv'
<1>. DEFINE f == call[c]
            w == Answer(c, f.rid, f.yes)
<1>1. /\ call \in [Calls -> Frame] /\ f \in Frame /\ now \in Nat /\ CallOK(c, f)
      /\ f.pc = "send" /\ f.op = "reply"
  BY DEF IInv, FramesOK, TypeOK, SendReply
<1>2. UNCHANGED <<now, touches, confirms>>
  BY DEF SendReply, human
<1>3. raised \subseteq raised' /\ wire' = wire \cup {w}
  BY DEF SendReply, GatewayAnswers
<1>4. w.by = c /\ w.scope = f.scope /\ w.rid = f.rid /\ w.at = now
  BY <1>1, AnswerFields DEF CallOK, IdentityOK
<1>. HIDE DEF w
<1>5. PICK g \in {Goto(f, "returned"), Raise(f, "lost")} : call' = [call EXCEPT ![c] = g]
  BY DEF SendReply, AnswerLost
<1>6. /\ g.since = now /\ g.op = f.op /\ g.scope = f.scope /\ g.auth = f.auth
      /\ g.rid = f.rid /\ g.pc \in {"returned", "raised"}
      /\ g.queue = f.queue /\ g.latest = f.latest
  BY <1>1, <1>5, GotoFields, RaiseFields
<1>7. call'[c] = g /\ \A d \in Calls \ {c} : call'[d] = call[d]
  BY <1>1, <1>5
<1>8. Authorized' /\ ShownAsSent'
  <2>1. f.pc \in Requesting
    BY <1>1 DEF Requesting
  <2>2. now - f.since <= RequestTime
    BY <2>1, RequestInTime
  <2>3. /\ Backed(f, f.rid, TTL + RequestTime + DialogTime)
        /\ WasShown(c, f, f.rid)
    BY <1>1 DEF CallOK, GateOK
  <2>. QED
    BY <1>2, <1>3, <1>4, <2>2, <2>3, SendsBacked
<1>9. /\ \A i \in DOMAIN f.queue : f.queue[i][1] = c
      /\ \A i \in DOMAIN f.latest : f.latest[i][1] = c
  BY <1>1 DEF CallOK, IdentityOK
<1>10. ClockOK(call[c])'
  BY <1>1, <1>2, <1>6, <1>7, FreshClock
<1>11. GateOK(c, call[c])'
  BY <1>6, <1>7, OwesNothing
<1>12. f.pc \in PastGate1
  BY <1>1 DEF PastGate1
<1>. QED
  BY <1>2, <1>3, <1>6, <1>7, <1>8, <1>9, <1>10, <1>11, <1>12, KeepOK

\* The response to a reply is about the same call.
LEMMA ReplyResponseOwn ==
    ASSUME NEW r \in ReplyId, NEW n \in Nat
    PROVE  \A i \in DOMAIN ReplyResponse(r, n) : ReplyResponse(r, n)[i][1] = r[1]
<1>1. CASE ~Restates
  BY <1>1 DEF ReplyResponse
<1>2. CASE Restates
  <2>. DEFINE m == NLegs(call[r[1]].op)
              e(i) == IF i = r[2] THEN <<r[1], i, n>> ELSE CurrentEntry(r[1], i)
  <2>1. \A i : CurrentEntry(r[1], i)[1] = r[1]
    BY DEF CurrentEntry
  <2>2. \A i : e(i)[1] = r[1]
    BY <2>1
  <2>3. ReplyResponse(r, n) = [i \in 1..m |-> e(i)]
    BY <1>2 DEF ReplyResponse
  <2>. HIDE DEF m, e
  <2>. QED
    BY <2>2, <2>3
<1>. QED
  BY <1>1, <1>2

LEMMA OwnTail ==
    ASSUME NEW c, NEW q \in Seq(ReplyId), q # <<>>, \A i \in DOMAIN q : q[i][1] = c
    PROVE  Head(q)[1] = c /\ \A i \in DOMAIN Tail(q) : Tail(q)[i][1] = c
<1>1. \A i \in DOMAIN Tail(q) : i + 1 \in DOMAIN q /\ Tail(q)[i] = q[i + 1]
  BY HeadTailProperties
<1>. QED
  BY <1>1, HeadTailProperties

LEMMA OwnConcat ==
    ASSUME NEW c, NEW q \in Seq(ReplyId), NEW p \in Seq(ReplyId),
           \A i \in DOMAIN q : q[i][1] = c, \A i \in DOMAIN p : p[i][1] = c
    PROVE  \A i \in DOMAIN (q \o p) : (q \o p)[i][1] = c
<1>1. \A i \in 1..(Len(q) + Len(p)) :
         (q \o p)[i] = IF i <= Len(q) THEN q[i] ELSE p[i - Len(q)]
  BY ConcatProperties
<1>2. DOMAIN (q \o p) = 1..(Len(q) + Len(p))
  BY ConcatProperties
<1>3. DOMAIN q = 1..Len(q) /\ DOMAIN p = 1..Len(p) /\ Len(q) \in Nat /\ Len(p) \in Nat
  OBVIOUS
<1>4. ASSUME NEW i \in 1..(Len(q) + Len(p)) PROVE (q \o p)[i][1] = c
  <2>1. CASE i <= Len(q)
    BY <1>1, <1>3, <2>1
  <2>2. CASE ~(i <= Len(q))
    BY <1>1, <1>3, <2>2
  <2>. QED
    BY <2>1, <2>2
<1>. QED
  BY <1>2, <1>4

LEMMA SendAnswerGate ==
    ASSUME IInv, FramesOK', NEW c \in Calls, SendAnswer(c) PROVE IInv'
<1>. DEFINE f == call[c]
            r == Head(f.queue)
            yes == f.pc = "confirming"
            w == Answer(c, r, yes)
<1>1. /\ call \in [Calls -> Frame] /\ f \in Frame /\ now \in Nat /\ CallOK(c, f)
      /\ f.pc \in {"confirming", "declining"} /\ f.queue # <<>>
      /\ f.queue \in Seq(ReplyId) /\ f.latest \in Seq(ReplyId)
  BY FrameFields DEF IInv, FramesOK, TypeOK, FrameOK, SendAnswer, ReplyStages
<1>2. /\ \A i \in DOMAIN f.queue : f.queue[i][1] = c
      /\ \A i \in DOMAIN f.latest : f.latest[i][1] = c
  BY <1>1 DEF CallOK, IdentityOK
<1>3. r[1] = c /\ \A i \in DOMAIN Tail(f.queue) : Tail(f.queue)[i][1] = c
  <2>. DEFINE q == f.queue
  <2>1. q \in Seq(ReplyId) /\ q # <<>> /\ \A i \in DOMAIN q : q[i][1] = c
    BY <1>1, <1>2
  <2>. HIDE DEF q
  <2>2. Head(q)[1] = c /\ \A i \in DOMAIN Tail(q) : Tail(q)[i][1] = c
    BY <2>1, OwnTail
  <2>. QED
    BY <2>2 DEF q
<1>4. r \in ReplyId
  BY <1>1, HeadTailProperties
<1>5. PICK n \in NextQuestions(r, yes) :
        /\ GatewayAnswers(c, r, yes, n)
        /\ \/ call' = [call EXCEPT ![c] =
                 IF yes THEN [Goto(f, "reply") EXCEPT
                                !.queue = Tail(@),
                                !.latest = @ \o ReplyResponse(r, n)]
                        ELSE AfterNo(f)]
           \/ call' = [call EXCEPT ![c] = AnswerLost(f)]
  BY Zenon DEF SendAnswer
<1>. DEFINE response == ReplyResponse(r, n)
<1>6. PICK g \in {Answered(f, response), Raise(f, "declined"), Raise(f, "lost")} :
        call' = [call EXCEPT ![c] = g]
  BY <1>5 DEF Answered, AfterNo, AnswerLost
<1>7. UNCHANGED <<now, touches, confirms>>
  BY DEF SendAnswer, human
<1>8. raised \subseteq raised' /\ wire' = wire \cup {w}
  BY <1>5 DEF GatewayAnswers
<1>9. w.by = c /\ w.scope = f.scope /\ w.rid = r /\ w.at = now /\ w.yes = yes
  BY <1>3, AnswerFields
<1>10. /\ response \in Seq(ReplyId)
       /\ \A i \in DOMAIN response : response[i][1] = c
  <2>1. n \in Nat
    BY <1>4 DEF NextQuestions, ReplyId
  <2>. QED
    BY <1>3, <1>4, <2>1, ReplyResponseType, ReplyResponseOwn
<1>. HIDE DEF w, response
<1>11. /\ g.since = now /\ g.op = f.op /\ g.scope = f.scope /\ g.auth = f.auth
       /\ g.rid = f.rid /\ g.pc \in {"reply", "raised"}
       /\ \/ g.queue = Tail(f.queue) /\ g.latest = f.latest \o response
          \/ g.queue = f.queue /\ g.latest = f.latest
  <2>1. CASE g = Answered(f, response)
    <3>. DEFINE h == Goto(f, "reply")
                k == [h EXCEPT !.queue = Tail(h.queue), !.latest = h.latest \o response]
    <3>1. g = k
      BY <2>1 DEF Answered
    <3>2. /\ h.since = now /\ h.op = f.op /\ h.scope = f.scope /\ h.auth = f.auth
          /\ h.rid = f.rid /\ h.pc = "reply" /\ h.queue = f.queue /\ h.latest = f.latest
      BY <1>1, GotoFields
    <3>3. /\ k.since = h.since /\ k.op = h.op /\ k.scope = h.scope /\ k.auth = h.auth
          /\ k.rid = h.rid /\ k.pc = h.pc /\ k.queue = Tail(h.queue)
          /\ k.latest = h.latest \o response
      BY <1>1, Zenon DEF Goto, Frame
    <3>. HIDE DEF h, k
    <3>. QED
      BY <3>1, <3>2, <3>3
  <2>2. CASE g \in {Raise(f, "declined"), Raise(f, "lost")}
    BY <1>1, <2>2, RaiseFields
  <2>. QED
    BY <1>6, <2>1, <2>2
<1>12. call'[c] = g /\ \A d \in Calls \ {c} : call'[d] = call[d]
  BY <1>1, <1>6
<1>13. Authorized' /\ ShownAsSent'
  <2>1. f.pc \in Requesting
    BY <1>1 DEF Requesting
  <2>2. now - f.since <= RequestTime
    BY <2>1, RequestInTime
  <2>3. yes => Backed(f, r, TTL + DialogTime) /\ WasShown(c, f, r)
    BY <1>1 DEF CallOK, GateOK
  <2>4. f.since \in Nat /\ touches \subseteq Touch
    BY <1>1, FrameFields DEF IInv, FramesOK, TypeOK
  <2>5. yes => Backed(f, r, TTL + RequestTime + DialogTime)
    <3>1. SUFFICES ASSUME yes PROVE Backed(f, r, TTL + RequestTime + DialogTime)
      OBVIOUS
    <3>2. PICK t \in touches : /\ t.scope = f.scope
                               /\ t.rid = r \/ ~IsQuestion(t.rid)
                               /\ t.at <= f.since /\ f.since - t.at < TTL + DialogTime
      BY <2>3, <3>1 DEF Backed
    <3>3. t.at \in Nat
      BY <2>4 DEF Touch
    <3>. HIDE DEF r, f
    <3>4. f.since - t.at < TTL + RequestTime + DialogTime
      BY <2>4, <3>2, <3>3, TimesNat
    <3>. QED
      BY <3>2, <3>4 DEF Backed
  <2>. HIDE DEF r, yes
  <2>. QED
    BY <1>7, <1>8, <1>9, <2>2, <2>3, <2>5, SendsBacked
<1>14. /\ \A i \in DOMAIN g.queue : g.queue[i][1] = c
       /\ \A i \in DOMAIN g.latest : g.latest[i][1] = c
  <2>. DEFINE p == f.latest
  <2>1. p \in Seq(ReplyId) /\ \A i \in DOMAIN p : p[i][1] = c
    BY <1>1, <1>2
  <2>. HIDE DEF p
  <2>2. \A i \in DOMAIN (p \o response) : (p \o response)[i][1] = c
    BY <1>10, <2>1, OwnConcat
  <2>3. \A i \in DOMAIN (f.latest \o response) : (f.latest \o response)[i][1] = c
    BY <2>2 DEF p
  <2>4. CASE g.queue = Tail(f.queue) /\ g.latest = f.latest \o response
    BY <1>3, <2>3, <2>4, Zenon
  <2>5. CASE g.queue = f.queue /\ g.latest = f.latest
    BY <1>2, <2>5, Zenon
  <2>. QED
    BY <1>11, <2>4, <2>5
<1>. HIDE DEF r, yes
<1>15. ClockOK(call[c])'
  BY <1>1, <1>7, <1>11, <1>12, FreshClock
<1>16. GateOK(c, call[c])'
  BY <1>11, <1>12, OwesNothing
<1>17. f.pc \in PastGate1
  BY <1>1 DEF PastGate1, ReplyStages
<1>. QED
  BY <1>7, <1>8, <1>11, <1>12, <1>13, <1>14, <1>15, <1>16, <1>17, KeepOK

\* What a 503 after the fact makes of a call: the same stage, or the end.
LEMMA UnavailableGate ==
    ASSUME IInv, FramesOK', NEW c \in Calls, NEW f \in Frame,
           f.pc = call[c].pc, f.since = call[c].since, f.op = call[c].op,
           f.scope = call[c].scope, f.auth = call[c].auth, f.rid = call[c].rid,
           f.queue = call[c].queue, f.latest = call[c].latest,
           f.pc \in {"send", "confirming", "declining"},
           call' = [call EXCEPT ![c] = Unavailable(f)],
           UNCHANGED <<now, human>>, raised \subseteq raised',
           Authorized', ShownAsSent'
    PROVE  IInv'
<1>. DEFINE g == Unavailable(f)
<1>1. call \in [Calls -> Frame] /\ now \in Nat /\ CallOK(c, call[c])
  BY DEF IInv, FramesOK, TypeOK
<1>2. /\ g \in Frame
      /\ \/ g.pc = f.pc /\ g.since = f.since
         \/ g.pc = "raised" /\ g.since = now
      /\ g.op = f.op /\ g.scope = f.scope /\ g.auth = f.auth /\ g.rid = f.rid
      /\ g.queue = f.queue /\ g.latest = f.latest
  BY <1>1, UnavailableFields
<1>3. call' = [call EXCEPT ![c] = g]
  OBVIOUS
<1>. HIDE DEF g
<1>4. CASE g.pc = f.pc /\ g.since = f.since
  BY <1>2, <1>3, <1>4, StandStill
<1>5. CASE g.pc = "raised" /\ g.since = now
  <2>1. call'[c] = g /\ \A d \in Calls \ {c} : call'[d] = call[d]
    BY <1>1, <1>3
  <2>2. UNCHANGED <<now, touches, confirms>>
    BY DEF human
  <2>3. /\ \A i \in DOMAIN g.queue : g.queue[i][1] = c
        /\ \A i \in DOMAIN g.latest : g.latest[i][1] = c
    BY <1>1, <1>2 DEF CallOK, IdentityOK
  <2>4. ClockOK(call[c])'
    BY <1>1, <1>5, <2>1, <2>2, FreshClock
  <2>5. GateOK(c, call[c])' /\ call'[c].pc \notin PastGate1
    BY <1>5, <2>1, OwesNothing DEF PastGate1, ReplyStages
  <2>. QED
    BY <1>2, <2>1, <2>2, <2>3, <2>4, <2>5, KeepOK
<1>. QED
  BY <1>2, <1>4, <1>5

LEMMA WriteShedGate ==
    ASSUME IInv, FramesOK', NEW c \in Calls, WriteShed(c) PROVE IInv'
<1>. DEFINE f == call[c]
            h == [f EXCEPT !.shed = @ + 1]
            w == Write(c, f)
<1>1. f \in Frame /\ CallOK(c, f) /\ f.pc = "send"
  BY DEF IInv, FramesOK, TypeOK, WriteShed
<1>2. /\ call' = [call EXCEPT ![c] = Unavailable(h)] /\ wire' = wire \cup {w}
      /\ UNCHANGED <<now, human, raised>>
  BY DEF WriteShed
<1>3. /\ h \in Frame /\ h.pc = f.pc /\ h.since = f.since /\ h.op = f.op
      /\ h.scope = f.scope /\ h.auth = f.auth /\ h.rid = f.rid
      /\ h.queue = f.queue /\ h.latest = f.latest
  BY <1>1, ShedFields
<1>4. w.by = c /\ w.scope = f.scope /\ w.rid = f.rid /\ w.at = now
  BY DEF Write, Sent
<1>. HIDE DEF h, w
<1>5. Authorized' /\ ShownAsSent'
  <2>1. now - f.since <= RequestTime
    BY <1>1, RequestInTime DEF Requesting
  <2>2. /\ Backed(f, f.rid, TTL + RequestTime + DialogTime)
        /\ WasShown(c, f, f.rid)
    BY <1>1 DEF CallOK, GateOK
  <2>. QED
    BY <1>2, <1>4, <2>1, <2>2, SendsBacked DEF human
<1>. QED
  BY <1>1, <1>2, <1>3, <1>5, UnavailableGate

LEMMA ReplyShedGate ==
    ASSUME IInv, FramesOK', NEW c \in Calls, ReplyShed(c) PROVE IInv'
<1>. DEFINE f == call[c]
<1>1. /\ f \in Frame /\ CallOK(c, f) /\ FrameOK(f) /\ f.queue \in Seq(ReplyId)
      /\ f.since \in Nat /\ touches \subseteq Touch
  BY FrameFields DEF IInv, FramesOK, TypeOK
<1>2. PICK r \in ReplyId, yes \in BOOLEAN :
        /\ \/ f.pc = "send" /\ f.op = "reply" /\ r = f.rid /\ yes = f.yes
           \/ f.pc = "confirming" /\ r = Head(f.queue) /\ yes = TRUE
           \/ f.pc = "declining" /\ r = Head(f.queue) /\ yes = FALSE
        /\ \E n \in NextQuestions(r, yes) : GatewayAnswers(c, r, yes, n)
        /\ call' = [call EXCEPT ![c] = Unavailable(f)]
        /\ UNCHANGED <<now, session, human>>
  BY ShedReply DEF IInv
<1>. DEFINE w == Answer(c, r, yes)
<1>3. raised \subseteq raised' /\ wire' = wire \cup {w}
  BY <1>2 DEF GatewayAnswers
<1>4. w.by = c /\ w.scope = call[r[1]].scope /\ w.rid = r /\ w.at = now /\ w.yes = yes
  BY AnswerFields
<1>5. call[r[1]].scope = f.scope
  <2>1. CASE f.pc = "send"
    BY <1>1, <1>2, <2>1 DEF CallOK, IdentityOK
  <2>2. CASE f.pc # "send"
    <3>. DEFINE q == f.queue
    <3>1. q \in Seq(ReplyId) /\ q # <<>> /\ \A i \in DOMAIN q : q[i][1] = c
      BY <1>1, <1>2, <2>2 DEF CallOK, IdentityOK, FrameOK, ReplyStages
    <3>. HIDE DEF q
    <3>2. Head(q)[1] = c
      BY <3>1, OwnTail
    <3>. QED
      BY <1>2, <2>2, <3>2 DEF q
  <2>. QED
    BY <2>1, <2>2
<1>. HIDE DEF w
<1>6. f.pc \in {"send", "confirming", "declining"}
  BY <1>2
<1>7. Authorized' /\ ShownAsSent'
  <2>1. now - f.since <= RequestTime
    BY <1>6, RequestInTime DEF Requesting
  <2>2. yes => WasShown(c, f, r)
    BY <1>1, <1>2 DEF CallOK, GateOK
  <2>3. yes => Backed(f, r, TTL + RequestTime + DialogTime)
    <3>1. CASE f.pc = "send"
      BY <1>1, <1>2, <3>1 DEF CallOK, GateOK
    <3>2. CASE f.pc = "confirming"
      <4>1. PICK t \in touches : /\ t.scope = f.scope
                                 /\ t.rid = r \/ ~IsQuestion(t.rid)
                                 /\ t.at <= f.since /\ f.since - t.at < TTL + DialogTime
        BY <1>1, <1>2, <3>2 DEF CallOK, GateOK, Backed
      <4>2. t.at \in Nat
        BY <1>1 DEF Touch
      <4>3. f.since \in Nat
        BY <1>1
      <4>. HIDE DEF f
      <4>4. f.since - t.at < TTL + RequestTime + DialogTime
        BY <4>1, <4>2, <4>3, TimesNat
      <4>. QED
        BY <4>1, <4>4 DEF Backed
    <3>. QED
      BY <1>2, <3>1, <3>2
  <2>. QED
    BY <1>2, <1>3, <1>4, <1>5, <2>1, <2>2, <2>3, SendsBacked DEF human
<1>. QED
  BY <1>1, <1>2, <1>3, <1>6, <1>7, UnavailableGate

-----------------------------------------------------------------------------
(* The environment, and the invariant. *)

LEMMA ClockTicks ==
    ASSUME NEW c, call'[c] = call[c], now \in Nat, now' = now + 1, call[c].since \in Nat,
           ClockOK(call[c]),
           call[c].pc \notin {"idle"} \cup Ended => now - call[c].since < Limit(call[c].pc)
    PROVE  ClockOK(call[c])'
<1>. DEFINE limit == Limit(call[c].pc)
<1>1. limit \in Nat /\ Limit(call'[c].pc) = limit
  BY LimitNat
<1>2. call[c].since <= now /\ (call[c].pc \notin {"idle"} \cup Ended =>
                                 now - call[c].since < limit)
  BY DEF ClockOK
<1>. HIDE DEF limit
<1>3. call[c].since <= now + 1 /\ (call[c].pc \notin {"idle"} \cup Ended =>
                                     now + 1 - call[c].since <= limit)
  BY <1>1, <1>2
<1>. QED
  BY <1>1, <1>3 DEF ClockOK

LEMMA TickGate == ASSUME IInv, FramesOK', Tick PROVE IInv'
<1>1. /\ now \in Nat /\ now' = now + 1 /\ UNCHANGED <<call, touches, confirms, raised, wire>>
      /\ \A c \in Calls : call[c].pc \notin {"idle"} \cup Ended =>
                            now - call[c].since < Limit(call[c].pc)
  BY DEF Tick, human, gateway, IInv, FramesOK, TypeOK
<1>2. touches \subseteq Touch /\ \A t \in touches : t.at <= now
  BY DEF IInv, FramesOK, TypeOK
<1>3. \A t \in touches' : t.at <= now'
  BY <1>1, <1>2 DEF Touch
<1>4. ASSUME NEW c \in Calls PROVE CallOK(c, call[c])'
  <2>1. CallOK(c, call[c]) /\ call[c].since \in Nat
    BY FrameFields DEF IInv, FramesOK, TypeOK
  <2>2. IdentityOK(c, call[c])' /\ AuthOK(call[c])' /\ GateOK(c, call[c])'
    <3>1. IdentityOK(c, call[c])'
      BY <1>1, <2>1 DEF CallOK, IdentityOK
    <3>2. AuthOK(call[c])'
      BY <1>1, <2>1 DEF CallOK, AuthOK
    <3>3. GateOK(c, call[c])'
      BY <1>1, <2>1 DEF CallOK, GateOK, Backed, WasShown
    <3>. QED
      BY <3>1, <3>2, <3>3
  <2>3. ClockOK(call[c])'
    BY <1>1, <2>1, ClockTicks DEF CallOK
  <2>. QED
    BY <2>2, <2>3 DEF CallOK
<1>5. Authorized' /\ ShownAsSent'
  BY <1>1, NothingSent
<1>. QED
  BY <1>3, <1>4, <1>5 DEF IInv

\* A step that changes neither the calls nor the clock nor the history.
LEMMA ElsewhereGate ==
    ASSUME IInv, FramesOK', UNCHANGED <<call, now, touches, confirms, raised, wire>>
    PROVE  IInv'
<1>1. ASSUME NEW c \in Calls PROVE CallOK(c, call[c])'
  <2>1. CallOK(c, call[c])
    BY DEF IInv
  <2>2. IdentityOK(c, call[c])'
    BY <2>1 DEF CallOK, IdentityOK
  <2>3. ClockOK(call[c])' /\ AuthOK(call[c])' /\ GateOK(c, call[c])'
    BY <2>1, HistoryGrows DEF CallOK
  <2>. QED
    BY <2>2, <2>3 DEF CallOK
<1>2. Authorized' /\ ShownAsSent'
  BY NothingSent
<1>. QED
  BY <1>1, <1>2 DEF IInv

LEMMA IInvInit == Init => IInv
<1>. SUFFICES ASSUME Init PROVE IInv
  OBVIOUS
<1>1. FramesOK
  BY FramesOKInit
<1>2. touches = {} /\ wire = {} /\ now = 0
  BY DEF Init
<1>3. ASSUME NEW c \in Calls PROVE CallOK(c, call[c])
  <2>1. /\ call[c].pc = "idle" /\ call[c].op = "place" /\ call[c].since = 0
        /\ call[c].rid = Itself(c) /\ call[c].auth = NoAuth
        /\ call[c].queue = <<>> /\ call[c].latest = <<>>
    BY DEF Init, Idle
  <2>2. ClockOK(call[c]) /\ GateOK(c, call[c])
    BY <1>2, <2>1 DEF ClockOK, GateOK
  <2>3. IdentityOK(c, call[c]) /\ AuthOK(call[c])
    BY <2>1 DEF IdentityOK, AuthOK, Chained
  <2>. QED
    BY <2>2, <2>3 DEF CallOK
<1>4. Authorized /\ ShownAsSent
  BY <1>2 DEF Authorized, ShownAsSent
<1>. QED
  BY <1>1, <1>2, <1>3, <1>4 DEF IInv

LEMMA IInvNext == IInv /\ [Next]_vars => IInv'
<1>. SUFFICES ASSUME IInv, [Next]_vars PROVE IInv'
  OBVIOUS
<1>. USE FramesOKNext DEF IInv
<1>1. FramesOK'
  OBVIOUS
<1>2. ASSUME NEW c \in Calls, Begin(c) PROVE IInv'
  BY <1>1, <1>2, BeginWriteGate, BeginChainGate, BeginReplyGate DEF Begin
<1>3. ASSUME NEW c \in Calls, Step(c) PROVE IInv'
  <2>1. ASSUME TouchIDDenied(c) \/ Decline(c) \/ RequestFails(c) PROVE IInv'
    BY <1>1, <2>1, RaiseStay DEF TouchIDDenied, Decline, RequestFails
  <2>. QED
    BY <1>1, <1>3, <2>1, AuthorizeGate, EnsureAccountsGate, TouchIDGate, ReadOrderGate,
       ConfirmGate, SendWriteGate, SendReplyGate, SkipTerminalGate, NextRoundGate,
       OpenReplyGate, ReplyTouchIDGate, ConfirmReplyGate, DeclineReplyGate,
       SendAnswerGate, WriteShedGate, ReplyShedGate, RetryGate DEF Step
<1>4. ASSUME NEW c \in Calls, CallerMutatesDict(c) PROVE IInv'
  BY <1>1, <1>4, CallerMutatesDictGate
<1>5. CASE QuestionLapses \/ SessionLost \/ LoggedInAgain \/ UNCHANGED vars
  <2>1. UNCHANGED <<call, now, touches, confirms, raised, wire>>
    BY <1>5 DEF QuestionLapses, SessionLost, LoggedInAgain, vars, human, gateway
  <2>. QED
    BY <1>1, <2>1, ElsewhereGate
<1>. QED
  BY <1>1, <1>2, <1>3, <1>4, <1>5, TickGate DEF Next, AllEnded

THEOREM GatesInvariant == Spec => []IInv
BY IInvInit, IInvNext, PTL DEF Spec

\* Gate 1: whatever the gateway was told to do, by whichever call and after
\* whatever retries, a human gave a fingerprint for exactly this account, order
\* and body, less than TTL + 2 * RequestTime + DialogTime before.
THEOREM EveryWriteAuthorized == Spec => []Authorized
<1>1. IInv => Authorized
  BY DEF IInv
<1>. QED
  BY <1>1, GatesInvariant, PTL

\* Gate 2: the call that sent a request had the dialog of that request confirmed,
\* with the body that was sent, although the caller may change its dict meanwhile.
THEOREM EveryWriteShown == Spec => []ShownAsSent
<1>1. IInv => ShownAsSent
  BY DEF IInv
<1>. QED
  BY <1>1, GatesInvariant, PTL

-----------------------------------------------------------------------------
(* The order writes implement the two gates. *)

\* A fingerprint.
LEMMA TouchImplements ==
    ASSUME NEW t \in Touch, touches' = touches \cup {t}, UNCHANGED <<confirms, wire>>
    PROVE  [Gates!Next]_Gates!vars
<1>. DEFINE authorized == {DeedOf(u.scope, u.rid) : u \in touches}
            e == DeedOf(t.scope, t.rid)
<1>1. authorized' = authorized \cup {e}
  OBVIOUS
<1>2. e \in Gates!Deed
  BY DEF DeedOf, Gates!Deed, Touch
<1>. QED
  BY <1>1, <1>2 DEF Gates!Next, Gates!Fingerprint

\* A confirmed dialog, with a fingerprint behind it.
LEMMA ShowImplements ==
    ASSUME NEW d \in Shown, confirms' = confirms \cup {d}, UNCHANGED <<touches, wire>>,
           \E t \in touches : t.scope = d.scope /\ (t.rid = d.rid \/ ~IsQuestion(t.rid))
    PROVE  [Gates!Next]_Gates!vars
<1>. DEFINE authorized == {DeedOf(u.scope, u.rid) : u \in touches}
            shown == {<<u.by, DeedOf(u.scope, u.rid)>> : u \in confirms}
            e == DeedOf(d.scope, d.rid)
            s == <<d.by, e>>
<1>1. shown' = shown \cup {s}
  OBVIOUS
<1>2. e \in Gates!Deed /\ s \in Calls \X Gates!Deed
  BY DEF DeedOf, Gates!Deed, Shown
<1>3. e \in authorized \/ Gates!WriteOf(e) \in authorized
  <2>1. PICK t \in touches : t.scope = d.scope /\ (t.rid = d.rid \/ ~IsQuestion(t.rid))
    OBVIOUS
  <2>2. DeedOf(t.scope, t.rid) \in authorized
    OBVIOUS
  <2>3. CASE t.rid = d.rid
    BY <2>1, <2>2, <2>3
  <2>4. CASE ~IsQuestion(t.rid)
    BY <2>1, <2>2, <2>4 DEF Gates!WriteOf, DeedOf
  <2>. QED
    BY <2>1, <2>3, <2>4
<1>4. s[1] = d.by /\ s[2] = e /\ s \in shown'
  BY <1>1
<1>. HIDE DEF e
<1>. QED
  BY <1>1, <1>2, <1>3, <1>4 DEF Gates!Next, Gates!Show

\* A request: if it says yes, its dialog was confirmed.
LEMMA DoImplements ==
    ASSUME NEW w \in Request, wire' = wire \cup {w}, UNCHANGED <<touches, confirms>>,
           w.yes => \E d \in confirms : d.by = w.by /\ d.rid = w.rid /\ d.scope = w.scope
    PROVE  [Gates!Next]_Gates!vars
<1>. DEFINE shown == {<<u.by, DeedOf(u.scope, u.rid)>> : u \in confirms}
            done == {<<v.by, DeedOf(v.scope, v.rid)>> : v \in {u \in wire : u.yes}}
            e == DeedOf(w.scope, w.rid)
            s == <<w.by, e>>
<1>1. CASE ~w.yes
  <2>1. {u \in wire : u.yes}' = {u \in wire : u.yes}
    BY <1>1
  <2>. QED
    BY <2>1 DEF Gates!vars
<1>2. CASE w.yes
  <2>1. {u \in wire : u.yes}' = {u \in wire : u.yes} \cup {w}
    BY <1>2
  <2>2. done' = done \cup {s}
    BY <2>1
  <2>3. e \in Gates!Deed /\ s \in Calls \X Gates!Deed
    BY DEF DeedOf, Gates!Deed, Request
  <2>4. s \in shown
    BY <1>2
  <2>5. s[1] = w.by /\ s[2] = e /\ s \in done'
    BY <2>2
  <2>. HIDE DEF e
  <2>. QED
    BY <2>2, <2>3, <2>4, <2>5 DEF Gates!Next, Gates!Do
<1>. QED
  BY <1>1, <1>2

LEMMA ElsewhereImplements ==
    ASSUME UNCHANGED <<touches, confirms, wire>> PROVE [Gates!Next]_Gates!vars
BY DEF Gates!vars

\* A step of a call.
LEMMA StepImplements ==
    ASSUME IInv, IInv', NEW c \in Calls, Step(c)
    PROVE  [Gates!Next]_Gates!vars
<1>. DEFINE f == call[c]
            r == Head(f.queue)
<1>1. /\ f \in Frame /\ now \in Nat /\ FrameOK(f) /\ CallOK(c, f)
      /\ f.rid \in ReplyId /\ f.queue \in Seq(ReplyId)
      /\ f.scope \in Scope \cup {NoScope} /\ f.chain \in Scope \cup {NoScope}
      /\ f.auth \in Authorization \cup {NoAuth}
  BY FrameFields DEF IInv, FramesOK, TypeOK
<1>2. f.pc # "idle" => f.scope \in Scope
  BY <1>1 DEF FrameOK
<1>3. f.queue # <<>> => r \in ReplyId
  BY <1>1, HeadTailProperties
<1>4. CASE Authorize(c)
  <2>1. f.chain \in Scope
    BY <1>1, <1>2, <1>4 DEF Authorize, FrameOK
  <2>2. Itself(c) \in ReplyId
    BY DEF Itself, ReplyId
  <2>3. [scope |-> f.chain, rid |-> Itself(c), at |-> now] \in Touch
    BY <1>1, <2>1, <2>2 DEF Touch
  <2>. QED
    BY <1>4, <2>3, TouchImplements DEF Authorize, gateway
<1>5. CASE TouchID(c)
  <2>1. f.scope \in Scope
    BY <1>2, <1>5 DEF TouchID
  <2>2. [scope |-> f.scope, rid |-> f.rid, at |-> now] \in Touch
    BY <1>1, <2>1 DEF Touch
  <2>. QED
    BY <1>5, <2>2, TouchImplements DEF TouchID, gateway
<1>6. CASE ReplyTouchID(c)
  <2>1. f.scope \in Scope /\ r \in ReplyId
    BY <1>1, <1>2, <1>3, <1>6 DEF ReplyTouchID, FrameOK, ReplyStages
  <2>2. [scope |-> f.scope, rid |-> r, at |-> now] \in Touch
    BY <1>1, <2>1 DEF Touch
  <2>. QED
    BY <1>6, <2>2, TouchImplements DEF ReplyTouchID, gateway
<1>7. CASE Confirm(c)
  <2>. DEFINE d == [by |-> c, scope |-> f.scope, rid |-> f.rid, label |-> f.scope]
  <2>1. f.scope \in Scope /\ f.pc = "dialog"
    BY <1>2, <1>7 DEF Confirm
  <2>2. d \in Shown
    BY <1>1, <2>1 DEF Shown
  <2>3. confirms' = confirms \cup {d} /\ UNCHANGED <<touches, wire>>
    BY <1>7 DEF Confirm, gateway
  <2>4. d.scope = f.scope /\ d.rid = f.rid
    OBVIOUS
  <2>5. \E t \in touches : t.scope = f.scope /\ (t.rid = f.rid \/ ~IsQuestion(t.rid))
    BY <1>1, <2>1 DEF CallOK, GateOK, Backed
  <2>. HIDE DEF d
  <2>. QED
    BY <2>2, <2>3, <2>4, <2>5, ShowImplements
<1>8. CASE ConfirmReply(c)
  <2>. DEFINE d == [by |-> c, scope |-> f.scope, rid |-> r, label |-> f.auth.scope]
  <2>1. f.pc = "reply dialog" /\ f.scope \in Scope /\ r \in ReplyId
    BY <1>1, <1>2, <1>3, <1>8 DEF ConfirmReply, FrameOK, ReplyStages
  <2>2. f.auth # NoAuth
    BY <1>1, <2>1 DEF FrameOK, ReplyStages
  <2>3. f.auth.scope \in Scope
    BY <1>1, <2>2 DEF Authorization
  <2>4. d \in Shown
    BY <2>1, <2>3 DEF Shown
  <2>5. confirms' = confirms \cup {d} /\ UNCHANGED <<touches, wire>>
    BY <1>8 DEF ConfirmReply, gateway
  <2>6. d.scope = f.scope /\ d.rid = r
    OBVIOUS
  <2>7. \E t \in touches : t.scope = f.scope /\ (t.rid = r \/ ~IsQuestion(t.rid))
    BY <1>1, <2>1 DEF CallOK, GateOK, Backed
  <2>. HIDE DEF d, r
  <2>. QED
    BY <2>4, <2>5, <2>6, <2>7, ShowImplements
<1>9. CASE \/ SendWrite(c) \/ SendReply(c) \/ SendAnswer(c)
           \/ WriteShed(c) \/ ReplyShed(c)
  <2>1. UNCHANGED <<touches, confirms>>
    BY <1>9 DEF SendWrite, SendReply, SendAnswer, WriteShed, ReplyShed, human
  <2>2. PICK w : wire' = wire \cup {w}
    <3>1. CASE SendWrite(c) \/ WriteShed(c)
      BY <3>1, Zenon DEF SendWrite, WriteShed
    <3>2. CASE SendReply(c) \/ SendAnswer(c)
      BY <3>2, Zenon DEF SendReply, SendAnswer, GatewayAnswers
    <3>3. CASE ReplyShed(c)
      <4>1. PICK r0 \in ReplyId, yes \in BOOLEAN :
              \E n \in NextQuestions(r0, yes) : GatewayAnswers(c, r0, yes, n)
        BY <3>3, ShedReply DEF IInv
      <4>. QED
        BY <4>1, Zenon DEF GatewayAnswers
    <3>. QED
      BY <1>9, <3>1, <3>2, <3>3
  <2>3. w \in Request
    BY <2>2 DEF IInv, FramesOK, TypeOK
  <2>4. w.yes => \E d \in confirms : d.by = w.by /\ d.rid = w.rid /\ d.scope = w.scope
    BY <2>1, <2>2 DEF IInv, ShownAsSent
  <2>. QED
    BY <2>1, <2>2, <2>3, <2>4, DoImplements
<1>10. CASE \/ EnsureAccounts(c) \/ TouchIDDenied(c) \/ ReadOrder(c) \/ Decline(c)
            \/ SkipTerminal(c) \/ NextRound(c) \/ OpenReply(c) \/ DeclineReply(c)
            \/ Retry(c) \/ RequestFails(c)
  <2>1. UNCHANGED <<touches, confirms, wire>>
    BY <1>10 DEF EnsureAccounts, TouchIDDenied, ReadOrder, Decline, SkipTerminal,
       NextRound, OpenReply, DeclineReply, Retry, RequestFails, human, gateway
  <2>. QED
    BY <2>1, ElsewhereImplements
<1>. QED
  BY <1>4, <1>5, <1>6, <1>7, <1>8, <1>9, <1>10 DEF Step

\* Every order write, however the calls, the retries and the session interleave,
\* is a behaviour of the two gates: a fingerprint, then a dialog of the same call
\* about the same deed, then the deed.
THEOREM OrderWritesImplementGates == Spec => ImplementsGates
<1>1. Init => Gates!Init
  BY DEF Init, Gates!Init
<1>2. IInv /\ IInv' /\ [Next]_vars => [Gates!Next]_Gates!vars
  <2>. SUFFICES ASSUME IInv, IInv', [Next]_vars PROVE [Gates!Next]_Gates!vars
    OBVIOUS
  <2>1. ASSUME NEW c \in Calls, Begin(c) \/ CallerMutatesDict(c)
        PROVE  [Gates!Next]_Gates!vars
    BY <2>1, ElsewhereImplements
       DEF Begin, BeginWrite, BeginChain, BeginReply, CallerMutatesDict, human, gateway
  <2>2. CASE Tick \/ QuestionLapses \/ SessionLost \/ LoggedInAgain \/ UNCHANGED vars
    BY <2>2, ElsewhereImplements
       DEF Tick, QuestionLapses, SessionLost, LoggedInAgain, vars, human, gateway
  <2>. QED
    BY <2>1, <2>2, StepImplements DEF Next, AllEnded
<1>. QED
  BY <1>1, <1>2, GatesInvariant, PTL DEF Spec, ImplementsGates, Gates!Spec

-----------------------------------------------------------------------------
(* The replies: what IBKR was told, what the log says and what the human       *)
(* answered are one.                                                           *)

\* The stages of a chain whose write has been answered, short of an exception.
Conversing == {"reply", "returned"} \cup ReplyStages

SaidYes(c, r) == \E w \in wire : w.by = c /\ w.rid = r /\ w.yes

\* What a chain still has to look at, and a question of r's leg among it, which
\* was asked no later than r.
Pending(f) == {f.queue[i] : i \in DOMAIN f.queue} \cup {f.latest[i] : i \in DOMAIN f.latest}
Waiting(f, r) == \E p \in Pending(f) : p[2] = r[2] /\ 0 < p[3] /\ p[3] <= r[3]

\* IBKR has one question open per leg, the last one that it asked.
Newest == \A q \in asked, r \in raised : q[1] = r[1] /\ q[2] = r[2] => r[3] <= q[3]
LegsOK == \A r \in raised : r[2] \in 1..NLegs(call[r[1]].op)

\* A call that has no answer yet has heard nothing and logged nothing; if the
\* gateway has processed anything of it, it is the write of the "send" stage, which
\* was answered 503.
Fresh(c, f) ==
    /\ f.pc # "raised" => f.why = ""
    /\ f.pc \in BeforeSend =>
          /\ f.queue = <<>> /\ f.latest = <<>> /\ f.log = {}
          /\ \A w \in wire : w.by = c =>
                /\ f.pc = "send"
                /\ f.op \in Chained => w.yes /\ ~IsQuestion(w.rid)
    /\ f.pc = "idle" => \A d \in confirms : d.by # c

\* A single order has one entry to look at; a chain that returns has none left
\* that is a question; the entry being resolved is one.
Entries(f) ==
    /\ f.op \in Chained \ {"place_bracket"} => Len(f.queue) + Len(f.latest) <= 1
    /\ f.pc = "returned" => \A p \in Pending(f) : p[3] = 0
    /\ f.pc \in ReplyStages => IsQuestion(Head(f.queue))

\* Every question that IBKR asked about a chain's order has had its yes, or is
\* waiting, or is followed by one that is; an open one waits.
FollowedUp(c, f) ==
    f.op \in Chained /\ f.pc \in Conversing =>
        /\ \A r \in raised : r[1] = c => SaidYes(c, r) \/ Waiting(f, r)
        /\ \A r \in asked : r[1] = c => Waiting(f, r)

\* The record of the entry being resolved; a no is the last thing a chain says, or
\* what it is saying.
Logged(c, f) ==
    f.op \in Chained =>
        /\ f.pc \in {"reply gate1", "reply dialog", "declining"} =>
               <<Head(f.queue), FALSE>> \in f.log
        /\ f.pc = "confirming" => <<Head(f.queue), TRUE>> \in f.log
        /\ \A w \in wire : w.by = c /\ ~w.yes => f.pc \in {"raised", "declining"}

\* DeclineReachesGateway and ReplyLogHonest, of one call.
DeclineTold(c, f) ==
    f.why = "declined" /\ f.queue # <<>> =>
        \E w \in wire : /\ w.by = c /\ w.rid = Head(f.queue) /\ ~w.yes
                        /\ <<w.rid, FALSE>> \in f.log
LogTrue(c, f) ==
    f.op \in Chained =>
        /\ \A d \in confirms : d.by = c /\ IsQuestion(d.rid) => <<d.rid, TRUE>> \in f.log
        /\ \A e \in f.log : e[2] => \E d \in confirms : d.by = c /\ d.rid = e[1]
        /\ \A w \in wire : w.by = c /\ IsQuestion(w.rid) => <<w.rid, w.yes>> \in f.log

RepliesOK(c, f) ==
    /\ Fresh(c, f) /\ Entries(f) /\ FollowedUp(c, f) /\ Logged(c, f)
    /\ DeclineTold(c, f) /\ LogTrue(c, f)

\* The inductive invariant behind RepliesHonest, next to IInv.
HonestInv == Newest /\ LegsOK /\ \A c \in Calls : RepliesOK(c, call[c])

LEMMA HonestSuffices == IInv /\ HonestInv => RepliesHonest
<1>. SUFFICES ASSUME IInv, HonestInv PROVE RepliesHonest
  OBVIOUS
<1>1. \A c \in Calls : RepliesOK(c, call[c])
  BY DEF HonestInv
<1>2. DeclineReachesGateway /\ ReplyLogHonest
  BY <1>1 DEF RepliesOK, DeclineTold, LogTrue, DeclineReachesGateway, ReplyLogHonest
<1>3. ASSUME NEW c \in Calls, call[c].op \in Chained, call[c].pc = "returned",
             NEW r \in raised, r[1] = c
      PROVE  \E w \in wire : w.by = c /\ w.rid = r /\ w.yes
  <2>1. SaidYes(c, r) \/ Waiting(call[c], r)
    BY <1>1, <1>3 DEF RepliesOK, FollowedUp, Conversing
  <2>2. \A p \in Pending(call[c]) : p[3] = 0
    BY <1>1, <1>3 DEF RepliesOK, Entries
  <2>3. ~Waiting(call[c], r)
    BY <2>2 DEF Waiting
  <2>. QED
    BY <2>1, <2>3 DEF SaidYes
<1>4. EveryQuestionAnswered
  BY <1>3 DEF EveryQuestionAnswered
<1>. QED
  BY <1>2, <1>4 DEF RepliesHonest

-----------------------------------------------------------------------------
(* Steps of other calls. *)

LEMMA StillFollowed ==
    ASSUME NEW d, call'[d] = call[d], wire \subseteq wire', raised' = raised,
           asked' \subseteq asked, FollowedUp(d, call[d])
    PROVE  FollowedUp(d, call[d])'
<1>1. \A r : SaidYes(d, r) => SaidYes(d, r)'
  BY DEF SaidYes
<1>2. \A r : Waiting(call[d], r)' = Waiting(call[d], r)
  BY DEF Waiting, Pending
<1>. QED
  BY <1>1, <1>2 DEF FollowedUp

LEMMA OthersSay ==
    ASSUME NEW c \in Calls, NEW d \in Calls \ {c}, call'[d] = call[d],
           wire \subseteq wire', \A w \in wire' \ wire : w.by = c,
           confirms \subseteq confirms', \A e \in confirms' \ confirms : e.by = c,
           RepliesOK(d, call[d]), FollowedUp(d, call[d])'
    PROVE  RepliesOK(d, call[d])'
<1>0. \A w \in wire' : w.by = d => w \in wire
  OBVIOUS
<1>1. Fresh(d, call[d])'
  BY <1>0 DEF RepliesOK, Fresh
<1>2. Entries(call[d])'
  BY DEF RepliesOK, Entries, Pending
<1>3. Logged(d, call[d])'
  BY <1>0 DEF RepliesOK, Logged
<1>4. DeclineTold(d, call[d])'
  BY DEF RepliesOK, DeclineTold
<1>5. LogTrue(d, call[d])'
  <2>1. (\A w \in wire' : w.by = d => w \in wire) /\ \A e \in confirms' : e.by = d => e \in confirms
    OBVIOUS
  <2>2. LogTrue(d, call[d])
    BY DEF RepliesOK
  <2>. QED
    BY <2>1, <2>2 DEF LogTrue
<1>. QED
  BY <1>1, <1>2, <1>3, <1>4, <1>5 DEF RepliesOK

\* A step of c preserves the invariant if it preserves what is said of the
\* questions and of c.
LEMMA OneSays ==
    ASSUME HonestInv, NEW c \in Calls, \A d \in Calls \ {c} : call'[d] = call[d],
           wire \subseteq wire', \A w \in wire' \ wire : w.by = c,
           confirms \subseteq confirms', \A e \in confirms' \ confirms : e.by = c,
           Newest', LegsOK', \A d \in Calls \ {c} : FollowedUp(d, call[d])',
           RepliesOK(c, call[c])'
    PROVE  HonestInv'
<1>1. ASSUME NEW d \in Calls \ {c} PROVE RepliesOK(d, call[d])'
  <2>1. RepliesOK(d, call[d]) /\ FollowedUp(d, call[d])' /\ call'[d] = call[d]
    BY DEF HonestInv
  <2>. QED
    BY <2>1, OthersSay
<1>. QED
  BY <1>1 DEF HonestInv

\* ... and the gateway hears nothing.
LEMMA NobodyAsked ==
    ASSUME IInv, HonestInv, NEW c \in Calls,
           \A d \in Calls \ {c} : call'[d] = call[d],
           UNCHANGED <<asked, raised, wire>>,
           confirms \subseteq confirms', \A e \in confirms' \ confirms : e.by = c,
           call[c].pc \in BeforeSend \/ call'[c].op = call[c].op,
           RepliesOK(c, call[c])'
    PROVE  HonestInv'
<1>1. Newest'
  BY DEF HonestInv, Newest
<1>2. LegsOK'
  <2>1. ASSUME NEW r \in raised PROVE r[2] \in 1..NLegs(call'[r[1]].op)
    <3>1. r[1] \in Calls /\ call[r[1]].pc \notin BeforeSend
      BY DEF IInv, FramesOK, TypeOK, ReplyId
    <3>2. call'[r[1]].op = call[r[1]].op
      BY <3>1
    <3>. QED
      BY <3>2 DEF HonestInv, LegsOK
  <2>. QED
    BY <2>1 DEF LegsOK
<1>3. ASSUME NEW d \in Calls \ {c} PROVE FollowedUp(d, call[d])'
  <2>1. FollowedUp(d, call[d]) /\ call'[d] = call[d]
    BY DEF HonestInv, RepliesOK
  <2>. QED
    BY <2>1, StillFollowed
<1>. QED
  BY <1>1, <1>2, <1>3, OneSays

-----------------------------------------------------------------------------
(* Before the write is sent, and the end of a call. *)

\* A step of c before its write is sent.
LEMMA EarlySays ==
    ASSUME IInv, HonestInv, NEW c \in Calls, call[c].pc \in BeforeSend \ {"send"},
           \A d \in Calls \ {c} : call'[d] = call[d],
           UNCHANGED <<asked, raised, wire>>,
           confirms \subseteq confirms',
           \A e \in confirms' \ confirms :
              e.by = c /\ (call'[c].op \in Chained => ~IsQuestion(e.rid)),
           call'[c].pc \in BeforeSend \ {"idle"},
           call[c].pc = "idle" \/ call'[c].op = call[c].op,
           call'[c].why = call[c].why, call'[c].queue = call[c].queue,
           call'[c].latest = call[c].latest, call'[c].log = call[c].log
    PROVE  HonestInv'
<1>1. RepliesOK(c, call[c])
  BY DEF HonestInv
<1>2. /\ call'[c].why = "" /\ call'[c].queue = <<>> /\ call'[c].latest = <<>>
      /\ call'[c].log = {} /\ \A w \in wire : w.by # c
  BY <1>1 DEF RepliesOK, Fresh, BeforeSend
<1>3. Fresh(c, call[c])'
  BY <1>2 DEF Fresh
<1>4. Entries(call[c])'
  <2>1. Len(call'[c].queue) = 0 /\ Len(call'[c].latest) = 0
    BY <1>2
  <2>2. call'[c].pc # "returned" /\ call'[c].pc \notin ReplyStages
    BY DEF BeforeSend, ReplyStages
  <2>. QED
    BY <2>1, <2>2 DEF Entries
<1>5. FollowedUp(c, call[c])'
  BY DEF FollowedUp, Conversing, BeforeSend, ReplyStages
<1>6. Logged(c, call[c])'
  BY <1>2 DEF Logged, BeforeSend
<1>7. DeclineTold(c, call[c])'
  BY <1>2 DEF DeclineTold
<1>8. call'[c].op \in Chained => \A d \in confirms' : d.by = c => ~IsQuestion(d.rid)
  <2>1. CASE call[c].pc = "idle"
    BY <1>1, <2>1 DEF RepliesOK, Fresh
  <2>2. CASE call[c].pc # "idle"
    <3>1. call'[c].op \in Chained => \A d \in confirms : d.by = c => ~IsQuestion(d.rid)
      BY <1>1, <1>2, <2>2 DEF RepliesOK, LogTrue
    <3>. QED
      BY <3>1
  <2>. QED
    BY <2>1, <2>2
<1>9. LogTrue(c, call[c])'
  BY <1>2, <1>8 DEF LogTrue
<1>10. RepliesOK(c, call[c])'
  BY <1>3, <1>4, <1>5, <1>6, <1>7, <1>9 DEF RepliesOK
<1>11. \A e \in confirms' \ confirms : e.by = c
  OBVIOUS
<1>. QED
  BY <1>10, <1>11, NobodyAsked

\* What is said of a call that has ended with an exception.
LEMMA RaisedSays ==
    ASSUME HonestInv, NEW c \in Calls, confirms' = confirms, wire \subseteq wire',
           call'[c].pc = "raised", call'[c].op = call[c].op,
           call'[c].queue = call[c].queue, call'[c].latest = call[c].latest,
           call'[c].log = call[c].log,
           call[c].op \in Chained =>
             \A w \in wire' \ wire : w.by = c /\ IsQuestion(w.rid) =>
                <<w.rid, w.yes>> \in call[c].log,
           DeclineTold(c, call[c])'
    PROVE  RepliesOK(c, call[c])'
<1>1. RepliesOK(c, call[c])
  BY DEF HonestInv
<1>2. Fresh(c, call[c])'
  BY DEF Fresh, BeforeSend
<1>3. Entries(call[c])'
  BY <1>1 DEF RepliesOK, Entries, ReplyStages
<1>4. FollowedUp(c, call[c])'
  BY DEF FollowedUp, Conversing, ReplyStages
<1>5. Logged(c, call[c])'
  BY DEF Logged
<1>6. LogTrue(c, call[c])'
  BY <1>1 DEF RepliesOK, LogTrue
<1>. QED
  BY <1>2, <1>3, <1>4, <1>5, <1>6 DEF RepliesOK

\* A step of c that ends it with an exception and sends nothing.
LEMMA RaiseSays ==
    ASSUME IInv, HonestInv, NEW c \in Calls, NEW reason,
           call' = [call EXCEPT ![c] = Raise(call[c], reason)],
           UNCHANGED <<now, session, human, gateway>>,
           reason = "declined" => call[c].pc \in BeforeSend
    PROVE  HonestInv'
<1>1. call \in [Calls -> Frame] /\ call[c] \in Frame
  BY DEF IInv, FramesOK, TypeOK
<1>2. call'[c] = Raise(call[c], reason) /\ \A d \in Calls \ {c} : call'[d] = call[d]
  BY <1>1
<1>3. /\ call'[c].pc = "raised" /\ call'[c].why = reason /\ call'[c].op = call[c].op
      /\ call'[c].queue = call[c].queue /\ call'[c].latest = call[c].latest
      /\ call'[c].log = call[c].log
  BY <1>1, <1>2, RaiseFields
<1>4. UNCHANGED <<asked, raised, wire, confirms>>
  BY DEF human, gateway
<1>5. DeclineTold(c, call[c])'
  <2>1. Fresh(c, call[c])
    BY DEF HonestInv, RepliesOK
  <2>. QED
    BY <1>3, <2>1 DEF DeclineTold, Fresh
<1>6. RepliesOK(c, call[c])'
  BY <1>3, <1>4, <1>5, RaisedSays
<1>. QED
  BY <1>2, <1>3, <1>4, <1>6, NobodyAsked

\* The frame of a step that concerns no reply.
SameTalk(f, g) ==
    g.why = f.why /\ g.queue = f.queue /\ g.latest = f.latest /\ g.log = f.log

LEMMA EarlyGoto ==
    ASSUME IInv, HonestInv, NEW c \in Calls, NEW stage \in BeforeSend \ {"idle"},
           call[c].pc \in BeforeSend \ {"send"},
           call' = [call EXCEPT ![c] = Goto(call[c], stage)],
           UNCHANGED <<asked, raised, wire>>,
           confirms \subseteq confirms',
           \A e \in confirms' \ confirms :
              e.by = c /\ (call[c].op \in Chained => ~IsQuestion(e.rid))
    PROVE  HonestInv'
<1>1. call \in [Calls -> Frame] /\ call[c] \in Frame
  BY DEF IInv, FramesOK, TypeOK
<1>2. call'[c] = Goto(call[c], stage) /\ \A d \in Calls \ {c} : call'[d] = call[d]
  BY <1>1
<1>3. /\ call'[c].pc = stage /\ call'[c].op = call[c].op /\ call'[c].why = call[c].why
      /\ call'[c].queue = call[c].queue /\ call'[c].latest = call[c].latest
      /\ call'[c].log = call[c].log
  BY <1>1, <1>2, GotoFields
<1>. QED
  BY <1>2, <1>3, EarlySays

LEMMA EarlyFrame ==
    ASSUME IInv, HonestInv, NEW c \in Calls, NEW g,
           call[c].pc \in BeforeSend \ {"send"},
           call' = [call EXCEPT ![c] = g], UNCHANGED <<human, gateway>>,
           g.pc \in BeforeSend \ {"idle"},
           call[c].pc = "idle" \/ g.op = call[c].op, SameTalk(call[c], g)
    PROVE  HonestInv'
<1>1. call \in [Calls -> Frame]
  BY DEF IInv, FramesOK, TypeOK
<1>2. call'[c] = g /\ \A d \in Calls \ {c} : call'[d] = call[d]
  BY <1>1
<1>3. UNCHANGED <<asked, raised, wire, confirms>>
  BY DEF human, gateway
<1>. QED
  BY <1>2, <1>3, EarlySays DEF SameTalk

LEMMA BeginSays ==
    ASSUME IInv, HonestInv, NEW c \in Calls, Begin(c) PROVE HonestInv'
<1>. DEFINE f == call[c]
<1>1. f \in Frame /\ f.pc = "idle" /\ f.pc \in BeforeSend \ {"send"}
  BY DEF IInv, FramesOK, TypeOK, Begin, BeginWrite, BeginChain, BeginReply, BeforeSend
<1>2. UNCHANGED <<human, gateway>>
  BY DEF Begin, BeginWrite, BeginChain, BeginReply
<1>3. {"authorize", "accounts"} \subseteq BeforeSend \ {"idle"}
  BY DEF BeforeSend
<1>4. \A op : FirstStage(op) \in {"authorize", "accounts"}
  BY DEF FirstStage
<1>5. CASE BeginWrite(c)
  <2>1. PICK op, b, auth, s :
          call' = [call EXCEPT ![c] = [Goto(f, FirstStage(op)) EXCEPT
                       !.op = op, !.dict = b, !.auth = auth, !.scope = s]]
    BY <1>5, Zenon DEF BeginWrite
  <2>. DEFINE g == [Goto(f, FirstStage(op)) EXCEPT
                       !.op = op, !.dict = b, !.auth = auth, !.scope = s]
  <2>2. g.pc = FirstStage(op) /\ SameTalk(f, g)
    BY <1>1, Zenon DEF Goto, Frame, SameTalk
  <2>3. call' = [call EXCEPT ![c] = g]
    BY <2>1
  <2>. HIDE DEF g
  <2>. QED
    BY <1>1, <1>2, <1>3, <1>4, <2>2, <2>3, EarlyFrame
<1>6. CASE BeginChain(c)
  <2>1. PICK op, b, s :
          call' = [call EXCEPT ![c] = [Goto(f, FirstStage(op)) EXCEPT
                       !.op = op, !.dict = b, !.scope = s, !.chain = s]]
    BY <1>6, Zenon DEF BeginChain
  <2>. DEFINE g == [Goto(f, FirstStage(op)) EXCEPT
                       !.op = op, !.dict = b, !.scope = s, !.chain = s]
  <2>2. g.pc = FirstStage(op) /\ SameTalk(f, g)
    BY <1>1, Zenon DEF Goto, Frame, SameTalk
  <2>3. call' = [call EXCEPT ![c] = g]
    BY <2>1
  <2>. HIDE DEF g
  <2>. QED
    BY <1>1, <1>2, <1>3, <1>4, <2>2, <2>3, EarlyFrame
<1>7. CASE BeginReply(c)
  <2>1. PICK r, yes, s :
          call' = [call EXCEPT ![c] = [Goto(f, FirstStage("reply")) EXCEPT
                       !.op = "reply", !.rid = r, !.yes = yes, !.scope = s]]
    BY <1>7, Zenon DEF BeginReply
  <2>. DEFINE g == [Goto(f, FirstStage("reply")) EXCEPT
                       !.op = "reply", !.rid = r, !.yes = yes, !.scope = s]
  <2>2. g.pc = FirstStage("reply") /\ SameTalk(f, g)
    BY <1>1, Zenon DEF Goto, Frame, SameTalk
  <2>3. call' = [call EXCEPT ![c] = g]
    BY <2>1
  <2>. HIDE DEF g
  <2>. QED
    BY <1>1, <1>2, <1>3, <1>4, <2>2, <2>3, EarlyFrame
<1>. QED
  BY <1>5, <1>6, <1>7 DEF Begin

LEMMA AuthorizeSays ==
    ASSUME IInv, HonestInv, NEW c \in Calls, Authorize(c) PROVE HonestInv'
<1>. DEFINE f == call[c]
<1>1. /\ call \in [Calls -> Frame] /\ f \in Frame /\ f.pc \in BeforeSend \ {"send"}
  BY DEF IInv, FramesOK, TypeOK, Authorize, BeforeSend
<1>. DEFINE a == [scope |-> f.chain, at |-> now]
<1>2. PICK stage \in {"dialog", "accounts"} :
        call' = [call EXCEPT ![c] = [Goto(f, stage) EXCEPT !.auth = a]]
  BY DEF Authorize
<1>. DEFINE g == [Goto(f, stage) EXCEPT !.auth = a]
<1>3. g.pc = stage /\ g.op = f.op /\ SameTalk(f, g)
  BY <1>1, Zenon DEF Goto, Frame, SameTalk
<1>4. call' = [call EXCEPT ![c] = g]
  BY <1>2
<1>. HIDE DEF g
<1>5. call'[c] = g /\ \A d \in Calls \ {c} : call'[d] = call[d]
  BY <1>1, <1>4
<1>6. UNCHANGED <<asked, raised, wire, confirms>>
  BY DEF Authorize, gateway
<1>7. g.pc \in BeforeSend \ {"idle"}
  BY <1>3 DEF BeforeSend
<1>. QED
  BY <1>1, <1>3, <1>5, <1>6, <1>7, EarlySays DEF SameTalk

LEMMA EnsureAccountsSays ==
    ASSUME IInv, HonestInv, NEW c \in Calls, EnsureAccounts(c) PROVE HonestInv'
<1>. DEFINE f == call[c]
            h == AfterAccounts(f)
<1>1. /\ call \in [Calls -> Frame] /\ f \in Frame /\ now \in Nat
      /\ f.pc = "accounts" /\ FrameOK(f)
  BY DEF IInv, FramesOK, TypeOK, EnsureAccounts
<1>2. f.scope \in Scope
  BY <1>1 DEF FrameOK
<1>3. PICK s \in Scope, g \in Frame :
             /\ g.op = f.op /\ g.queue = f.queue /\ g.latest = f.latest
             /\ g.why = f.why /\ g.log = f.log
             /\ AfterAccounts(f) =
                  IF f.op = "place_bracket"
                  THEN [Goto(g, "authorize") EXCEPT !.chain = s]
                  ELSE IF f.op \in Single /\ Covers(f.auth, s)
                       THEN AfterGate1(g)
                       ELSE Goto(g, "gate1")
  BY <1>1, <1>2, AfterAccountsScope, Zenon
<1>4. h.pc \in {"authorize", "gate1", "read", "dialog"} /\ h.op = f.op /\ SameTalk(f, h)
  <2>1. CASE f.op = "place_bracket"
    <3>. DEFINE k == [Goto(g, "authorize") EXCEPT !.chain = s]
    <3>1. h = k
      BY <1>3, <2>1
    <3>2. /\ k.pc = "authorize" /\ k.op = g.op /\ k.why = g.why /\ k.queue = g.queue
          /\ k.latest = g.latest /\ k.log = g.log
      BY Zenon DEF Goto, Frame
    <3>. HIDE DEF h, k
    <3>. QED
      BY <1>3, <3>1, <3>2 DEF SameTalk
  <2>2. CASE f.op # "place_bracket"
    <3>1. \E stage \in {"read", "dialog"} : AfterGate1(g) = Goto(g, stage)
      BY <1>1, AfterGate1Type
    <3>2. PICK stage \in {"gate1", "read", "dialog"} : h = Goto(g, stage)
      BY <1>3, <2>2, <3>1, Zenon
    <3>3. LET k == Goto(g, stage) IN
          /\ k.pc = stage /\ k.op = g.op /\ k.why = g.why /\ k.queue = g.queue
          /\ k.latest = g.latest /\ k.log = g.log
      BY GotoFields
    <3>. HIDE DEF h
    <3>. QED
      BY <1>3, <3>2, <3>3 DEF SameTalk
  <2>. QED
    BY <2>1, <2>2
<1>5. call' = [call EXCEPT ![c] = h] /\ UNCHANGED <<human, gateway>>
  BY Zenon DEF EnsureAccounts
<1>. HIDE DEF h
<1>6. f.pc \in BeforeSend \ {"send"} /\ h.pc \in BeforeSend \ {"idle"}
  BY <1>1, <1>4 DEF BeforeSend
<1>. QED
  BY <1>4, <1>5, <1>6, EarlyFrame

LEMMA GateOneSays ==
    ASSUME IInv, HonestInv, NEW c \in Calls, TouchID(c) \/ ReadOrder(c) PROVE HonestInv'
<1>1. call[c] \in Frame /\ now \in Nat
  BY DEF IInv, FramesOK, TypeOK
<1>2. /\ UNCHANGED <<asked, raised, wire, confirms>>
      /\ call[c].pc \in BeforeSend \ {"send"}
  BY DEF TouchID, ReadOrder, human, gateway, BeforeSend
<1>3. CASE \E stage \in {"read", "dialog"} : call' = [call EXCEPT ![c] = Goto(call[c], stage)]
  <2>1. {"read", "dialog"} \subseteq BeforeSend \ {"idle"}
    BY DEF BeforeSend
  <2>. QED
    BY <1>2, <1>3, <2>1, EarlyGoto
<1>4. CASE ReadOrder(c) /\ call' = [call EXCEPT ![c] = Raise(call[c], "refused")]
  BY <1>4, RaiseSays DEF ReadOrder
<1>. QED
  BY <1>1, <1>3, <1>4, AfterGate1Type DEF TouchID, ReadOrder

\* The dialog of a chain's write names the write, not a question.
LEMMA ConfirmSays ==
    ASSUME IInv, HonestInv, NEW c \in Calls, Confirm(c) PROVE HonestInv'
<1>. DEFINE e == [by |-> c, scope |-> call[c].scope, rid |-> call[c].rid,
                  label |-> call[c].scope]
<1>1. /\ call' = [call EXCEPT ![c] = Goto(call[c], "send")]
      /\ confirms' = confirms \cup {e} /\ UNCHANGED <<asked, raised, wire>>
  BY DEF Confirm, gateway
<1>2. e.by = c /\ e.rid = call[c].rid
  OBVIOUS
<1>. HIDE DEF e
<1>3. call[c].op \in Chained => ~IsQuestion(call[c].rid)
  BY DEF IInv, CallOK, IdentityOK, Chained, Itself, IsQuestion
<1>4. call[c].pc \in BeforeSend \ {"send"} /\ "send" \in BeforeSend \ {"idle"}
  BY DEF Confirm, BeforeSend
<1>. QED
  BY <1>1, <1>2, <1>3, <1>4, EarlyGoto

LEMMA EndSays ==
    ASSUME IInv, HonestInv, NEW c \in Calls,
           TouchIDDenied(c) \/ Decline(c) \/ RequestFails(c)
    PROVE  HonestInv'
<1>1. UNCHANGED <<now, session, human, gateway>>
  BY DEF TouchIDDenied, Decline, RequestFails
<1>2. CASE call' = [call EXCEPT ![c] = Raise(call[c], "denied")]
  BY <1>1, <1>2, RaiseSays
<1>3. CASE call' = [call EXCEPT ![c] = Raise(call[c], "failed")]
  BY <1>1, <1>3, RaiseSays
<1>4. CASE Decline(c)
  <2>1. call[c].pc \in BeforeSend
    BY <1>4 DEF Decline, BeforeSend
  <2>. QED
    BY <1>1, <1>4, <2>1, RaiseSays DEF Decline
<1>. QED
  BY <1>2, <1>3, <1>4 DEF TouchIDDenied, RequestFails

\* A retry, or the caller changing its dict.
LEMMA StandSays ==
    ASSUME IInv, HonestInv, NEW c \in Calls, Retry(c) \/ CallerMutatesDict(c)
    PROVE  HonestInv'
<1>. DEFINE f == call[c]
<1>1. call \in [Calls -> Frame] /\ f \in Frame
  BY DEF IInv, FramesOK, TypeOK
<1>2. PICK g : /\ call' = [call EXCEPT ![c] = g]
               /\ g.pc = f.pc /\ g.op = f.op /\ SameTalk(f, g)
  <2>1. CASE Retry(c)
    <3>. DEFINE g == [f EXCEPT !.tries = f.tries + 1]
    <3>1. call' = [call EXCEPT ![c] = g]
      BY <2>1, Zenon DEF Retry
    <3>2. g.pc = f.pc /\ g.op = f.op /\ SameTalk(f, g)
      BY <1>1, Zenon DEF Frame, SameTalk
    <3>. QED
      BY <3>1, <3>2, Zenon
  <2>2. CASE CallerMutatesDict(c)
    <3>1. PICK b : call' = [call EXCEPT ![c] = [f EXCEPT !.dict = b]]
      BY <2>2, Zenon DEF CallerMutatesDict
    <3>. DEFINE g == [f EXCEPT !.dict = b]
    <3>2. g.pc = f.pc /\ g.op = f.op /\ SameTalk(f, g)
      BY <1>1, Zenon DEF Frame, SameTalk
    <3>. QED
      BY <3>1, <3>2, Zenon
  <2>. QED
    BY <2>1, <2>2
<1>3. UNCHANGED <<asked, raised, wire, confirms>>
  BY DEF Retry, CallerMutatesDict, human, gateway
<1>4. call'[c] = g /\ \A d \in Calls \ {c} : call'[d] = call[d]
  BY <1>1, <1>2
<1>5. RepliesOK(c, f)
  BY DEF HonestInv
<1>6. RepliesOK(c, call[c])'
  <2>1. \A r : /\ SaidYes(c, r)' = SaidYes(c, r)
               /\ Waiting(call[c], r)' = Waiting(call[c], r)
    BY <1>2, <1>3, <1>4 DEF SaidYes, Waiting, Pending, SameTalk
  <2>2. Fresh(c, call[c])' /\ Entries(call[c])'
    <3>1. Fresh(c, call[c])'
      BY <1>2, <1>3, <1>4, <1>5 DEF RepliesOK, Fresh, SameTalk
    <3>2. Entries(call[c])'
      <4>1. /\ call'[c].queue = f.queue /\ call'[c].latest = f.latest
            /\ call'[c].pc = f.pc /\ call'[c].op = f.op
        BY <1>2, <1>4 DEF SameTalk
      <4>2. Pending(call[c])' = Pending(f)
        BY <4>1 DEF Pending
      <4>3. Entries(f)
        BY <1>5 DEF RepliesOK
      <4>. QED
        BY <4>1, <4>2, <4>3 DEF Entries
    <3>. QED
      BY <3>1, <3>2
  <2>3. FollowedUp(c, call[c])'
    BY <1>2, <1>3, <1>4, <1>5, <2>1 DEF RepliesOK, FollowedUp
  <2>4. Logged(c, call[c])' /\ DeclineTold(c, call[c])' /\ LogTrue(c, call[c])'
    BY <1>2, <1>3, <1>4, <1>5 DEF RepliesOK, Logged, DeclineTold, LogTrue, SameTalk
  <2>. QED
    BY <2>2, <2>3, <2>4 DEF RepliesOK
<1>. QED
  BY <1>2, <1>3, <1>4, <1>6, NobodyAsked

LEMMA ElsewhereSays ==
    ASSUME HonestInv, UNCHANGED <<call, raised, wire, confirms>>, asked' \subseteq asked
    PROVE  HonestInv'
<1>1. Newest' /\ LegsOK'
  BY DEF HonestInv, Newest, LegsOK
<1>2. ASSUME NEW c \in Calls PROVE RepliesOK(c, call[c])'
  <2>1. RepliesOK(c, call[c])
    BY DEF HonestInv
  <2>2. FollowedUp(c, call[c])'
    BY <2>1, StillFollowed DEF RepliesOK
  <2>3. /\ Fresh(c, call[c])' /\ Entries(call[c])' /\ Logged(c, call[c])'
        /\ DeclineTold(c, call[c])' /\ LogTrue(c, call[c])'
    BY <2>1 DEF RepliesOK, Fresh, Entries, Pending, Logged, DeclineTold, LogTrue
  <2>. QED
    BY <2>2, <2>3 DEF RepliesOK
<1>. QED
  BY <1>1, <1>2 DEF HonestInv

-----------------------------------------------------------------------------
(* The loop over the replies, between two requests. *)

LEMMA HeadOrTail ==
    ASSUME NEW q \in Seq(ReplyId), q # <<>>, NEW i \in DOMAIN q
    PROVE  q[i] = Head(q) \/ \E j \in DOMAIN Tail(q) : Tail(q)[j] = q[i]
<1>1. CASE i = 1
  BY <1>1, HeadTailProperties
<1>2. CASE i # 1
  <2>1. i \in Nat /\ 1 <= i /\ i <= Len(q) /\ Len(q) \in Nat
    OBVIOUS
  <2>2. Len(Tail(q)) = Len(q) - 1 /\ Tail(q) \in Seq(ReplyId)
    BY HeadTailProperties
  <2>3. i - 1 \in DOMAIN Tail(q) /\ Tail(q)[i - 1] = q[i]
    BY <1>2, <2>1, <2>2
  <2>. QED
    BY <2>3
<1>. QED
  BY <1>1, <1>2

\* Passing over the head of the queue loses nothing else.
LEMMA PendingTail ==
    ASSUME NEW f \in Frame, f.queue # <<>>, NEW g,
           g.queue = Tail(f.queue),
           \A i \in DOMAIN f.latest : \E j \in DOMAIN g.latest : g.latest[j] = f.latest[i]
    PROVE  \A p \in Pending(f) : p = Head(f.queue) \/ p \in Pending(g)
<1>1. f.queue \in Seq(ReplyId)
  BY FrameFields
<1>2. ASSUME NEW i \in DOMAIN f.queue
      PROVE  f.queue[i] = Head(f.queue) \/ f.queue[i] \in Pending(g)
  <2>. DEFINE q == f.queue
  <2>1. q \in Seq(ReplyId) /\ q # <<>> /\ i \in DOMAIN q
    BY <1>1
  <2>. HIDE DEF q
  <2>2. q[i] = Head(q) \/ \E j \in DOMAIN Tail(q) : Tail(q)[j] = q[i]
    BY <2>1, HeadOrTail
  <2>3. g.queue = Tail(q)
    BY DEF q
  <2>4. q[i] = Head(q) \/ q[i] \in Pending(g)
    BY <2>2, <2>3 DEF Pending
  <2>. QED
    BY <2>4 DEF q
<1>3. ASSUME NEW i \in DOMAIN f.latest PROVE f.latest[i] \in Pending(g)
  BY DEF Pending
<1>. QED
  BY <1>2, <1>3 DEF Pending

\* A step of a chain within its conversation that sends nothing and loses no
\* question.
LEMMA ReplyStepSays ==
    ASSUME IInv, HonestInv, NEW c \in Calls, NEW g,
           call' = [call EXCEPT ![c] = g],
           call[c].op \in Chained, call[c].pc \in ReplyStages \cup {"reply"},
           g.op = call[c].op, g.why = call[c].why, g.pc \in Conversing,
           UNCHANGED <<asked, raised, wire>>,
           confirms \subseteq confirms', \A e \in confirms' \ confirms : e.by = c,
           \A p \in Pending(call[c]) : p[3] > 0 => p \in Pending(g),
           Entries(g), Logged(c, g)', LogTrue(c, g)'
    PROVE  HonestInv'
<1>1. call \in [Calls -> Frame]
  BY DEF IInv, FramesOK, TypeOK
<1>2. call'[c] = g /\ \A d \in Calls \ {c} : call'[d] = call[d]
  BY <1>1
<1>3. RepliesOK(c, call[c])
  BY DEF HonestInv
<1>4. g.why = ""
  BY <1>3 DEF RepliesOK, Fresh, ReplyStages
<1>5. g.pc \notin BeforeSend \cup {"idle"}
  BY DEF Conversing, BeforeSend, ReplyStages
<1>6. Fresh(c, g)' /\ DeclineTold(c, g)'
  BY <1>4, <1>5 DEF Fresh, DeclineTold
<1>7. FollowedUp(c, g)'
  <2>1. \A r : Waiting(call[c], r) => Waiting(g, r)
    BY DEF Waiting
  <2>2. \A r : SaidYes(c, r)' = SaidYes(c, r)
    BY DEF SaidYes
  <2>3. call[c].pc \in Conversing
    BY DEF Conversing
  <2>4. /\ \A r \in raised : r[1] = c => SaidYes(c, r) \/ Waiting(call[c], r)
        /\ \A r \in asked : r[1] = c => Waiting(call[c], r)
    BY <1>3, <2>3 DEF RepliesOK, FollowedUp
  <2>. QED
    BY <2>1, <2>2, <2>4 DEF FollowedUp
<1>8. RepliesOK(c, g)'
  BY <1>6, <1>7 DEF RepliesOK
<1>9. RepliesOK(c, call[c])'
  BY <1>2, <1>8
<1>. QED
  BY <1>2, <1>9, NobodyAsked

\* What the log has to say of a chain between two replies.
LEMMA LogStands ==
    ASSUME HonestInv, NEW c \in Calls, NEW g,
           call[c].op \in Chained, call[c].pc \notin {"raised", "declining"},
           g.op = call[c].op, g.log = call[c].log, g.pc \in {"reply", "returned"},
           UNCHANGED <<wire, confirms>>
    PROVE  Logged(c, g)' /\ LogTrue(c, g)'
<1>1. Logged(c, call[c]) /\ LogTrue(c, call[c])
  BY DEF HonestInv, RepliesOK
<1>2. Logged(c, g)'
  BY <1>1 DEF Logged
<1>3. LogTrue(c, g)'
  BY <1>1 DEF LogTrue
<1>. QED
  BY <1>2, <1>3

LEMMA SkipTerminalSays ==
    ASSUME IInv, HonestInv, NEW c \in Calls, SkipTerminal(c) PROVE HonestInv'
<1>. DEFINE f == call[c]
<1>1. /\ f \in Frame /\ f.pc = "reply" /\ f.queue # <<>> /\ FrameOK(f)
      /\ ~IsQuestion(Head(f.queue)) /\ f.queue \in Seq(ReplyId) /\ f.latest \in Seq(ReplyId)
  BY FrameFields DEF SkipTerminal, IInv, FramesOK, TypeOK
<1>2. f.op \in Chained
  BY <1>1 DEF FrameOK
<1>3. PICK g : /\ call' = [call EXCEPT ![c] = g]
               /\ g.pc = f.pc /\ g.op = f.op /\ g.why = f.why /\ g.queue = Tail(f.queue)
               /\ g.latest = f.latest /\ g.log = f.log
  <2>. DEFINE h == [f EXCEPT !.queue = Tail(f.queue)]
  <2>1. /\ h.pc = f.pc /\ h.op = f.op /\ h.why = f.why /\ h.queue = Tail(f.queue)
        /\ h.latest = f.latest /\ h.log = f.log
    BY <1>1, Zenon DEF Frame
  <2>2. call' = [call EXCEPT ![c] = h]
    BY Zenon DEF SkipTerminal
  <2>. QED
    BY <2>1, <2>2, Zenon
<1>4. UNCHANGED <<asked, raised, wire, confirms>>
  BY DEF SkipTerminal, human, gateway
<1>5. \A p \in Pending(f) : p = Head(f.queue) \/ p \in Pending(g)
  BY <1>1, <1>3, PendingTail
<1>6. Entries(g)
  <2>1. Entries(f)
    BY DEF HonestInv, RepliesOK
  <2>2. Len(Tail(f.queue)) <= Len(f.queue) /\ Len(Tail(f.queue)) \in Nat
        /\ Len(f.queue) \in Nat /\ Len(f.latest) \in Nat
    <3>1. Tail(f.queue) \in Seq(ReplyId) /\ Len(Tail(f.queue)) = Len(f.queue) - 1
      BY <1>1, HeadTailProperties
    <3>2. Len(Tail(f.queue)) \in Nat /\ Len(f.queue) \in Nat /\ Len(f.latest) \in Nat
      BY <1>1, <3>1, LenProperties
    <3>. QED
      BY <3>1, <3>2
  <2>3. f.op \in Chained \ {"place_bracket"} => Len(f.queue) + Len(f.latest) <= 1
    BY <2>1 DEF Entries
  <2>4. f.op \in Chained \ {"place_bracket"} => Len(Tail(f.queue)) + Len(f.latest) <= 1
    <3>. DEFINE k == Len(Tail(f.queue))
                m == Len(f.queue)
                n == Len(f.latest)
    <3>1. k <= m /\ k \in Nat /\ m \in Nat /\ n \in Nat
      BY <2>2
    <3>. HIDE DEF k, m, n
    <3>2. m + n <= 1 => k + n <= 1
      BY <3>1
    <3>. QED
      BY <2>3, <3>2 DEF k, m, n
  <2>. QED
    BY <1>1, <1>3, <2>4 DEF Entries, ReplyStages
<1>7. Logged(c, g)' /\ LogTrue(c, g)'
  BY <1>1, <1>2, <1>3, <1>4, LogStands
<1>8. g.pc \in Conversing /\ \A p \in Pending(f) : p[3] > 0 => p \in Pending(g)
  BY <1>1, <1>3, <1>5 DEF Conversing, IsQuestion
<1>. QED
  BY <1>1, <1>2, <1>3, <1>4, <1>6, <1>7, <1>8, ReplyStepSays

\* The loop head: what a chain does with a response.
LEMMA StartRoundTalk ==
    ASSUME NEW f \in Frame, NEW response \in Seq(ReplyId),
           f.op # "place_bracket" => Len(response) <= 1
    PROVE  LET g == StartRound(f, response) IN
           /\ g.op = f.op /\ g.why = f.why /\ g.log = f.log
           /\ \/ g.pc = "reply" /\ g.queue = response /\ g.latest = <<>>
              \/ /\ g.pc = "returned" /\ g.queue = f.queue /\ g.latest = f.latest
                 /\ \A i \in DOMAIN response : response[i][3] = 0
<1>. DEFINE queue == IF f.op = "place_bracket" THEN response ELSE FirstEntry(response)
            h == [Goto(f, "reply") EXCEPT !.queue = queue, !.latest = <<>>]
<1>1. queue = response
  <2>1. CASE f.op # "place_bracket" /\ response # <<>>
    <3>1. Len(response) = 1
      <4>. DEFINE k == Len(response)
      <4>1. k \in Nat /\ k # 0
        BY <2>1, EmptySeq
      <4>2. k <= 1
        BY <2>1
      <4>. HIDE DEF k
      <4>3. k = 1
        BY <4>1, <4>2
      <4>. QED
        BY <4>3 DEF k
    <3>2. response = <<Head(response)>>
      BY <3>1
    <3>. QED
      BY <2>1, <3>2 DEF FirstEntry
  <2>. QED
    BY <2>1 DEF FirstEntry
<1>2. /\ h.op = f.op /\ h.why = f.why /\ h.log = f.log
      /\ h.pc = "reply" /\ h.queue = queue /\ h.latest = <<>>
  BY Zenon DEF Goto, Frame
<1>3. StartRound(f, response) = IF \E i \in DOMAIN queue : IsQuestion(queue[i])
                                THEN h ELSE Goto(f, "returned")
  BY Zenon DEF StartRound
<1>. HIDE DEF h, queue
<1>4. CASE \E i \in DOMAIN queue : IsQuestion(queue[i])
  BY <1>1, <1>2, <1>3, <1>4
<1>5. CASE ~ \E i \in DOMAIN queue : IsQuestion(queue[i])
  <2>1. \A i \in DOMAIN response : response[i] \in ReplyId /\ ~IsQuestion(response[i])
    BY <1>1, <1>5
  <2>2. \A i \in DOMAIN response : response[i][3] = 0
    BY <2>1 DEF ReplyId, IsQuestion
  <2>3. StartRound(f, response) = Goto(f, "returned")
    BY <1>3, <1>5
  <2>. QED
    BY <2>2, <2>3, GotoFields
<1>. QED
  BY <1>4, <1>5

LEMMA NextRoundSays ==
    ASSUME IInv, HonestInv, NEW c \in Calls, NextRound(c) PROVE HonestInv'
<1>. DEFINE f == call[c]
<1>1. /\ f \in Frame /\ f.pc = "reply" /\ f.queue = <<>> /\ FrameOK(f)
      /\ f.latest \in Seq(ReplyId)
  BY FrameFields DEF NextRound, IInv, FramesOK, TypeOK
<1>2. f.op \in Chained /\ Entries(f)
  BY <1>1 DEF FrameOK, HonestInv, RepliesOK
<1>3. f.op # "place_bracket" => Len(f.latest) <= 1
  <2>1. Len(f.queue) = 0 /\ Len(f.latest) \in Nat
    BY <1>1
  <2>. QED
    BY <1>2, <2>1 DEF Entries
<1>4. PICK g : /\ g = StartRound(f, f.latest) /\ call' = [call EXCEPT ![c] = g]
  BY DEF NextRound
<1>5. /\ g.op = f.op /\ g.why = f.why /\ g.log = f.log
      /\ \/ g.pc = "reply" /\ g.queue = f.latest /\ g.latest = <<>>
         \/ /\ g.pc = "returned" /\ g.queue = f.queue /\ g.latest = f.latest
            /\ \A i \in DOMAIN f.latest : f.latest[i][3] = 0
  BY <1>1, <1>3, <1>4, StartRoundTalk
<1>6. UNCHANGED <<asked, raised, wire, confirms>>
  BY DEF NextRound, human, gateway
<1>7. Pending(g) = Pending(f)
  BY <1>1, <1>5 DEF Pending
<1>8. Entries(g)
  <2>1. CASE g.pc = "reply"
    <3>1. Len(g.queue) = Len(f.latest) /\ Len(g.latest) = 0 /\ Len(f.latest) \in Nat
      BY <1>1, <1>5, <2>1
    <3>. QED
      BY <1>3, <1>5, <2>1, <3>1 DEF Entries, ReplyStages
  <2>2. CASE g.pc = "returned"
    <3>1. \A p \in Pending(g) : p[3] = 0
      BY <1>1, <1>5, <2>2 DEF Pending
    <3>2. g.queue = f.queue /\ g.latest = f.latest
      BY <1>5, <2>2
    <3>. QED
      BY <1>2, <1>5, <2>2, <3>1, <3>2 DEF Entries, ReplyStages
  <2>. QED
    BY <1>5, <2>1, <2>2
<1>9. Logged(c, g)' /\ LogTrue(c, g)'
  BY <1>1, <1>2, <1>5, <1>6, LogStands
<1>10. g.pc \in Conversing
  BY <1>5 DEF Conversing
<1>. QED
  BY <1>1, <1>2, <1>4, <1>5, <1>6, <1>7, <1>8, <1>9, <1>10, ReplyStepSays

\* A step to a stage that resolves the head of the queue.
LEMMA StageSays ==
    ASSUME IInv, HonestInv, NEW c \in Calls, NEW g,
           call' = [call EXCEPT ![c] = g],
           call[c].pc \in (ReplyStages \cup {"reply"}) \ {"declining"}, g.pc \in ReplyStages,
           IsQuestion(Head(call[c].queue)),
           g.op = call[c].op, g.why = call[c].why, g.queue = call[c].queue,
           g.latest = call[c].latest,
           UNCHANGED <<asked, raised, wire>>,
           confirms \subseteq confirms', \A e \in confirms' \ confirms : e.by = c,
           <<Head(g.queue), g.pc = "confirming">> \in g.log,
           LogTrue(c, g)'
    PROVE  HonestInv'
<1>1. call[c].op \in Chained /\ call[c].pc \notin {"raised", "declining"}
  <2>1. FrameOK(call[c])
    BY DEF IInv, FramesOK
  <2>. QED
    BY <2>1 DEF FrameOK, ReplyStages
<1>2. Entries(call[c]) /\ Logged(c, call[c])
  BY DEF HonestInv, RepliesOK
<1>3. Pending(g) = Pending(call[c])
  BY DEF Pending
<1>4. Entries(g)
  BY <1>2 DEF Entries, ReplyStages
<1>5. Logged(c, g)'
  <2>1. \A w \in wire : w.by = c => w.yes
    BY <1>1, <1>2 DEF Logged
  <2>2. CASE g.pc = "confirming"
    <3>1. <<Head(g.queue), TRUE>> \in g.log
      BY <2>2
    <3>. QED
      BY <2>1, <2>2, <3>1 DEF Logged
  <2>3. CASE g.pc # "confirming"
    <3>1. <<Head(g.queue), FALSE>> \in g.log
      BY <2>3
    <3>. QED
      BY <2>1, <2>3, <3>1 DEF Logged
  <2>. QED
    BY <2>2, <2>3
<1>6. g.pc \in Conversing
  BY DEF Conversing
<1>. QED
  BY <1>1, <1>3, <1>4, <1>5, <1>6, ReplyStepSays

LEMMA OpenReplySays ==
    ASSUME IInv, HonestInv, NEW c \in Calls, OpenReply(c) PROVE HonestInv'
<1>. DEFINE f == call[c]
            r == Head(f.queue)
<1>1. f \in Frame /\ f.pc = "reply" /\ IsQuestion(r) /\ UNCHANGED <<now, session, human, gateway>>
  BY DEF IInv, FramesOK, TypeOK, OpenReply
<1>2. CASE call' = [call EXCEPT ![c] = Raise(f, "resent")]
  BY <1>1, <1>2, RaiseSays
<1>3. CASE call' = [call EXCEPT ![c] =
            [Goto(f, IF Covers(f.auth, f.chain) THEN "reply dialog" ELSE "reply gate1")
                 EXCEPT !.log = NewRecord(@, r),
                        !.answered = IF f.op = "place_bracket" THEN @ \cup {r} ELSE @]]
  <2>1. PICK stage \in {"reply dialog", "reply gate1"} : call' = [call EXCEPT ![c] =
               [Goto(f, stage)
                 EXCEPT !.log = NewRecord(@, r),
                        !.answered = IF f.op = "place_bracket" THEN @ \cup {r} ELSE @]]
    BY <1>3
  <2>2. PICK g : /\ call' = [call EXCEPT ![c] = g]
                 /\ g.pc = stage /\ g.op = f.op /\ g.why = f.why /\ g.queue = f.queue
                 /\ g.latest = f.latest /\ g.log = f.log \cup {<<r, FALSE>>}
    <3>. DEFINE h == Goto(f, stage)
                k == [h EXCEPT !.log = NewRecord(h.log, r),
                               !.answered = IF f.op = "place_bracket" THEN h.answered \cup {r}
                                                                      ELSE h.answered]
    <3>1. h.log = f.log
      BY <1>1, GotoFields
    <3>2. /\ k.pc = stage /\ k.op = f.op /\ k.why = f.why /\ k.queue = f.queue
          /\ k.latest = f.latest /\ k.log = NewRecord(h.log, r)
      BY <1>1, Zenon DEF Goto, Frame
    <3>3. call' = [call EXCEPT ![c] = k]
      BY <2>1
    <3>. HIDE DEF h, k
    <3>. QED
      BY <3>1, <3>2, <3>3, Zenon DEF NewRecord
  <2>3. UNCHANGED <<asked, raised, wire, confirms>>
    BY <1>1 DEF human, gateway
  <2>. HIDE DEF r
  <2>4. LogTrue(c, g)'
    <3>1. LogTrue(c, f)
      BY DEF HonestInv, RepliesOK
    <3>2. f.log \subseteq g.log /\ \A e \in g.log : e[2] => e \in f.log
      <4>1. <<r, FALSE>>[2] = FALSE
        OBVIOUS
      <4>2. \A e \in g.log : e = <<r, FALSE>> \/ e \in f.log
        BY <2>2
      <4>3. ASSUME NEW e \in g.log, e[2] PROVE e \in f.log
        BY <4>1, <4>2, <4>3, Zenon
      <4>. QED
        BY <2>2, <4>3
    <3>3. g.op = f.op
      BY <2>2
    <3>. HIDE DEF f
    <3>. QED
      BY <2>3, <3>1, <3>2, <3>3 DEF LogTrue
  <2>5. <<Head(g.queue), g.pc = "confirming">> \in g.log
    <3>1. (g.pc = "confirming") = FALSE
      BY <2>2
    <3>2. <<Head(g.queue), FALSE>> \in g.log
      BY <2>2 DEF r
    <3>. QED
      BY <3>1, <3>2, Zenon
  <2>6. f.pc \in (ReplyStages \cup {"reply"}) \ {"declining"} /\ g.pc \in ReplyStages /\ IsQuestion(Head(f.queue))
    BY <1>1, <2>2 DEF ReplyStages, r
  <2>. QED
    BY <2>2, <2>3, <2>4, <2>5, <2>6, StageSays
<1>. QED
  BY <1>2, <1>3, Zenon DEF OpenReply

\* Gate 1 of a reply, and a declined dialog.
LEMMA NextStageSays ==
    ASSUME IInv, HonestInv, NEW c \in Calls, ReplyTouchID(c) \/ DeclineReply(c)
    PROVE  HonestInv'
<1>. DEFINE f == call[c]
<1>1. f \in Frame /\ f.pc \in {"reply gate1", "reply dialog"}
  BY DEF IInv, FramesOK, TypeOK, ReplyTouchID, DeclineReply
<1>2. PICK stage \in {"reply dialog", "declining"} : call' = [call EXCEPT ![c] = Goto(f, stage)]
  BY Zenon DEF ReplyTouchID, DeclineReply
<1>3. PICK g : /\ call' = [call EXCEPT ![c] = g]
               /\ g.pc = stage /\ g.op = f.op /\ g.why = f.why /\ g.queue = f.queue
               /\ g.latest = f.latest /\ g.log = f.log
  <2>. DEFINE k == Goto(f, stage)
  <2>1. /\ k.pc = stage /\ k.op = f.op /\ k.why = f.why /\ k.queue = f.queue
        /\ k.latest = f.latest /\ k.log = f.log
    BY <1>1, GotoFields
  <2>2. call' = [call EXCEPT ![c] = k]
    BY <1>2
  <2>. HIDE DEF k
  <2>. QED
    BY <2>1, <2>2, Zenon
<1>4. UNCHANGED <<asked, raised, wire, confirms>>
  BY DEF ReplyTouchID, DeclineReply, human, gateway
<1>5. Logged(c, f) /\ LogTrue(c, f) /\ Entries(f) /\ f.op \in Chained
  <2>1. FrameOK(f)
    BY DEF IInv, FramesOK
  <2>2. f.op \in Chained
    BY <1>1, <2>1 DEF FrameOK, ReplyStages
  <2>. QED
    BY <2>2 DEF HonestInv, RepliesOK
<1>6. LogTrue(c, g)'
  BY <1>3, <1>4, <1>5 DEF LogTrue
<1>7. <<Head(g.queue), g.pc = "confirming">> \in g.log
  <2>1. (g.pc = "confirming") = FALSE
    BY <1>3
  <2>2. <<Head(g.queue), FALSE>> \in g.log
    BY <1>1, <1>3, <1>5 DEF Logged
  <2>. QED
    BY <2>1, <2>2, Zenon
<1>8. f.pc \in (ReplyStages \cup {"reply"}) \ {"declining"} /\ g.pc \in ReplyStages /\ IsQuestion(Head(f.queue))
  BY <1>1, <1>3, <1>5 DEF ReplyStages, Entries
<1>. QED
  BY <1>3, <1>4, <1>6, <1>7, <1>8, StageSays

LEMMA ConfirmReplySays ==
    ASSUME IInv, HonestInv, NEW c \in Calls, ConfirmReply(c) PROVE HonestInv'
<1>. DEFINE f == call[c]
            r == Head(f.queue)
            e == [by |-> c, scope |-> f.scope, rid |-> r, label |-> f.auth.scope]
<1>1. f \in Frame /\ f.pc = "reply dialog" /\ confirms' = confirms \cup {e}
  BY DEF IInv, FramesOK, TypeOK, ConfirmReply
<1>2. e.by = c /\ e.rid = r
  OBVIOUS
<1>3. PICK g : /\ call' = [call EXCEPT ![c] = g]
               /\ g.pc = "confirming" /\ g.op = f.op /\ g.why = f.why /\ g.queue = f.queue
               /\ g.latest = f.latest /\ g.log = (f.log \ {<<r, FALSE>>}) \cup {<<r, TRUE>>}
  <2>. DEFINE h == Goto(f, "confirming")
              k == [h EXCEPT !.log = (h.log \ {<<r, FALSE>>}) \cup {<<r, TRUE>>}]
  <2>1. h.log = f.log
    BY <1>1, GotoFields
  <2>2. /\ k.pc = "confirming" /\ k.op = f.op /\ k.why = f.why /\ k.queue = f.queue
        /\ k.latest = f.latest /\ k.log = (h.log \ {<<r, FALSE>>}) \cup {<<r, TRUE>>}
    BY <1>1, Zenon DEF Goto, Frame
  <2>3. call' = [call EXCEPT ![c] = k]
    BY DEF ConfirmReply
  <2>. HIDE DEF h, k
  <2>. QED
    BY <2>1, <2>2, <2>3, Zenon
<1>4. UNCHANGED <<asked, raised, wire>>
  BY DEF ConfirmReply, gateway
<1>. HIDE DEF e, r
<1>5. Logged(c, f) /\ LogTrue(c, f) /\ Entries(f) /\ f.op \in Chained
  <2>1. FrameOK(f)
    BY DEF IInv, FramesOK
  <2>2. f.op \in Chained
    BY <1>1, <2>1 DEF FrameOK, ReplyStages
  <2>. QED
    BY <2>2 DEF HonestInv, RepliesOK
<1>6. LogTrue(c, g)'
  <2>1. ASSUME NEW d \in confirms', d.by = c, IsQuestion(d.rid) PROVE <<d.rid, TRUE>> \in g.log
    BY <1>1, <1>2, <1>3, <1>5, <2>1 DEF LogTrue
  <2>2. ASSUME NEW x \in g.log, x[2] PROVE \E d \in confirms' : d.by = c /\ d.rid = x[1]
    <3>1. CASE x = <<r, TRUE>>
      BY <1>1, <1>2, <3>1
    <3>2. CASE x \in f.log
      BY <1>1, <1>5, <2>2, <3>2 DEF LogTrue
    <3>. QED
      BY <1>3, <3>1, <3>2
  <2>3. ASSUME NEW w \in wire, w.by = c, IsQuestion(w.rid) PROVE <<w.rid, w.yes>> \in g.log
    <3>1. w.yes /\ <<w.rid, w.yes>> \in f.log
      BY <1>1, <1>5, <2>3 DEF Logged, LogTrue
    <3>. QED
      BY <1>3, <3>1
  <2>. QED
    BY <1>4, <2>1, <2>2, <2>3 DEF LogTrue
<1>7. <<Head(g.queue), g.pc = "confirming">> \in g.log
  <2>1. (g.pc = "confirming") = TRUE
    BY <1>3
  <2>2. <<Head(g.queue), TRUE>> \in g.log
    BY <1>3 DEF r
  <2>. QED
    BY <2>1, <2>2, Zenon
<1>8. f.pc \in (ReplyStages \cup {"reply"}) \ {"declining"} /\ g.pc \in ReplyStages /\ IsQuestion(Head(f.queue))
  BY <1>1, <1>3, <1>5 DEF ReplyStages, Entries
<1>9. confirms \subseteq confirms' /\ \A d \in confirms' \ confirms : d.by = c
  BY <1>1, <1>2
<1>. QED
  BY <1>3, <1>4, <1>6, <1>7, <1>8, <1>9, StageSays

-----------------------------------------------------------------------------
(* The requests: what the gateway asks. *)

\* The questions of a write are the first ones of their legs.
LEMMA WriteAsked ==
    ASSUME IInv, HonestInv, NEW c \in Calls, call[c].pc \in BeforeSend,
           NEW new \in SUBSET ReplyId,
           \A r \in new : r[1] = c /\ r[2] \in 1..NLegs(call[c].op) /\ r[3] = 1,
           asked' = asked \cup new, raised' = raised \cup new, wire \subseteq wire',
           \A d \in Calls \ {c} : call'[d] = call[d], call'[c].op = call[c].op
    PROVE  Newest' /\ LegsOK' /\ \A d \in Calls \ {c} : FollowedUp(d, call[d])'
<1>1. /\ raised \subseteq ReplyId /\ asked \subseteq raised
      /\ \A r \in raised : r[1] \in Calls /\ r[1] # c
  BY DEF IInv, FramesOK, TypeOK, ReplyId
<1>2. Newest'
  <2>1. ASSUME NEW q \in asked', NEW r \in raised', q[1] = r[1], q[2] = r[2]
        PROVE  r[3] <= q[3]
    <3>1. CASE q \in new
      BY <1>1, <2>1, <3>1
    <3>2. CASE q \in asked
      <4>1. r \in raised
        BY <1>1, <2>1, <3>2
      <4>. QED
        BY <2>1, <3>2, <4>1 DEF HonestInv, Newest
    <3>. QED
      BY <3>1, <3>2
  <2>. QED
    BY <2>1 DEF Newest
<1>3. LegsOK'
  <2>1. ASSUME NEW r \in raised' PROVE r[2] \in 1..NLegs(call'[r[1]].op)
    <3>1. CASE r \in new
      BY <3>1
    <3>2. CASE r \in raised
      <4>1. call'[r[1]].op = call[r[1]].op
        BY <1>1, <3>2
      <4>. QED
        BY <3>2, <4>1 DEF HonestInv, LegsOK
    <3>. QED
      BY <3>1, <3>2
  <2>. QED
    BY <2>1 DEF LegsOK
<1>4. ASSUME NEW d \in Calls \ {c} PROVE FollowedUp(d, call[d])'
  <2>1. FollowedUp(d, call[d]) /\ call'[d] = call[d]
    BY DEF HonestInv, RepliesOK
  <2>2. \A r : /\ SaidYes(d, r) => SaidYes(d, r)'
               /\ Waiting(call[d], r)' = Waiting(call[d], r)
    BY <2>1 DEF SaidYes, Waiting, Pending
  <2>3. /\ \A r \in raised' : r[1] = d => r \in raised
        /\ \A r \in asked' : r[1] = d => r \in asked
    OBVIOUS
  <2>. QED
    BY <2>1, <2>2, <2>3 DEF FollowedUp
<1>. QED
  BY <1>2, <1>3, <1>4

\* What follows an answered question: at most one question, of the same leg, not
\* older than the one answered.
LEMMA FollowsFacts ==
    ASSUME NEW r \in ReplyId, NEW yes, NEW n \in NextQuestions(r, yes)
    PROVE  /\ n \in Nat
           /\ \A s \in Follows(r, n) :
                s = <<r[1], r[2], n>> /\ s \in ReplyId /\ 0 < n /\ r[3] <= n
<1>1. r[1] \in Calls /\ r[2] \in 0..2 /\ r[3] \in Nat
  BY DEF ReplyId
<1>2. n \in Nat /\ (n = 0 \/ r[3] <= n)
  BY <1>1 DEF NextQuestions
<1>3. ASSUME NEW s \in Follows(r, n)
      PROVE  s = <<r[1], r[2], n>> /\ n # 0
  BY DEF Follows
<1>4. <<r[1], r[2], n>> \in ReplyId
  BY <1>1, <1>2 DEF ReplyId
<1>. QED
  BY <1>1, <1>2, <1>3, <1>4

\* An answered question leaves what a chain has still to look at in front of what
\* IBKR asks next.
LEMMA StillWaits ==
    ASSUME IInv, NEW c \in Calls, NEW r \in ReplyId, NEW yes,
           NEW n \in NextQuestions(r, yes), GatewayAnswers(c, r, yes, n),
           NEW d \in Calls, NEW g, call'[d] = g, g.op = call[d].op, g.pc = call[d].pc,
           g.queue = call[d].queue, g.latest = call[d].latest, FollowedUp(d, call[d])
    PROVE  FollowedUp(d, call[d])'
<1>. DEFINE s == <<r[1], r[2], n>>
<1>1. r \in asked /\ n \in Nat /\ r[3] \in Nat
      /\ \A q \in Follows(r, n) : q = s /\ r[3] <= n /\ 0 < n
  BY FollowsFacts DEF ReplyId, GatewayAnswers
<1>2. /\ asked' = (asked \ {r}) \cup Follows(r, n)
      /\ raised' = raised \cup Follows(r, n)
      /\ wire \subseteq wire'
  BY DEF GatewayAnswers
<1>3. s[1] = r[1] /\ s[2] = r[2] /\ s[3] = n
  OBVIOUS
<1>. HIDE DEF s
<1>4. \A q : /\ SaidYes(d, q) => SaidYes(d, q)'
             /\ Waiting(call[d], q)' = Waiting(call[d], q)
  BY <1>2 DEF SaidYes, Waiting, Pending
<1>5. ASSUME call[d].op \in Chained, call[d].pc \in Conversing,
             NEW q \in Follows(r, n), q[1] = d
      PROVE  Waiting(call[d], q)
  <2>1. q = s /\ r[3] <= n /\ r[1] = d
    BY <1>1, <1>3, <1>5
  <2>2. Waiting(call[d], r)
    BY <1>1, <1>5, <2>1 DEF FollowedUp
  <2>3. PICK p \in Pending(call[d]) : p[2] = r[2] /\ 0 < p[3] /\ p[3] <= r[3]
    BY <2>2 DEF Waiting
  <2>4. p \in ReplyId
    BY FrameFields DEF IInv, FramesOK, TypeOK, Pending
  <2>5. p[3] \in Nat
    BY <2>4 DEF ReplyId
  <2>. QED
    BY <1>1, <1>3, <2>1, <2>3, <2>5 DEF Waiting
<1>. QED
  BY <1>2, <1>4, <1>5 DEF FollowedUp

LEMMA AnswerAsked ==
    ASSUME IInv, HonestInv, NEW c \in Calls, NEW r \in ReplyId, NEW yes,
           NEW n \in NextQuestions(r, yes), GatewayAnswers(c, r, yes, n),
           \A d \in Calls \ {c} : call'[d] = call[d], call'[c].op = call[c].op
    PROVE  Newest' /\ LegsOK' /\ \A d \in Calls \ {c} : FollowedUp(d, call[d])'
<1>. DEFINE s == <<r[1], r[2], n>>
<1>1. /\ raised \subseteq ReplyId /\ asked \subseteq raised /\ r \in asked
      /\ \A q \in raised : q[1] \in Calls
  BY DEF IInv, FramesOK, TypeOK, ReplyId, GatewayAnswers
<1>2. /\ n \in Nat /\ r[3] \in Nat
      /\ \A q \in Follows(r, n) : q = s /\ r[3] <= n /\ 0 < n
  BY FollowsFacts DEF ReplyId
<1>3. /\ asked' = (asked \ {r}) \cup Follows(r, n)
      /\ raised' = raised \cup Follows(r, n)
      /\ wire \subseteq wire'
  BY DEF GatewayAnswers
<1>4. s[1] = r[1] /\ s[2] = r[2] /\ s[3] = n
  OBVIOUS
<1>. HIDE DEF s
<1>5. Newest'
  <2>1. ASSUME NEW q \in asked', NEW t \in raised', q[1] = t[1], q[2] = t[2]
        PROVE  t[3] <= q[3]
    <3>1. CASE q \in Follows(r, n)
      <4>1. q = s /\ r[3] <= n
        BY <1>2, <3>1
      <4>2. CASE t \in Follows(r, n)
        BY <1>2, <1>4, <4>1, <4>2
      <4>3. CASE t \in raised
        <5>1. t[1] = r[1] /\ t[2] = r[2]
          BY <1>4, <2>1, <4>1
        <5>2. t[3] <= r[3] /\ t[3] \in Nat
          BY <1>1, <4>3, <5>1 DEF HonestInv, Newest, ReplyId
        <5>. QED
          BY <1>2, <1>4, <4>1, <5>2
      <4>. QED
        BY <1>3, <4>2, <4>3
    <3>2. CASE q \in asked /\ q # r
      <4>1. CASE t \in raised
        BY <2>1, <3>2, <4>1 DEF HonestInv, Newest
      <4>2. CASE t \in Follows(r, n)
        <5>1. q[1] = r[1] /\ q[2] = r[2]
          BY <1>2, <1>4, <2>1, <4>2
        <5>2. q \in raised /\ r \in raised
          BY <1>1, <3>2
        <5>3. q[3] <= r[3] /\ r[3] <= q[3]
          BY <1>1, <3>2, <5>1, <5>2 DEF HonestInv, Newest
        <5>4. q[3] \in Nat
          BY <1>1, <5>2 DEF ReplyId
        <5>5. q[3] = r[3]
          BY <1>2, <5>3, <5>4
        <5>6. q = r
          BY <1>1, <5>1, <5>2, <5>5 DEF ReplyId
        <5>. QED
          BY <3>2, <5>6
      <4>. QED
        BY <1>3, <4>1, <4>2
    <3>. QED
      BY <1>3, <3>1, <3>2
  <2>. QED
    BY <2>1 DEF Newest
<1>6. LegsOK'
  <2>1. \A d \in Calls : call'[d].op = call[d].op
    OBVIOUS
  <2>2. ASSUME NEW q \in raised' PROVE q[2] \in 1..NLegs(call'[q[1]].op)
    <3>1. CASE q \in raised
      BY <1>1, <2>1, <3>1 DEF HonestInv, LegsOK
    <3>2. CASE q \in Follows(r, n)
      <4>1. q[1] = r[1] /\ q[2] = r[2]
        BY <1>2, <1>4, <3>2
      <4>2. r \in raised /\ r[1] \in Calls
        BY <1>1
      <4>. QED
        BY <2>1, <4>1, <4>2 DEF HonestInv, LegsOK
    <3>. QED
      BY <1>3, <3>1, <3>2
  <2>. QED
    BY <2>2 DEF LegsOK
<1>7. ASSUME NEW d \in Calls \ {c} PROVE FollowedUp(d, call[d])'
  <2>1. FollowedUp(d, call[d]) /\ call'[d] = call[d]
    BY DEF HonestInv, RepliesOK
  <2>. QED
    BY <2>1, StillWaits
<1>. QED
  BY <1>5, <1>6, <1>7

-----------------------------------------------------------------------------
(* The requests: what the call makes of the answer. *)

\* A method that is no chain has sent its request and ends.
LEMMA LooseEnd ==
    ASSUME HonestInv, NEW c \in Calls, call[c].pc = "send", call[c].op \notin Chained,
           call'[c].pc \in {"returned", "raised"},
           call'[c].op = call[c].op, call'[c].queue = call[c].queue,
           call'[c].latest = call[c].latest,
           call'[c].pc = "returned" => call'[c].why = call[c].why
    PROVE  RepliesOK(c, call[c])'
<1>1. /\ call[c].why = "" /\ call[c].queue = <<>> /\ call[c].latest = <<>>
  BY DEF HonestInv, RepliesOK, Fresh, BeforeSend
<1>2. Fresh(c, call[c])' /\ DeclineTold(c, call[c])'
  BY <1>1 DEF Fresh, DeclineTold, BeforeSend
<1>3. Entries(call[c])'
  <2>1. Pending(call[c])' = {}
    <3>1. call'[c].queue = <<>> /\ call'[c].latest = <<>>
      BY <1>1
    <3>. QED
      BY <3>1 DEF Pending
  <2>. QED
    BY <2>1 DEF Entries, ReplyStages
<1>4. FollowedUp(c, call[c])' /\ Logged(c, call[c])' /\ LogTrue(c, call[c])'
  BY DEF FollowedUp, Logged, LogTrue
<1>. QED
  BY <1>2, <1>3, <1>4 DEF RepliesOK

LEMMA SendReplySays ==
    ASSUME IInv, HonestInv, NEW c \in Calls, SendReply(c) PROVE HonestInv'
<1>. DEFINE f == call[c]
            r == f.rid
<1>1. /\ call \in [Calls -> Frame] /\ f \in Frame /\ f.pc = "send" /\ f.op = "reply"
      /\ r \in ReplyId
  BY FrameFields DEF IInv, FramesOK, TypeOK, SendReply
<1>2. PICK n \in NextQuestions(r, f.yes) : GatewayAnswers(c, r, f.yes, n)
  BY DEF SendReply
<1>3. PICK g \in {Goto(f, "returned"), Raise(f, "lost")} : call' = [call EXCEPT ![c] = g]
  BY DEF SendReply, AnswerLost
<1>4. /\ g.op = f.op /\ g.pc \in {"returned", "raised"}
      /\ g.queue = f.queue /\ g.latest = f.latest
      /\ g.pc = "returned" => g.why = f.why
  BY <1>1, <1>3, GotoFields, RaiseFields
<1>5. call'[c] = g /\ \A d \in Calls \ {c} : call'[d] = call[d]
  BY <1>1, <1>3
<1>6. Newest' /\ LegsOK' /\ \A d \in Calls \ {c} : FollowedUp(d, call[d])'
  <2>. HIDE DEF r
  <2>. QED
    BY <1>1, <1>2, <1>4, <1>5, AnswerAsked
<1>7. RepliesOK(c, call[c])'
  BY <1>1, <1>4, <1>5, LooseEnd DEF Chained
<1>8. wire \subseteq wire' /\ \A w \in wire' \ wire : w.by = c
  BY <1>2, AnswerFields DEF GatewayAnswers
<1>9. UNCHANGED confirms
  BY DEF SendReply, human
<1>. QED
  BY <1>5, <1>6, <1>7, <1>8, <1>9, OneSays

\* What is said of a chain whose write has been answered.
LEMMA AnsweredWrite ==
    ASSUME IInv, HonestInv, NEW c \in Calls, call[c].pc = "send", call[c].op \in Chained,
           NEW g, call'[c] = g, NEW response \in Seq(ReplyId), NEW new,
           raised' = raised \cup new, asked' = asked \cup new,
           \A s \in new : s[3] = 1 /\ \E i \in DOMAIN response : response[i] = s,
           NEW w, wire' = wire \cup {w}, w.yes, ~IsQuestion(w.rid), UNCHANGED confirms,
           call[c].op # "place_bracket" => Len(response) <= 1,
           g.op = call[c].op, g.why = call[c].why, g.log = call[c].log,
           \/ g.pc = "reply" /\ g.queue = response /\ g.latest = <<>>
           \/ /\ g.pc = "returned" /\ g.queue = call[c].queue /\ g.latest = call[c].latest
              /\ \A i \in DOMAIN response : response[i][3] = 0
    PROVE  RepliesOK(c, call[c])'
<1>. DEFINE f == call[c]
<1>1. /\ f.why = "" /\ f.queue = <<>> /\ f.latest = <<>> /\ f.log = {}
      /\ \A v \in wire : v.by = c => v.yes /\ ~IsQuestion(v.rid)
  BY DEF HonestInv, RepliesOK, Fresh, BeforeSend
<1>2. \A r \in raised : r[1] # c
  BY DEF IInv, FramesOK, BeforeSend
<1>3. Fresh(c, call[c])' /\ DeclineTold(c, call[c])'
  BY <1>1 DEF Fresh, DeclineTold, BeforeSend
<1>4. Entries(call[c])'
  <2>1. CASE g.pc = "reply"
    <3>1. Len(g.queue) = Len(response) /\ Len(g.latest) = 0 /\ Len(response) \in Nat
      BY <2>1
    <3>. QED
      BY <2>1, <3>1 DEF Entries, ReplyStages
  <2>2. CASE g.pc = "returned"
    <3>1. g.queue = <<>> /\ g.latest = <<>>
      BY <1>1, <2>2
    <3>2. Pending(g) = {} /\ Len(g.queue) = 0 /\ Len(g.latest) = 0
      BY <3>1 DEF Pending
    <3>. QED
      BY <2>2, <3>2 DEF Entries, ReplyStages
  <2>. QED
    BY <2>1, <2>2
<1>5. FollowedUp(c, call[c])'
  <2>1. ASSUME NEW s \in new PROVE Waiting(g, s)
    <3>1. PICK i \in DOMAIN response : response[i] = s
      OBVIOUS
    <3>2. g.pc = "reply" /\ g.queue = response
      BY <3>1
    <3>3. s \in Pending(g)
      BY <3>1, <3>2 DEF Pending
    <3>. QED
      BY <3>3 DEF Waiting
  <2>2. /\ \A r \in raised' : r[1] = c => r \in new
        /\ \A r \in asked' : r[1] = c => r \in new
    BY <1>2 DEF IInv, FramesOK, TypeOK
  <2>3. Waiting(call[c], 0)' = Waiting(g, 0) /\ \A s : Waiting(call[c], s)' = Waiting(g, s)
    BY DEF Waiting, Pending
  <2>. QED
    BY <2>1, <2>2, <2>3 DEF FollowedUp
<1>6. Logged(c, call[c])'
  BY <1>1 DEF Logged, ReplyStages
<1>7. LogTrue(c, call[c])'
  <2>1. \A d \in confirms : d.by = c => ~IsQuestion(d.rid)
    BY <1>1 DEF HonestInv, RepliesOK, LogTrue
  <2>2. \A v \in wire' : v.by = c => ~IsQuestion(v.rid)
    BY <1>1
  <2>. QED
    BY <1>1, <2>1, <2>2 DEF LogTrue
<1>. QED
  BY <1>3, <1>4, <1>5, <1>6, <1>7 DEF RepliesOK

LEMMA SendWriteSays ==
    ASSUME IInv, HonestInv, NEW c \in Calls, SendWrite(c) PROVE HonestInv'
<1>. DEFINE e == call[c]
            f == [e EXCEPT !.sent = e.sent + 1]
            w == Write(c, f)
<1>1. call \in [Calls -> Frame] /\ e \in Frame /\ CallOK(c, e)
  BY DEF IInv, FramesOK, TypeOK
<1>2. f \in Frame /\ \A x : [e EXCEPT !.sent = x].op = e.op
  <2>1. e.sent + 1 \in Nat
    BY <1>1, FrameFields
  <2>. QED
    BY <1>1, <2>1, Zenon DEF Frame
<1>3. /\ f.pc = e.pc /\ f.op = e.op /\ f.rid = e.rid /\ f.why = e.why
      /\ f.queue = e.queue /\ f.latest = e.latest /\ f.log = e.log
  BY <1>1, Zenon DEF Frame
<1>4. /\ f.pc = "send" /\ f.op # "reply"
      /\ \E q \in [1..NLegs(f.op) -> IF f.op = "cancel" \/ MaxQuestions = 0
                                   THEN {0} ELSE {0, 1}] :
           LET response == [i \in 1..NLegs(f.op) |-> <<c, i, q[i]>>]
               questions == {<<c, i, q[i]>> : i \in {j \in 1..NLegs(f.op) : q[j] > 0}}
           IN  /\ asked' = asked \cup questions
               /\ raised' = raised \cup questions
               /\ \/ call' = [call EXCEPT ![c] = Receive(f, response)]
                  \/ call' = [call EXCEPT ![c] = AnswerLost(f)]
      /\ wire' = wire \cup {w}
      /\ UNCHANGED <<now, session, human>>
  BY Zenon DEF SendWrite
<1>5. w.by = c /\ w.rid = e.rid /\ w.yes
  BY <1>3 DEF Write
<1>. HIDE DEF f, w
<1>6. PICK q \in [1..NLegs(e.op) -> {0, 1}] :
           LET response == [i \in 1..NLegs(e.op) |-> <<c, i, q[i]>>]
               questions == {<<c, i, q[i]>> : i \in {j \in 1..NLegs(e.op) : q[j] > 0}}
           IN  /\ asked' = asked \cup questions
               /\ raised' = raised \cup questions
               /\ \/ call' = [call EXCEPT ![c] = Receive(f, response)]
                  \/ call' = [call EXCEPT ![c] = AnswerLost(f)]
  BY <1>3, <1>4
<1>. DEFINE response == [i \in 1..NLegs(e.op) |-> <<c, i, q[i]>>]
            new == {<<c, i, q[i]>> : i \in {j \in 1..NLegs(e.op) : q[j] > 0}}
<1>7. response \in Seq(ReplyId) /\ new \in SUBSET ReplyId
  BY WriteResponse
<1>8. ASSUME NEW s \in new
      PROVE  /\ s[1] = c /\ s[2] \in 1..NLegs(e.op) /\ s[3] = 1
             /\ \E i \in DOMAIN response : response[i] = s
  <2>1. PICK i \in 1..NLegs(e.op) : q[i] > 0 /\ s = <<c, i, q[i]>>
    OBVIOUS
  <2>2. q[i] = 1
    BY <2>1
  <2>. QED
    BY <2>1, <2>2
<1>9. asked' = asked \cup new /\ raised' = raised \cup new
  BY <1>6
<1>10. Len(response) = NLegs(e.op)
  BY DEF NLegs
<1>11. PICK g \in {Receive(f, response), Raise(f, "lost")} : call' = [call EXCEPT ![c] = g]
  BY <1>6 DEF AnswerLost
<1>. HIDE DEF response, new
<1>12. call'[c] = g /\ \A d \in Calls \ {c} : call'[d] = call[d]
  BY <1>1, <1>11
<1>13. UNCHANGED confirms /\ wire' = wire \cup {w}
  BY <1>4 DEF human
<1>14. g.op = e.op
  BY <1>2, <1>3, <1>7, <1>11, ReceiveFields, RaiseFields
<1>15. Newest' /\ LegsOK' /\ \A d \in Calls \ {c} : FollowedUp(d, call[d])'
  <2>1. e.pc \in BeforeSend
    BY <1>3, <1>4 DEF BeforeSend
  <2>2. wire \subseteq wire'
    BY <1>13
  <2>. QED
    BY <1>7, <1>8, <1>9, <1>12, <1>14, <2>1, <2>2, WriteAsked
<1>16. RepliesOK(c, call[c])'
  <2>1. CASE e.op \notin Chained
    <3>1. /\ g.pc \in {"returned", "raised"} /\ g.queue = e.queue /\ g.latest = e.latest
          /\ g.pc = "returned" => g.why = e.why
      <4>1. CASE g = Receive(f, response)
        <5>1. g = Goto(f, "returned")
          BY <1>3, <2>1, <4>1 DEF Receive
        <5>. QED
          BY <1>2, <1>3, <5>1, GotoFields
      <4>2. CASE g = Raise(f, "lost")
        BY <1>2, <1>3, <4>2, RaiseFields
      <4>. QED
        BY <1>11, <4>1, <4>2
    <3>. QED
      BY <1>3, <1>4, <1>12, <1>14, <2>1, <3>1, LooseEnd
  <2>2. CASE e.op \in Chained
    <3>1. ~IsQuestion(w.rid)
      BY <1>1, <1>5, <2>2 DEF CallOK, IdentityOK, Itself, IsQuestion, Chained
    <3>2. CASE g = Receive(f, response)
      <4>1. f.op # "place_bracket" => Len(response) <= 1
        BY <1>3, <1>10 DEF NLegs
      <4>2. g = StartRound(f, response)
        BY <1>3, <2>2, <3>2 DEF Receive
      <4>3. /\ g.op = f.op /\ g.why = f.why /\ g.log = f.log
            /\ \/ g.pc = "reply" /\ g.queue = response /\ g.latest = <<>>
               \/ /\ g.pc = "returned" /\ g.queue = f.queue /\ g.latest = f.latest
                  /\ \A i \in DOMAIN response : response[i][3] = 0
        BY <1>2, <1>7, <4>1, <4>2, StartRoundTalk
      <4>4. /\ g.op = e.op /\ g.why = e.why /\ g.log = e.log
            /\ \/ g.pc = "reply" /\ g.queue = response /\ g.latest = <<>>
               \/ /\ g.pc = "returned" /\ g.queue = e.queue /\ g.latest = e.latest
                  /\ \A i \in DOMAIN response : response[i][3] = 0
        BY <1>3, <4>3
      <4>5. \A s \in new : s[3] = 1 /\ \E i \in DOMAIN response : response[i] = s
        BY <1>8
      <4>6. w.yes /\ wire' = wire \cup {w} /\ UNCHANGED confirms
        BY <1>5, <1>13
      <4>7. e.pc = "send" /\ (e.op # "place_bracket" => Len(response) <= 1)
        BY <1>3, <1>4, <4>1
      <4>. QED
        BY <1>7, <1>9, <1>12, <2>2, <3>1, <4>4, <4>5, <4>6, <4>7, AnsweredWrite
    <3>3. CASE g = Raise(f, "lost")
      <4>1. /\ g.pc = "raised" /\ g.queue = e.queue /\ g.latest = e.latest
            /\ g.log = e.log /\ g.why = "lost"
        BY <1>2, <1>3, <3>3, RaiseFields
      <4>2. DeclineTold(c, call[c])'
        BY <1>12, <4>1 DEF DeclineTold
      <4>3. wire \subseteq wire' /\ \A v \in wire' \ wire : ~IsQuestion(v.rid)
        BY <1>13, <3>1
      <4>. QED
        BY <1>12, <1>13, <1>14, <4>1, <4>2, <4>3, RaisedSays
    <3>. QED
      BY <1>11, <3>2, <3>3
  <2>. QED
    BY <2>1, <2>2
<1>17. wire \subseteq wire' /\ \A v \in wire' \ wire : v.by = c
  BY <1>5, <1>13
<1>. QED
  BY <1>12, <1>13, <1>15, <1>16, <1>17, OneSays

\* The response to a reply has an entry for the leg of the question.
LEMMA OwnEntry ==
    ASSUME NEW r \in ReplyId, NEW n \in Nat, r[2] \in 1..NLegs(call[r[1]].op)
    PROVE  \E i \in DOMAIN ReplyResponse(r, n) : ReplyResponse(r, n)[i] = <<r[1], r[2], n>>
<1>1. CASE ~Restates
  <2>1. ReplyResponse(r, n) = << <<r[1], r[2], n>> >>
    BY <1>1 DEF ReplyResponse
  <2>. QED
    BY <2>1
<1>2. CASE Restates
  <2>. DEFINE m == NLegs(call[r[1]].op)
              e(i) == IF i = r[2] THEN <<r[1], i, n>> ELSE CurrentEntry(r[1], i)
  <2>1. ReplyResponse(r, n) = [i \in 1..m |-> e(i)] /\ r[2] \in 1..m
    BY <1>2 DEF ReplyResponse
  <2>2. e(r[2]) = <<r[1], r[2], n>>
    OBVIOUS
  <2>. HIDE DEF m, e
  <2>3. ReplyResponse(r, n)[r[2]] = <<r[1], r[2], n>> /\ r[2] \in DOMAIN ReplyResponse(r, n)
    BY <2>1, <2>2
  <2>. QED
    BY <2>3
<1>. QED
  BY <1>1, <1>2

LEMMA OneEntry ==
    ASSUME NEW r \in ReplyId, NEW n \in Nat, call[r[1]].op # "place_bracket"
    PROVE  Len(ReplyResponse(r, n)) = 1
<1>1. CASE ~Restates
  <2>1. ReplyResponse(r, n) = << <<r[1], r[2], n>> >>
    BY <1>1 DEF ReplyResponse
  <2>. QED
    BY <2>1
<1>2. CASE Restates
  <2>. DEFINE e(i) == IF i = r[2] THEN <<r[1], i, n>> ELSE CurrentEntry(r[1], i)
  <2>1. ReplyResponse(r, n) = [i \in 1..1 |-> e(i)]
    BY <1>2 DEF ReplyResponse, NLegs
  <2>. HIDE DEF e
  <2>. QED
    BY <2>1
<1>. QED
  BY <1>1, <1>2

\* What a chain still has to look at after a yes: everything but the question it
\* has answered, and what IBKR asks next.
LEMMA PendingAfterYes ==
    ASSUME NEW f \in Frame, f.queue # <<>>, NEW response \in Seq(ReplyId), NEW g,
           g.queue = Tail(f.queue), g.latest = f.latest \o response
    PROVE  /\ \A p \in Pending(f) : p = Head(f.queue) \/ p \in Pending(g)
           /\ \A i \in DOMAIN response : response[i] \in Pending(g)
<1>. DEFINE p == f.latest
<1>1. p \in Seq(ReplyId)
  BY FrameFields
<1>2. g.latest = p \o response
  OBVIOUS
<1>. HIDE DEF p
<1>3. /\ DOMAIN g.latest = 1..(Len(p) + Len(response))
      /\ \A i \in 1..(Len(p) + Len(response)) :
           g.latest[i] = IF i <= Len(p) THEN p[i] ELSE response[i - Len(p)]
  BY <1>1, <1>2, ConcatProperties
<1>4. /\ DOMAIN p = 1..Len(p) /\ DOMAIN response = 1..Len(response)
      /\ Len(p) \in Nat /\ Len(response) \in Nat
  BY <1>1
<1>5. ASSUME NEW i \in DOMAIN p PROVE \E j \in DOMAIN g.latest : g.latest[j] = p[i]
  <2>1. i \in 1..(Len(p) + Len(response)) /\ i <= Len(p)
    BY <1>4
  <2>. QED
    BY <1>3, <2>1
<1>6. ASSUME NEW i \in DOMAIN response PROVE response[i] \in Pending(g)
  <2>. DEFINE j == Len(p) + i
  <2>1. j \in 1..(Len(p) + Len(response)) /\ ~(j <= Len(p)) /\ j - Len(p) = i
    BY <1>4
  <2>. HIDE DEF j
  <2>2. g.latest[j] = response[i] /\ j \in DOMAIN g.latest
    BY <1>3, <2>1
  <2>. QED
    BY <2>2 DEF Pending
<1>7. \A i \in DOMAIN f.latest : \E j \in DOMAIN g.latest : g.latest[j] = f.latest[i]
  BY <1>5 DEF p
<1>. QED
  BY <1>6, <1>7, PendingTail

\* What is said of a chain whose yes has been answered: what was waiting behind
\* the question still waits, and no question behind it is older.
LEMMA AnsweredYes ==
    ASSUME IInv, HonestInv, NEW c \in Calls, call[c].pc = "confirming",
           NEW r, r = Head(call[c].queue), NEW n \in NextQuestions(r, TRUE),
           GatewayAnswers(c, r, TRUE, n), UNCHANGED confirms,
           NEW g, call'[c] = g, NEW response, response = ReplyResponse(r, n),
           g.pc = "reply", g.op = call[c].op, g.why = call[c].why, g.log = call[c].log,
           g.queue = Tail(call[c].queue), g.latest = call[c].latest \o response
    PROVE  RepliesOK(c, call[c])'
<1>. DEFINE f == call[c]
            s == <<r[1], r[2], n>>
            v == Answer(c, r, TRUE)
<1>1. /\ f \in Frame /\ FrameOK(f) /\ CallOK(c, f) /\ f.pc = "confirming"
      /\ f.queue # <<>> /\ f.queue \in Seq(ReplyId) /\ f.latest \in Seq(ReplyId)
  BY FrameFields DEF IInv, FramesOK, TypeOK, FrameOK, ReplyStages
<1>2. f.op \in Chained /\ f.pc \in Conversing
  BY <1>1 DEF FrameOK, ReplyStages, Conversing
<1>3. /\ Fresh(c, f) /\ Entries(f) /\ FollowedUp(c, f) /\ Logged(c, f) /\ LogTrue(c, f)
  BY DEF HonestInv, RepliesOK
<1>4. r \in ReplyId /\ r[1] = c /\ IsQuestion(r)
  <2>1. r \in ReplyId
    BY <1>1, HeadTailProperties
  <2>2. r[1] = c
    <3>. DEFINE q == f.queue
    <3>1. q \in Seq(ReplyId) /\ q # <<>> /\ \A i \in DOMAIN q : q[i][1] = c
      BY <1>1 DEF CallOK, IdentityOK
    <3>. HIDE DEF q
    <3>2. Head(q)[1] = c
      BY <3>1, OwnTail
    <3>. QED
      BY <3>2 DEF q
  <2>. QED
    BY <1>1, <1>3, <2>1, <2>2 DEF Entries, ReplyStages
<1>5. /\ r \in asked /\ asked \subseteq raised /\ raised \subseteq ReplyId
      /\ asked' = (asked \ {r}) \cup Follows(r, n)
      /\ raised' = raised \cup Follows(r, n)
      /\ wire' = wire \cup {v} /\ v.by = c /\ v.rid = r /\ v.yes = TRUE
  <2>1. v.by = c /\ v.rid = r /\ v.yes = TRUE
    BY Zenon DEF Answer
  <2>2. GatewayAnswers(c, r, TRUE, n)
    OBVIOUS
  <2>3. asked \subseteq raised /\ raised \subseteq ReplyId
    BY DEF IInv, FramesOK, TypeOK
  <2>. QED
    BY <2>1, <2>2, <2>3 DEF GatewayAnswers
<1>. HIDE DEF v
<1>6. n \in Nat /\ \A q \in Follows(r, n) : q = s /\ 0 < n
  BY <1>4, FollowsFacts
<1>7. response \in Seq(ReplyId)
  BY <1>4, <1>6, ReplyResponseType
<1>8. s \in Pending(g) /\ \A p \in Pending(f) : p = r \/ p \in Pending(g)
  <2>1. r[2] \in 1..NLegs(call[r[1]].op)
    BY <1>5 DEF HonestInv, LegsOK
  <2>2. PICK i \in DOMAIN response : response[i] = s
    BY <1>4, <1>6, <2>1, OwnEntry
  <2>. HIDE DEF s
  <2>3. /\ \A p \in Pending(f) : p = Head(f.queue) \/ p \in Pending(g)
        /\ \A j \in DOMAIN response : response[j] \in Pending(g)
    BY <1>1, <1>7, PendingAfterYes
  <2>. QED
    BY <2>2, <2>3
<1>9. SaidYes(c, r)' /\ \A q : SaidYes(c, q) => SaidYes(c, q)'
  BY <1>5 DEF SaidYes
<1>10. s[2] = r[2] /\ s[3] = n
  OBVIOUS
<1>. HIDE DEF s
<1>11. \A q \in Follows(r, n) : Waiting(g, q)
  BY <1>6, <1>8, <1>10 DEF Waiting
<1>12. ASSUME NEW q \in raised, q[1] = c, Waiting(f, q) PROVE q = r \/ Waiting(g, q)
  <2>1. PICK p \in Pending(f) : p[2] = q[2] /\ 0 < p[3] /\ p[3] <= q[3]
    BY <1>12 DEF Waiting
  <2>2. CASE p \in Pending(g)
    BY <2>1, <2>2 DEF Waiting
  <2>3. CASE p = r
    <3>1. q[3] <= r[3] /\ r[3] <= q[3]
      BY <1>4, <1>5, <1>12, <2>1, <2>3 DEF HonestInv, Newest
    <3>2. q \in ReplyId
      BY <1>5
    <3>3. q[3] = r[3]
      BY <1>4, <3>1, <3>2 DEF ReplyId
    <3>4. q[1] = r[1] /\ q[2] = r[2]
      BY <1>4, <1>12, <2>1, <2>3
    <3>5. q = r
      BY <1>4, <3>2, <3>3, <3>4 DEF ReplyId
    <3>. QED
      BY <3>5
  <2>. QED
    BY <1>8, <2>2, <2>3
<1>13. FollowedUp(c, call[c])'
  <2>1. \A q : Waiting(call[c], q)' = Waiting(g, q)
    BY DEF Waiting, Pending
  <2>2. /\ \A q \in raised : q[1] = c => SaidYes(c, q) \/ Waiting(f, q)
        /\ \A q \in asked : q[1] = c => Waiting(f, q)
    BY <1>2, <1>3 DEF FollowedUp
  <2>3. ASSUME NEW q \in raised', q[1] = c PROVE SaidYes(c, q)' \/ Waiting(g, q)
    <3>1. CASE q \in Follows(r, n)
      BY <1>11, <3>1
    <3>2. CASE q \in raised
      <4>1. SaidYes(c, q) \/ Waiting(f, q)
        BY <2>2, <2>3, <3>2
      <4>. QED
        BY <1>9, <1>12, <2>3, <3>2, <4>1
    <3>. QED
      BY <1>5, <3>1, <3>2
  <2>4. ASSUME NEW q \in asked', q[1] = c PROVE Waiting(g, q)
    <3>1. CASE q \in Follows(r, n)
      BY <1>11, <3>1
    <3>2. CASE q \in asked /\ q # r
      <4>1. Waiting(f, q) /\ q \in raised
        BY <1>5, <2>2, <2>4, <3>2
      <4>. QED
        BY <1>12, <2>4, <3>2, <4>1
    <3>. QED
      BY <1>5, <3>1, <3>2
  <2>. QED
    BY <2>1, <2>3, <2>4 DEF FollowedUp
<1>14. Fresh(c, call[c])' /\ DeclineTold(c, call[c])'
  <2>1. g.why = ""
    BY <1>1, <1>3 DEF Fresh
  <2>. QED
    BY <2>1 DEF Fresh, DeclineTold, BeforeSend
<1>15. Entries(call[c])'
  <2>1. CASE f.op # "place_bracket"
    <3>1. Len(response) = 1
      BY <1>4, <1>6, <2>1, OneEntry
    <3>2. Len(f.queue) + Len(f.latest) <= 1
      BY <1>2, <1>3, <2>1 DEF Entries
    <3>3. /\ Tail(f.queue) \in Seq(ReplyId) /\ Len(Tail(f.queue)) = Len(f.queue) - 1
          /\ Len(f.queue) \in Nat /\ Len(f.latest) \in Nat
      BY <1>1, HeadTailProperties, LenProperties
    <3>4. Len(g.latest) = Len(f.latest) + Len(response)
      BY <1>1, <1>7, ConcatProperties
    <3>5. Len(g.queue) = Len(f.queue) - 1
      BY <3>3
    <3>. DEFINE a == Len(f.queue)
                b == Len(f.latest)
                k == Len(g.queue)
                m == Len(g.latest)
    <3>6. a \in Nat /\ b \in Nat /\ a + b <= 1 /\ k = a - 1 /\ m = b + 1
      BY <3>1, <3>2, <3>3, <3>4, <3>5
    <3>. HIDE DEF a, b, k, m
    <3>7. k + m <= 1
      BY <3>6
    <3>. QED
      BY <3>7 DEF Entries, ReplyStages, k, m
  <2>2. CASE f.op = "place_bracket"
    BY <2>2 DEF Entries, ReplyStages
  <2>. QED
    BY <2>1, <2>2
<1>16. <<r, TRUE>> \in f.log /\ \A w \in wire : w.by = c => w.yes
  BY <1>1, <1>2, <1>3 DEF Logged
<1>17. \A w \in wire' : w \in wire \/ (w.rid = r /\ w.yes = TRUE)
  BY <1>5
<1>18. Logged(c, call[c])'
  BY <1>16, <1>17 DEF Logged
<1>19. LogTrue(c, call[c])'
  <2>1. ASSUME NEW w \in wire', w.by = c, IsQuestion(w.rid) PROVE <<w.rid, w.yes>> \in f.log
    <3>1. CASE w \in wire
      BY <1>2, <1>3, <2>1, <3>1 DEF LogTrue
    <3>2. CASE w.rid = r /\ w.yes = TRUE
      BY <1>16, <3>2
    <3>. QED
      BY <1>17, <3>1, <3>2
  <2>. QED
    BY <1>2, <1>3, <2>1 DEF LogTrue
<1>. QED
  BY <1>13, <1>14, <1>15, <1>18, <1>19 DEF RepliesOK

LEMMA SendAnswerSays ==
    ASSUME IInv, HonestInv, NEW c \in Calls, SendAnswer(c) PROVE HonestInv'
<1>. DEFINE f == call[c]
            r == Head(f.queue)
            yes == f.pc = "confirming"
            w == Answer(c, r, yes)
<1>1. /\ call \in [Calls -> Frame] /\ f \in Frame /\ FrameOK(f)
      /\ f.pc \in {"confirming", "declining"} /\ f.queue # <<>> /\ f.queue \in Seq(ReplyId)
  BY FrameFields DEF IInv, FramesOK, TypeOK, FrameOK, SendAnswer, ReplyStages
<1>2. f.op \in Chained /\ r \in ReplyId
  BY <1>1, HeadTailProperties DEF FrameOK, ReplyStages
<1>3. PICK n \in NextQuestions(r, yes) :
        /\ GatewayAnswers(c, r, yes, n)
        /\ \/ call' = [call EXCEPT ![c] =
                 IF yes THEN [Goto(f, "reply") EXCEPT
                                !.queue = Tail(@),
                                !.latest = @ \o ReplyResponse(r, n)]
                        ELSE AfterNo(f)]
           \/ call' = [call EXCEPT ![c] = AnswerLost(f)]
  BY Zenon DEF SendAnswer
<1>4. PICK response : response = ReplyResponse(r, n)
  OBVIOUS
<1>5. PICK g : /\ call' = [call EXCEPT ![c] = g]
               /\ \/ yes /\ g = Answered(f, response)
                  \/ ~yes /\ g = Raise(f, "declined")
                  \/ g = Raise(f, "lost")
  BY <1>3, <1>4 DEF Answered, AfterNo, AnswerLost
<1>6. UNCHANGED confirms /\ wire' = wire \cup {w}
  BY <1>3 DEF SendAnswer, human, GatewayAnswers
<1>7. w.by = c /\ w.rid = r /\ w.yes = yes
  BY AnswerFields
<1>. HIDE DEF w
<1>8. /\ g.op = f.op
      /\ \/ /\ yes /\ g.pc = "reply" /\ g.why = f.why /\ g.log = f.log
            /\ g.queue = Tail(f.queue) /\ g.latest = f.latest \o response
         \/ /\ g.pc = "raised" /\ g.queue = f.queue /\ g.latest = f.latest /\ g.log = f.log
            /\ g.why = "lost" \/ ~yes
  <2>1. CASE yes /\ g = Answered(f, response)
    <3>. DEFINE h == Goto(f, "reply")
                k == [h EXCEPT !.queue = Tail(h.queue), !.latest = h.latest \o response]
    <3>1. g = k
      BY <2>1 DEF Answered
    <3>2. /\ h.op = f.op /\ h.why = f.why /\ h.log = f.log
          /\ h.pc = "reply" /\ h.queue = f.queue /\ h.latest = f.latest
      BY <1>1, GotoFields
    <3>3. /\ k.op = h.op /\ k.why = h.why /\ k.log = h.log /\ k.pc = h.pc
          /\ k.queue = Tail(h.queue) /\ k.latest = h.latest \o response
      BY <1>1, Zenon DEF Goto, Frame
    <3>. HIDE DEF h, k
    <3>. QED
      BY <2>1, <3>1, <3>2, <3>3
  <2>2. CASE (~yes /\ g = Raise(f, "declined")) \/ g = Raise(f, "lost")
    BY <1>1, <2>2, RaiseFields
  <2>. QED
    BY <1>5, <2>1, <2>2
<1>9. call'[c] = g /\ \A d \in Calls \ {c} : call'[d] = call[d]
  BY <1>1, <1>5
<1>10. Newest' /\ LegsOK' /\ \A d \in Calls \ {c} : FollowedUp(d, call[d])'
  <2>. HIDE DEF r, yes
  <2>. QED
    BY <1>2, <1>3, <1>8, <1>9, AnswerAsked
<1>11. <<r, yes>> \in f.log
  <2>1. Logged(c, f)
    BY DEF HonestInv, RepliesOK
  <2>2. CASE f.pc = "confirming"
    <3>1. yes = TRUE /\ <<r, TRUE>> \in f.log
      BY <1>2, <2>1, <2>2 DEF Logged
    <3>. QED
      BY <3>1, Zenon
  <2>3. CASE f.pc = "declining"
    <3>1. yes = FALSE /\ <<r, FALSE>> \in f.log
      BY <1>2, <2>1, <2>3 DEF Logged
    <3>. QED
      BY <3>1, Zenon
  <2>. QED
    BY <1>1, <2>2, <2>3
<1>12. RepliesOK(c, call[c])'
  <2>1. CASE yes /\ g.pc = "reply"
    <3>1. n \in NextQuestions(r, TRUE) /\ GatewayAnswers(c, r, TRUE, n)
      <4>1. yes = TRUE
        BY <2>1
      <4>. QED
        BY <1>3, <4>1, Zenon
    <3>2. /\ f.pc = "confirming" /\ g.why = f.why /\ g.log = f.log
          /\ g.queue = Tail(f.queue) /\ g.latest = f.latest \o response
      BY <1>8, <2>1
    <3>. QED
      BY <1>4, <1>6, <1>8, <1>9, <2>1, <3>1, <3>2, AnsweredYes
  <2>2. CASE g.pc = "raised"
    <3>1. /\ g.queue = f.queue /\ g.latest = f.latest /\ g.log = f.log
          /\ g.why = "lost" \/ ~yes
      BY <1>8, <2>2
    <3>2. \A v \in wire' \ wire : <<v.rid, v.yes>> \in f.log
      BY <1>6, <1>7, <1>11
    <3>3. DeclineTold(c, call[c])'
      <4>1. CASE g.why = "lost"
        BY <1>9, <4>1 DEF DeclineTold
      <4>2. CASE ~yes
        <5>1. yes = FALSE
          BY <4>2
        <5>2. w \in wire' /\ w.by = c /\ w.rid = Head(g.queue) /\ ~w.yes
              /\ <<w.rid, FALSE>> \in g.log
          <6>1. w.yes = FALSE /\ <<r, FALSE>> \in f.log
            BY <1>7, <1>11, <5>1, Zenon
          <6>. QED
            BY <1>6, <1>7, <3>1, <6>1
        <5>. QED
          BY <1>9, <5>2 DEF DeclineTold
      <4>. QED
        BY <3>1, <4>1, <4>2
    <3>4. wire \subseteq wire'
      BY <1>6
    <3>. QED
      BY <1>6, <1>8, <1>9, <2>2, <3>1, <3>2, <3>3, <3>4, RaisedSays
  <2>. QED
    BY <1>8, <2>1, <2>2
<1>13. wire \subseteq wire' /\ \A v \in wire' \ wire : v.by = c
  BY <1>6, <1>7
<1>. QED
  BY <1>6, <1>9, <1>10, <1>12, <1>13, OneSays

-----------------------------------------------------------------------------
(* The requests that are processed and answered 503. *)

LEMMA WriteShedSays ==
    ASSUME IInv, HonestInv, NEW c \in Calls, WriteShed(c) PROVE HonestInv'
<1>. DEFINE f == call[c]
            h == [f EXCEPT !.shed = @ + 1]
            g == Unavailable(h)
            w == Write(c, f)
<1>1. /\ call \in [Calls -> Frame] /\ f \in Frame /\ f.pc = "send" /\ now \in Nat
      /\ CallOK(c, f)
  BY DEF IInv, FramesOK, TypeOK, WriteShed
<1>2. /\ call' = [call EXCEPT ![c] = g] /\ wire' = wire \cup {w}
      /\ UNCHANGED <<asked, raised, confirms>>
  BY DEF WriteShed, human
<1>3. /\ h \in Frame /\ h.pc = f.pc /\ h.op = f.op /\ h.why = f.why
      /\ h.queue = f.queue /\ h.latest = f.latest /\ h.log = f.log
  BY <1>1, ShedFields
<1>4. w.by = c /\ w.rid = f.rid /\ w.yes
  BY DEF Write
<1>. HIDE DEF h, w
<1>5. /\ g.op = f.op /\ g.queue = f.queue /\ g.latest = f.latest /\ g.log = f.log
      /\ \/ g.pc = "send" /\ g.why = f.why
         \/ g.pc = "raised" /\ g.why = "failed"
  BY <1>1, <1>3, UnavailableFields
<1>. HIDE DEF g
<1>6. call'[c] = g /\ \A d \in Calls \ {c} : call'[d] = call[d]
  BY <1>1, <1>2
<1>7. f.op \in Chained => ~IsQuestion(w.rid)
  BY <1>1, <1>4 DEF CallOK, IdentityOK, Itself, IsQuestion, Chained
<1>8. Newest' /\ LegsOK' /\ \A d \in Calls \ {c} : FollowedUp(d, call[d])'
  <2>. DEFINE new == {}
  <2>1. new \in SUBSET ReplyId /\ asked' = asked \cup new /\ raised' = raised \cup new
    BY <1>2
  <2>2. \A r \in new : r[1] = c /\ r[2] \in 1..NLegs(call[c].op) /\ r[3] = 1
    OBVIOUS
  <2>3. call[c].pc \in BeforeSend /\ wire \subseteq wire'
    BY <1>1, <1>2 DEF BeforeSend
  <2>. HIDE DEF new
  <2>. QED
    BY <1>5, <1>6, <2>1, <2>2, <2>3, WriteAsked
<1>9. RepliesOK(c, call[c])'
  <2>1. CASE g.pc = "raised"
    <3>1. DeclineTold(c, call[c])'
      BY <1>1, <1>5, <1>6, <2>1 DEF DeclineTold
    <3>2. /\ wire \subseteq wire'
          /\ f.op \in Chained => \A v \in wire' \ wire : ~IsQuestion(v.rid)
      BY <1>2, <1>7
    <3>. QED
      BY <1>2, <1>5, <1>6, <2>1, <3>1, <3>2, RaisedSays
  <2>2. CASE g.pc = "send" /\ g.why = f.why
    <3>1. RepliesOK(c, f)
      BY DEF HonestInv
    <3>2. /\ f.why = "" /\ f.queue = <<>> /\ f.latest = <<>> /\ f.log = {}
          /\ \A v \in wire : v.by = c /\ f.op \in Chained => v.yes /\ ~IsQuestion(v.rid)
      BY <1>1, <3>1 DEF RepliesOK, Fresh, BeforeSend
    <3>3. \A v \in wire' : v.by = c /\ f.op \in Chained => v.yes /\ ~IsQuestion(v.rid)
      BY <1>2, <1>4, <1>7, <3>2
    <3>4. Fresh(c, call[c])' /\ DeclineTold(c, call[c])'
      BY <1>5, <1>6, <2>2, <3>2, <3>3 DEF Fresh, DeclineTold
    <3>5. Entries(call[c])'
      <4>1. g.queue = <<>> /\ g.latest = <<>>
        BY <1>5, <3>2
      <4>2. Len(g.queue) = 0 /\ Len(g.latest) = 0
        BY <4>1
      <4>. QED
        BY <1>6, <2>2, <4>2 DEF Entries, ReplyStages
    <3>6. FollowedUp(c, call[c])' /\ Logged(c, call[c])'
      BY <1>5, <1>6, <2>2, <3>3 DEF FollowedUp, Logged, Conversing, ReplyStages
    <3>7. LogTrue(c, call[c])'
      <4>1. f.op \in Chained => \A d \in confirms : d.by = c => ~IsQuestion(d.rid)
        BY <3>1, <3>2 DEF RepliesOK, LogTrue
      <4>. QED
        BY <1>2, <1>5, <1>6, <3>2, <3>3, <4>1 DEF LogTrue
    <3>. QED
      BY <3>4, <3>5, <3>6, <3>7 DEF RepliesOK
  <2>. QED
    BY <1>5, <2>1, <2>2
<1>10. wire \subseteq wire' /\ \A v \in wire' \ wire : v.by = c
  BY <1>2, <1>4
<1>. QED
  BY <1>2, <1>6, <1>8, <1>9, <1>10, OneSays

LEMMA ReplyShedSays ==
    ASSUME IInv, HonestInv, NEW c \in Calls, ReplyShed(c) PROVE HonestInv'
<1>. DEFINE f == call[c]
            g == Unavailable(f)
<1>1. /\ call \in [Calls -> Frame] /\ f \in Frame /\ now \in Nat /\ FrameOK(f)
  BY DEF IInv, FramesOK, TypeOK
<1>2. PICK r \in ReplyId, yes \in BOOLEAN :
        /\ \/ f.pc = "send" /\ f.op = "reply"
           \/ f.pc = "confirming" /\ r = Head(f.queue) /\ yes = TRUE
           \/ f.pc = "declining" /\ r = Head(f.queue) /\ yes = FALSE
        /\ \E n \in NextQuestions(r, yes) : GatewayAnswers(c, r, yes, n)
        /\ call' = [call EXCEPT ![c] = g]
        /\ UNCHANGED human
  BY ShedReply DEF IInv
<1>3. PICK n \in NextQuestions(r, yes) : GatewayAnswers(c, r, yes, n)
  BY <1>2
<1>. DEFINE w == Answer(c, r, yes)
<1>4. /\ wire' = wire \cup {w} /\ w.by = c /\ w.rid = r /\ w.yes = yes
      /\ UNCHANGED confirms
  BY <1>2, <1>3, AnswerFields DEF GatewayAnswers, human
<1>. HIDE DEF w
<1>5. /\ g.op = f.op /\ g.queue = f.queue /\ g.latest = f.latest /\ g.log = f.log
      /\ \/ g.pc = f.pc /\ g.why = f.why
         \/ g.pc = "raised" /\ g.why = "failed"
  BY <1>1, UnavailableFields
<1>. HIDE DEF g
<1>6. call'[c] = g /\ \A d \in Calls \ {c} : call'[d] = call[d]
  BY <1>1, <1>2
<1>7. Newest' /\ LegsOK' /\ \A d \in Calls \ {c} : FollowedUp(d, call[d])'
  BY <1>3, <1>5, <1>6, AnswerAsked
<1>8. RepliesOK(c, f)
  BY DEF HonestInv
<1>9. f.op \in Chained => /\ f.pc \in {"confirming", "declining"}
                          /\ <<r, yes>> \in f.log
  <2>1. CASE f.pc = "send" /\ f.op = "reply"
    BY <2>1 DEF Chained
  <2>2. CASE f.pc = "confirming" /\ r = Head(f.queue) /\ yes = TRUE
    BY <1>8, <2>2 DEF RepliesOK, Logged
  <2>3. CASE f.pc = "declining" /\ r = Head(f.queue) /\ yes = FALSE
    BY <1>8, <2>3 DEF RepliesOK, Logged
  <2>. QED
    BY <1>2, <2>1, <2>2, <2>3
<1>10. f.op \in Chained => \A v \in wire' \ wire : <<v.rid, v.yes>> \in f.log
  BY <1>4, <1>9
<1>11. wire \subseteq wire' /\ \A v \in wire' \ wire : v.by = c
  BY <1>4
<1>12. RepliesOK(c, call[c])'
  <2>1. CASE g.pc = "raised" /\ g.why = "failed"
    <3>1. DeclineTold(c, call[c])'
      BY <1>6, <2>1 DEF DeclineTold
    <3>. QED
      BY <1>4, <1>5, <1>6, <1>10, <1>11, <2>1, <3>1, RaisedSays
  <2>2. CASE g.pc = f.pc /\ g.why = f.why
    <3>1. /\ f.why = ""
          /\ f.pc = "send" => f.queue = <<>> /\ f.latest = <<>> /\ f.log = {}
      <4>1. f.pc \in {"send", "confirming", "declining"}
        BY <1>2
      <4>. QED
        BY <1>8, <4>1 DEF RepliesOK, Fresh, BeforeSend
    <3>2. Fresh(c, call[c])' /\ DeclineTold(c, call[c])'
      <4>1. f.pc \in BeforeSend => f.pc = "send" /\ f.op \notin Chained
        BY <1>2 DEF BeforeSend, Chained
      <4>. QED
        BY <1>5, <1>6, <2>2, <3>1, <4>1 DEF Fresh, DeclineTold, BeforeSend
    <3>3. Entries(call[c])'
      <4>1. Pending(call[c])' = Pending(f)
        BY <1>5, <1>6 DEF Pending
      <4>2. Entries(f)
        BY <1>8 DEF RepliesOK
      <4>. QED
        BY <1>5, <1>6, <2>2, <4>1, <4>2 DEF Entries
    <3>4. FollowedUp(c, call[c])'
      <4>1. FollowedUp(c, f)
        BY <1>8 DEF RepliesOK
      <4>. QED
        BY <1>3, <1>5, <1>6, <2>2, <4>1, StillWaits
    <3>5. Logged(c, call[c])'
      <4>1. Logged(c, f)
        BY <1>8 DEF RepliesOK
      <4>2. f.op \in Chained /\ ~yes => f.pc = "declining"
        BY <1>2 DEF Chained
      <4>3. \A v \in wire' : v \in wire \/ v.yes = yes
        BY <1>4
      <4>. QED
        BY <1>5, <1>6, <2>2, <4>1, <4>2, <4>3 DEF Logged
    <3>6. LogTrue(c, call[c])'
      <4>1. LogTrue(c, f)
        BY <1>8 DEF RepliesOK
      <4>. QED
        BY <1>4, <1>5, <1>6, <1>10, <4>1 DEF LogTrue
    <3>. QED
      BY <3>2, <3>3, <3>4, <3>5, <3>6 DEF RepliesOK
  <2>. QED
    BY <1>5, <2>1, <2>2
<1>. QED
  BY <1>4, <1>6, <1>7, <1>11, <1>12, OneSays

-----------------------------------------------------------------------------
(* The invariant of the replies. *)

LEMMA HonestInit == Init => HonestInv
<1>. SUFFICES ASSUME Init PROVE HonestInv
  OBVIOUS
<1>1. asked = {} /\ raised = {} /\ wire = {} /\ confirms = {}
  BY DEF Init
<1>2. ASSUME NEW c \in Calls PROVE RepliesOK(c, call[c])
  <2>1. /\ call[c].pc = "idle" /\ call[c].op = "place" /\ call[c].why = ""
        /\ call[c].queue = <<>> /\ call[c].latest = <<>> /\ call[c].log = {}
    BY DEF Init, Idle
  <2>2. call[c].op \notin Chained
    BY <2>1 DEF Chained
  <2>3. Fresh(c, call[c]) /\ DeclineTold(c, call[c])
    BY <1>1, <2>1 DEF Fresh, DeclineTold
  <2>4. Entries(call[c])
    BY <2>1, <2>2 DEF Entries, ReplyStages
  <2>. QED
    BY <2>2, <2>3, <2>4 DEF RepliesOK, FollowedUp, Logged, LogTrue
<1>. QED
  BY <1>1, <1>2 DEF HonestInv, Newest, LegsOK

LEMMA HonestNext == IInv /\ HonestInv /\ [Next]_vars => HonestInv'
<1>. SUFFICES ASSUME IInv, HonestInv, [Next]_vars PROVE HonestInv'
  OBVIOUS
<1>1. ASSUME NEW c \in Calls, Step(c) PROVE HonestInv'
  BY <1>1, AuthorizeSays, EnsureAccountsSays, GateOneSays, ConfirmSays, EndSays,
     SendWriteSays, SendReplySays, SkipTerminalSays, NextRoundSays, OpenReplySays,
     NextStageSays, ConfirmReplySays, SendAnswerSays, WriteShedSays, ReplyShedSays,
     StandSays DEF Step
<1>2. CASE Tick \/ QuestionLapses \/ SessionLost \/ LoggedInAgain \/ UNCHANGED vars
  <2>1. UNCHANGED <<call, raised, wire, confirms>> /\ asked' \subseteq asked
    BY <1>2 DEF Tick, QuestionLapses, SessionLost, LoggedInAgain, vars, human, gateway
  <2>. QED
    BY <2>1, ElsewhereSays
<1>. QED
  BY <1>1, <1>2, BeginSays, StandSays DEF Next, AllEnded

\* The replies, for any number of calls, questions and legs, with restated and
\* with resent ones: a chain that returns has answered every question IBKR asked
\* about its order; one that ended because the human declined a reply has told
\* IBKR; and its log is what the human answered and what IBKR was told.
THEOREM RepliesAlwaysHonest == Spec => []RepliesHonest
<1>1. Init => IInv /\ HonestInv
  BY IInvInit, HonestInit
<1>2. IInv /\ HonestInv /\ [Next]_vars => (IInv /\ HonestInv)'
  BY IInvNext, HonestNext
<1>. QED
  BY <1>1, <1>2, HonestSuffices, PTL DEF Spec
-----------------------------------------------------------------------------
(* What the gateway processes: who sends it, a no that is final, and the        *)
(* account query in front of it.                                               *)

\* The steps that put a request on the wire, each one of the call that takes it.
Sends(c) == SendWrite(c) \/ SendReply(c) \/ SendAnswer(c) \/ WriteShed(c) \/ ReplyShed(c)

LEMMA OnlySendsWrite ==
    ASSUME IInv, [Next]_vars
    PROVE  \/ wire' = wire
           \/ \E c \in Calls : /\ Sends(c)
                               /\ \E w : w.by = c /\ wire' = wire \cup {w}
<1>1. ASSUME NEW c \in Calls, SendWrite(c) \/ WriteShed(c)
      PROVE  \E w : w.by = c /\ wire' = wire \cup {w}
  <2>1. PICK f : wire' = wire \cup {Write(c, f)}
    BY <1>1, Zenon DEF SendWrite, WriteShed
  <2>2. Write(c, f).by = c
    BY DEF Write
  <2>. QED
    BY <2>1, <2>2
<1>2. ASSUME NEW c \in Calls, SendReply(c) \/ SendAnswer(c) \/ ReplyShed(c)
      PROVE  \E w : w.by = c /\ wire' = wire \cup {w}
  <2>1. PICK r, yes, n : GatewayAnswers(c, r, yes, n)
    <3>1. CASE SendReply(c) \/ SendAnswer(c)
      BY <3>1, Zenon DEF SendReply, SendAnswer
    <3>2. CASE ReplyShed(c)
      BY <3>2, ShedReply DEF IInv
    <3>. QED
      BY <1>2, <3>1, <3>2
  <2>2. wire' = wire \cup {Answer(c, r, yes)}
    BY <2>1 DEF GatewayAnswers
  <2>. QED
    BY <2>2, AnswerFields
<1>3. ASSUME NEW c \in Calls, Begin(c) \/ CallerMutatesDict(c) PROVE wire' = wire
  BY <1>3 DEF Begin, BeginWrite, BeginChain, BeginReply, CallerMutatesDict, gateway
<1>4. ASSUME NEW c \in Calls, Step(c), ~Sends(c) PROVE wire' = wire
  BY <1>4 DEF Step, Sends, Authorize, EnsureAccounts, TouchID, TouchIDDenied, ReadOrder,
     Confirm, Decline, SkipTerminal, NextRound, OpenReply, ReplyTouchID, ConfirmReply,
     DeclineReply, Retry, RequestFails, gateway
<1>5. CASE Tick \/ QuestionLapses \/ SessionLost \/ LoggedInAgain \/ UNCHANGED vars
  BY <1>5 DEF Tick, QuestionLapses, SessionLost, LoggedInAgain, vars, gateway
<1>. QED
  BY <1>1, <1>2, <1>3, <1>4, <1>5 DEF Next, AllEnded, Sends

\* Where a request is sent from; a chain that is saying no says nothing else.
LEMMA SendingStages ==
    ASSUME IInv, NEW c \in Calls, Sends(c)
    PROVE  /\ call[c].pc \in {"send", "confirming", "declining"}
           /\ UNCHANGED session /\ \E g : call' = [call EXCEPT ![c] = g]
           /\ call[c].pc = "declining" => \A w \in wire' \ wire : ~w.yes
<1>1. CASE SendWrite(c)
  <2>1. call[c].pc = "send" /\ UNCHANGED session
    <3>. DEFINE f == [call[c] EXCEPT !.sent = call[c].sent + 1]
    <3>1. f.pc = "send" /\ UNCHANGED session
      BY <1>1, Zenon DEF SendWrite
    <3>2. f.pc = call[c].pc
      OBVIOUS
    <3>. QED
      BY <3>1, <3>2
  <2>2. \E g : call' = [call EXCEPT ![c] = g]
    BY <1>1, Zenon DEF SendWrite
  <2>. QED
    BY <2>1, <2>2
<1>2. CASE SendReply(c) \/ WriteShed(c)
  <2>1. \E g : call' = [call EXCEPT ![c] = g]
    BY <1>2, Zenon DEF SendReply, WriteShed
  <2>2. call[c].pc = "send" /\ UNCHANGED session
    BY <1>2, Zenon DEF SendReply, WriteShed
  <2>. QED
    BY <2>1, <2>2
<1>3. CASE SendAnswer(c)
  <2>1. /\ call[c].pc \in {"confirming", "declining"} /\ UNCHANGED session
        /\ \E g : call' = [call EXCEPT ![c] = g]
    BY <1>3, Zenon DEF SendAnswer
  <2>2. ASSUME call[c].pc = "declining" PROVE \A w \in wire' \ wire : ~w.yes
    <3>. DEFINE yes == call[c].pc = "confirming"
                r == Head(call[c].queue)
    <3>1. wire' = wire \cup {Answer(c, r, yes)}
      BY <1>3, Zenon DEF SendAnswer, GatewayAnswers
    <3>2. Answer(c, r, yes).yes = yes /\ ~yes
      BY <2>2, AnswerFields
    <3>. QED
      BY <3>1, <3>2
  <2>. QED
    BY <2>1, <2>2
<1>4. CASE ReplyShed(c)
  <2>1. PICK r \in ReplyId, yes \in BOOLEAN :
          /\ \/ call[c].pc = "send"
             \/ call[c].pc = "confirming"
             \/ call[c].pc = "declining" /\ yes = FALSE
          /\ \E n \in NextQuestions(r, yes) : GatewayAnswers(c, r, yes, n)
          /\ call' = [call EXCEPT ![c] = Unavailable(call[c])]
          /\ UNCHANGED session
    BY <1>4, ShedReply DEF IInv
  <2>2. wire' = wire \cup {Answer(c, r, yes)} /\ Answer(c, r, yes).yes = yes
    BY <2>1, AnswerFields DEF GatewayAnswers
  <2>. QED
    BY <2>1, <2>2
<1>. QED
  BY <1>1, <1>2, <1>3, <1>4 DEF Sends

\* A chain that has said no has raised, or is still saying it because IBKR answered
\* 503; who has raised sends nothing more.
LEMMA NoIsTheLast == IInv /\ HonestInv /\ [Next]_vars =>
    \A w \in wire' \ wire : w.yes /\ call[w.by].op \in Chained =>
        ~ \E v \in wire : v.by = w.by /\ ~v.yes
<1>. SUFFICES ASSUME IInv, HonestInv, [Next]_vars, NEW w \in wire' \ wire, w.yes,
                     call[w.by].op \in Chained,
                     NEW v \in wire, v.by = w.by, ~v.yes
              PROVE  FALSE
  OBVIOUS
<1>1. PICK c \in Calls : Sends(c) /\ \E u : u.by = c /\ wire' = wire \cup {u}
  BY OnlySendsWrite
<1>2. w.by = c
  BY <1>1
<1>3. call[c].pc \in {"send", "confirming", "declining"}
  BY <1>1, SendingStages
<1>4. Logged(c, call[c])
  BY DEF HonestInv, RepliesOK
<1>5. call[c].pc \in {"raised", "declining"}
  BY <1>2, <1>4 DEF Logged
<1>6. call[c].pc = "declining" => ~w.yes
  BY <1>1, SendingStages
<1>. QED
  BY <1>3, <1>5, <1>6

\* place_bracket_and_confirm and the two other chains: after a no to IBKR a chain
\* never says yes again, for any number of legs, calls and questions.
THEOREM NoIsFinal == Spec => NoYesAfterNo
<1>1. Init => IInv /\ HonestInv
  BY IInvInit, HonestInit
<1>2. IInv /\ HonestInv /\ [Next]_vars => (IInv /\ HonestInv)'
  BY IInvNext, HonestNext
<1>3. IInv /\ HonestInv /\ [Next]_vars =>
        [\A w \in wire' \ wire : w.yes /\ call[w.by].op \in Chained =>
             ~ \E v \in wire : v.by = w.by /\ ~v.yes]_vars
  BY NoIsTheLast
<1>. QED
  BY <1>1, <1>2, <1>3, PTL DEF Spec, NoYesAfterNo

\* The stages behind _ensure_accounts_initialized.
Queried(f) == \/ f.pc \in {"gate1", "read", "dialog", "send", "reply"} \cup ReplyStages
              \/ f.pc = "authorize" /\ f.op = "place_bracket"

\* The client has made the query if a call is behind it; and the session has seen
\* the client's query as long as it is the first one.
QueryInv == /\ \A c \in Calls : Queried(call[c]) => ready
            /\ ready /\ drops = 0 => primed

LEMMA OneQueries ==
    ASSUME IInv, QueryInv, NEW c \in Calls, NEW g,
           call' = [call EXCEPT ![c] = g], Queried(g) => Queried(call[c]),
           UNCHANGED session
    PROVE  QueryInv'
<1>1. call'[c] = g /\ \A d \in Calls \ {c} : call'[d] = call[d]
  BY DEF IInv, FramesOK, TypeOK
<1>. QED
  BY <1>1 DEF QueryInv, session

LEMMA BeginQueries ==
    ASSUME IInv, QueryInv, NEW c \in Calls, Begin(c) PROVE QueryInv'
<1>. DEFINE f == call[c]
<1>1. f \in Frame /\ UNCHANGED session
  BY DEF IInv, FramesOK, TypeOK, Begin, BeginWrite, BeginChain, BeginReply
<1>2. CASE BeginWrite(c)
  <2>1. PICK op, b, auth, s :
          /\ op \notin Chained
          /\ call' = [call EXCEPT ![c] = [Goto(f, FirstStage(op)) EXCEPT
                       !.op = op, !.dict = b, !.auth = auth, !.scope = s]]
    BY <1>2, Zenon DEF BeginWrite
  <2>. DEFINE g == [Goto(f, FirstStage(op)) EXCEPT
                       !.op = op, !.dict = b, !.auth = auth, !.scope = s]
  <2>2. g.pc = FirstStage(op)
    BY <1>1, Zenon DEF Goto, Frame
  <2>3. FirstStage(op) = "accounts"
    BY <2>1 DEF FirstStage
  <2>4. call' = [call EXCEPT ![c] = g]
    BY <2>1
  <2>. HIDE DEF g
  <2>5. ~Queried(g)
    BY <2>2, <2>3 DEF Queried, ReplyStages
  <2>. QED
    BY <1>1, <2>4, <2>5, OneQueries
<1>3. CASE BeginChain(c)
  <2>1. PICK op, b, s :
          call' = [call EXCEPT ![c] = [Goto(f, FirstStage(op)) EXCEPT
                       !.op = op, !.dict = b, !.scope = s, !.chain = s]]
    BY <1>3, Zenon DEF BeginChain
  <2>. DEFINE g == [Goto(f, FirstStage(op)) EXCEPT
                       !.op = op, !.dict = b, !.scope = s, !.chain = s]
  <2>2. g.pc = FirstStage(op) /\ g.op = op
    BY <1>1, Zenon DEF Goto, Frame
  <2>3. FirstStage(op) = "accounts" \/ (FirstStage(op) = "authorize" /\ op # "place_bracket")
    BY DEF FirstStage
  <2>4. call' = [call EXCEPT ![c] = g]
    BY <2>1
  <2>. HIDE DEF g
  <2>5. ~Queried(g)
    BY <2>2, <2>3 DEF Queried, ReplyStages
  <2>. QED
    BY <1>1, <2>4, <2>5, OneQueries
<1>4. CASE BeginReply(c)
  <2>1. PICK r, yes, s :
          call' = [call EXCEPT ![c] = [Goto(f, FirstStage("reply")) EXCEPT
                       !.op = "reply", !.rid = r, !.yes = yes, !.scope = s]]
    BY <1>4, Zenon DEF BeginReply
  <2>. DEFINE g == [Goto(f, FirstStage("reply")) EXCEPT
                       !.op = "reply", !.rid = r, !.yes = yes, !.scope = s]
  <2>2. g.pc = FirstStage("reply")
    BY <1>1, Zenon DEF Goto, Frame
  <2>3. FirstStage("reply") = "accounts"
    BY DEF FirstStage, Chained
  <2>4. call' = [call EXCEPT ![c] = g]
    BY <2>1
  <2>. HIDE DEF g
  <2>5. ~Queried(g)
    BY <2>2, <2>3 DEF Queried, ReplyStages
  <2>. QED
    BY <1>1, <2>4, <2>5, OneQueries
<1>. QED
  BY <1>2, <1>3, <1>4 DEF Begin

LEMMA AuthorizeQueries ==
    ASSUME IInv, QueryInv, NEW c \in Calls, Authorize(c) PROVE QueryInv'
<1>. DEFINE f == call[c]
<1>1. f \in Frame /\ f.pc = "authorize" /\ UNCHANGED session
  BY DEF IInv, FramesOK, TypeOK, Authorize
<1>2. PICK stage, a : /\ stage = IF f.op = "place_bracket" THEN "dialog" ELSE "accounts"
                      /\ call' = [call EXCEPT ![c] = [Goto(f, stage) EXCEPT !.auth = a]]
  BY Zenon DEF Authorize
<1>. DEFINE g == [Goto(f, stage) EXCEPT !.auth = a]
<1>3. g.pc = stage
  BY <1>1, Zenon DEF Goto, Frame
<1>4. call' = [call EXCEPT ![c] = g]
  BY <1>2
<1>. HIDE DEF g
<1>5. Queried(g) => Queried(f)
  BY <1>1, <1>2, <1>3 DEF Queried, ReplyStages
<1>. QED
  BY <1>1, <1>4, <1>5, OneQueries

\* A step that leaves the stage and the method, or ends the call.
LEMMA StandQueries ==
    ASSUME IInv, QueryInv, NEW c \in Calls,
           TouchIDDenied(c) \/ RequestFails(c) \/ Retry(c) \/ CallerMutatesDict(c)
    PROVE  QueryInv'
<1>. DEFINE f == call[c]
<1>1. f \in Frame /\ UNCHANGED session
  BY DEF IInv, FramesOK, TypeOK, TouchIDDenied, RequestFails, Retry, CallerMutatesDict
<1>2. PICK g : /\ call' = [call EXCEPT ![c] = g]
               /\ g.pc = "raised" \/ (g.pc = f.pc /\ g.op = f.op)
  <2>1. CASE TouchIDDenied(c) \/ RequestFails(c)
    <3>1. PICK reason : call' = [call EXCEPT ![c] = Raise(f, reason)]
      BY <2>1 DEF TouchIDDenied, RequestFails
    <3>2. Raise(f, reason).pc = "raised"
      BY <1>1, RaiseFields
    <3>. QED
      BY <3>1, <3>2
  <2>2. CASE Retry(c)
    <3>1. call' = [call EXCEPT ![c] = [f EXCEPT !.tries = f.tries + 1]]
      BY <2>2, Zenon DEF Retry
    <3>2. \A n : [f EXCEPT !.tries = n].pc = f.pc /\ [f EXCEPT !.tries = n].op = f.op
      BY <1>1, Zenon DEF Frame
    <3>. QED
      BY <3>1, <3>2
  <2>3. CASE CallerMutatesDict(c)
    <3>1. PICK b : call' = [call EXCEPT ![c] = [f EXCEPT !.dict = b]]
      BY <2>3, Zenon DEF CallerMutatesDict
    <3>2. [f EXCEPT !.dict = b].pc = f.pc /\ [f EXCEPT !.dict = b].op = f.op
      BY <1>1, Zenon DEF Frame
    <3>. QED
      BY <3>1, <3>2
  <2>. QED
    BY <2>1, <2>2, <2>3
<1>3. Queried(g) => Queried(f)
  BY <1>2 DEF Queried, ReplyStages
<1>. QED
  BY <1>1, <1>2, <1>3, OneQueries

LEMMA QueryNext == IInv /\ QueryInv /\ [Next]_vars => QueryInv'
<1>. SUFFICES ASSUME IInv, QueryInv, [Next]_vars PROVE QueryInv'
  OBVIOUS
<1>1. ASSUME NEW c \in Calls, EnsureAccounts(c) PROVE QueryInv'
  <2>1. ready' = TRUE /\ drops' = drops /\ (drops = 0 => primed')
    BY <1>1 DEF EnsureAccounts, session, QueryInv
  <2>. QED
    BY <2>1 DEF QueryInv
<1>2. ASSUME NEW c \in Calls, NEW g, call' = [call EXCEPT ![c] = g],
             Queried(call[c]), UNCHANGED session
      PROVE  QueryInv'
  BY <1>2, OneQueries
<1>3. ASSUME NEW c \in Calls, TouchID(c) \/ ReadOrder(c) \/ Confirm(c) \/ Decline(c)
      PROVE  QueryInv'
  <2>1. Queried(call[c]) /\ UNCHANGED session /\ \E g : call' = [call EXCEPT ![c] = g]
    BY <1>3 DEF TouchID, ReadOrder, Confirm, Decline, Queried
  <2>. QED
    BY <1>2, <2>1
<1>4. ASSUME NEW c \in Calls, Sends(c) PROVE QueryInv'
  <2>1. Queried(call[c])
    BY <1>4, SendingStages DEF Queried, ReplyStages
  <2>. QED
    BY <1>2, <1>4, <2>1, SendingStages
<1>5. ASSUME NEW c \in Calls,
             \/ SkipTerminal(c) \/ NextRound(c) \/ OpenReply(c) \/ ReplyTouchID(c)
             \/ ConfirmReply(c) \/ DeclineReply(c)
      PROVE  QueryInv'
  <2>1. Queried(call[c]) /\ UNCHANGED session
    BY <1>5 DEF SkipTerminal, NextRound, OpenReply, ReplyTouchID, ConfirmReply, DeclineReply,
       Queried, ReplyStages
  <2>2. \E g : call' = [call EXCEPT ![c] = g]
    BY <1>5, Zenon DEF SkipTerminal, NextRound, OpenReply, ReplyTouchID, ConfirmReply,
       DeclineReply
  <2>. QED
    BY <1>2, <2>1, <2>2
<1>6. CASE SessionLost
  <2>1. drops \in Nat
    BY DEF IInv, FramesOK, TypeOK
  <2>2. drops' # 0 /\ ready' = ready /\ call' = call
    BY <1>6, <2>1 DEF SessionLost
  <2>. QED
    BY <2>2 DEF QueryInv
<1>7. CASE Tick \/ QuestionLapses \/ LoggedInAgain \/ UNCHANGED vars
  <2>1. UNCHANGED <<call, ready, primed, drops>>
    BY <1>7 DEF Tick, QuestionLapses, LoggedInAgain, vars, session
  <2>. QED
    BY <2>1 DEF QueryInv
<1>. QED
  BY <1>1, <1>3, <1>4, <1>5, <1>6, <1>7, BeginQueries, AuthorizeQueries, StandQueries
  DEF Next, Step, AllEnded, Sends

LEMMA SentQueried ==
    IInv /\ QueryInv /\ [Next]_vars /\ wire' # wire => ready /\ (drops = 0 => primed)
<1>. SUFFICES ASSUME IInv, QueryInv, [Next]_vars, wire' # wire
              PROVE  ready /\ (drops = 0 => primed)
  OBVIOUS
<1>1. PICK c \in Calls : Sends(c)
  BY OnlySendsWrite
<1>2. Queried(call[c])
  BY <1>1, SendingStages DEF Queried, ReplyStages
<1>. QED
  BY <1>2 DEF QueryInv

LEMMA QueryInit == Init => QueryInv
<1>. SUFFICES ASSUME Init PROVE QueryInv
  OBVIOUS
<1>1. ASSUME NEW c \in Calls PROVE ~Queried(call[c])
  <2>1. call[c].pc = "idle"
    BY DEF Init, Idle
  <2>. QED
    BY <2>1 DEF Queried, ReplyStages
<1>2. ready = FALSE
  BY DEF Init
<1>. QED
  BY <1>1, <1>2 DEF QueryInv

\* _ensure_accounts_initialized, for any number of calls on any number of threads
\* and any number of sessions: no order write of a client precedes its GET
\* /iserver/accounts, and none of its first session precedes that session's.  (The
\* flag is never taken back: to a later session a client may write without.)
THEOREM AlwaysPrimed == Spec => WritesArePrimed
<1>1. Init => IInv /\ QueryInv
  BY IInvInit, QueryInit
<1>2. IInv /\ QueryInv /\ [Next]_vars => (IInv /\ QueryInv)'
  BY IInvNext, QueryNext
<1>3. IInv /\ QueryInv /\ [Next]_vars =>
        [wire' # wire => ready /\ (drops = 0 => primed)]_vars
  BY SentQueried
<1>. QED
  BY <1>1, <1>2, <1>3, PTL DEF Spec, WritesArePrimed
=============================================================================
