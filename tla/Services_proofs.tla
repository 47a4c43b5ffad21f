--------------------------- MODULE Services_proofs ---------------------------
(***************************************************************************)
(* Proofs about four services of the surface: the LLM router, the forager,  *)
(* the autonomous operations and the streams of a colony's events, for any  *)
(* requests, providers, models, cycles, costs, ledger, streams and bounds.  *)
(* They share no state; they share a module, and its lemmas on sequences    *)
(* and finite sets.                                                         *)
(***************************************************************************)
EXTENDS Outbound, Subsequences_proofs, FiniteSetTheorems

-----------------------------------------------------------------------------
(* The router.                                                              *)

HealthType == [Provider -> [fails : Seq(Nat), until : Nat]]

(* What a request knows while it is under way, and keeps when it raises.    *)
UnderWay(q) ==
    q.pc # "done" => /\ q.model \in Model
                     /\ q.retries <= q.pos
                     /\ q.pc = "fallback" => q.pos \in DOMAIN Chain

ReqsInv == \A r \in Request : UnderWay(req[r])

RouterInv == TypeOK /\ ReqsInv

(* A provider's health is looked at or forgotten; or a failure is recorded. *)
Recorded(x) ==
    LET fails == Recent(Append(x.fails, now)) IN
    [fails |-> fails,
     until |-> IF Len(fails) >= Threshold THEN now + CooldownTime ELSE x.until]

Looked(p) == health'[p] \in {health[p], Healthy}

Calm == errors' = errors /\ now' = now /\ \A p \in Provider : Looked(p)

Failing(p) ==
    /\ Raised(p) /\ now' = now
    /\ \A o \in Provider \ {p} : Looked(o)
    /\ \/ Looked(p)
       \/ p \notin Local /\ health'[p] \in {Recorded(health[p]), Recorded(Healthy)}

LEMMA HealthyType == Healthy \in [fails : Seq(Nat), until : Nat]
<1>1. <<>> \in Seq(Nat)
  OBVIOUS
<1> QED
  BY <1>1 DEF Healthy

LEMMA ExamineFacts ==
    ASSUME NEW h \in HealthType, NEW ps
    PROVE  /\ Examine(h, ps) \in HealthType
           /\ \A p \in Provider : Examine(h, ps)[p] \in {h[p], Healthy}
  BY HealthyType DEF HealthType, Examine

LEMMA RecordedType ==
    ASSUME ConstantsAssumption, now \in Nat, NEW x \in [fails : Seq(Nat), until : Nat]
    PROVE  Recorded(x) \in [fails : Seq(Nat), until : Nat]
<1>1. Append(x.fails, now) \in Seq(Nat)
  OBVIOUS
<1>2. Recent(Append(x.fails, now)) \in Seq(Nat)
  BY <1>1, KeptType DEF Recent
<1>3. now + CooldownTime \in Nat /\ x.until \in Nat
  BY DEF ConstantsAssumption
<1> QED
  BY <1>2, <1>3 DEF Recorded

LEMMA RecordFacts ==
    ASSUME ConstantsAssumption, now \in Nat, NEW h \in HealthType, NEW p \in Provider
    PROVE  /\ RecordFailure(h, p) \in HealthType
           /\ \A o \in Provider \ {p} : RecordFailure(h, p)[o] = h[o]
           /\ \/ RecordFailure(h, p)[p] = h[p]
              \/ p \notin Local /\ RecordFailure(h, p)[p] = Recorded(h[p])
<1>1. CASE p \in Local
  BY <1>1 DEF RecordFailure, Exempt
<1>2. CASE p \notin Local
  <2>1. RecordFailure(h, p) = [h EXCEPT ![p] = Recorded(h[p])]
    BY <1>2 DEF RecordFailure, Exempt, Recorded, HealthType
  <2>2. Recorded(h[p]) \in [fails : Seq(Nat), until : Nat]
    BY RecordedType DEF HealthType
  <2> QED
    BY <1>2, <2>1, <2>2 DEF HealthType
<1> QED
  BY <1>1, <1>2

LEMMA DoneFacts == Done \in ReqState /\ UnderWay(Done)
  BY ConstantsAssumption DEF Done, ReqState, UnderWay, Awaiting, Ended

(* Walking the chain from any state of a request.                           *)
LEMMA FallbackFacts ==
    ASSUME TypeOK, NEW r \in Request, NEW h \in HealthType,
           NEW q \in ReqState, q.pc \in Awaiting, UnderWay(q),
           Fallback(r, h, q)
    PROVE  /\ health' \in HealthType
           /\ \A p \in Provider : health'[p] \in {h[p], Healthy}
           /\ req' \in [Request -> ReqState]
           /\ \A o \in Request \ {r} : req'[o] = req[o]
           /\ UnderWay(req'[r])
<1>1. /\ health' \in HealthType
      /\ \A p \in Provider : health'[p] \in {h[p], Healthy}
  BY ExamineFacts DEF Fallback
<1>2. req \in [Request -> ReqState]
  BY DEF TypeOK
<1>3. CASE Candidates(h, q) = {}
  <2>1. req' = [req EXCEPT ![r] = IF q.blocked THEN Done ELSE [q EXCEPT !.pc = "raised"]]
    BY <1>3 DEF Fallback
  <2>2. /\ [q EXCEPT !.pc = "raised"] \in ReqState
        /\ UnderWay([q EXCEPT !.pc = "raised"])
    BY DEF ReqState, UnderWay, Ended, Awaiting
  <2> QED
    BY <1>1, <1>2, <2>1, <2>2, DoneFacts
<1>4. CASE Candidates(h, q) # {}
  <2>1. PICK i \in Candidates(h, q) :
           req' = [req EXCEPT ![r] = [q EXCEPT !.pc = "fallback", !.pos = i,
                                               !.retries = @ + 1,
                                               !.tried = @ \cup {Chain[i]}]]
    BY <1>4 DEF Fallback
  <2> DEFINE n == [q EXCEPT !.pc = "fallback", !.pos = i, !.retries = @ + 1,
                            !.tried = @ \cup {Chain[i]}]
  <2>2. /\ i \in 1..Len(Chain) /\ i > q.pos /\ q.retries < MaxRetries
        /\ q.pos \in Nat /\ q.retries \in Nat /\ Chain[i] \in Model
    BY ConstantsAssumption DEF Candidates, MayRetry, ReqState
  <2>3. /\ n.pc = "fallback" /\ n.pos = i /\ n.retries = q.retries + 1
        /\ n.tried = q.tried \cup {Chain[i]} /\ n.model = q.model
    BY DEF ReqState
  <2>4. n \in ReqState
    <3> DEFINE a == [q EXCEPT !.pc = "fallback"]
               b == [a EXCEPT !.pos = i]
               c == [b EXCEPT !.retries = q.retries + 1]
               d == [c EXCEPT !.tried = q.tried \cup {Chain[i]}]
    <3>1. n = d
      OBVIOUS
    <3> HIDE DEF n
    <3>0. i \in 0..Len(Chain) /\ q.retries + 1 \in 0..MaxRetries
      BY <2>2, ConstantsAssumption DEF ReqState, ConstantsAssumption
    <3>2. a \in ReqState
      BY DEF ReqState, Awaiting
    <3> HIDE DEF a
    <3>3. b \in ReqState
      BY <3>0, <3>2 DEF ReqState
    <3> HIDE DEF b
    <3>4. c \in ReqState
      BY <3>0, <3>3 DEF ReqState
    <3> HIDE DEF c
    <3>5. q.tried \cup {Chain[i]} \in SUBSET Model
      BY <2>2 DEF ReqState
    <3>6. d \in ReqState
      BY <3>4, <3>5 DEF ReqState
    <3> QED
      BY <3>1, <3>6
  <2>5. UnderWay(n)
    <3>1. q.retries <= q.pos /\ q.model \in Model
      BY DEF UnderWay, Awaiting
    <3>2. q.retries + 1 <= i
      BY <3>1, <2>2
    <3>3. i \in DOMAIN Chain
      BY <2>2, ConstantsAssumption
    <3> QED
      BY <2>3, <3>1, <3>2, <3>3 DEF UnderWay
  <2> HIDE DEF n
  <2>6. req' = [req EXCEPT ![r] = n]
    BY <2>1 DEF n
  <2> QED
    BY <1>1, <1>2, <2>4, <2>5, <2>6
<1> QED
  BY <1>3, <1>4

(* A request that is routed awaits a model.                                 *)
LEMMA RoutedModel ==
    ASSUME NEW default \in Defaults, NEW table \in Table \cup {NoModel},
           NEW low \in BOOLEAN
    PROVE  Routed(default, Selected(default, table, low)) \in Model
  BY ConstantsAssumption DEF Routed, Selected

Routing(model) == [Done EXCEPT !.pc = "primary", !.model = model]

LEMMA FreshFacts ==
    ASSUME NEW model \in Model
    PROVE  /\ Routing(model) \in ReqState /\ UnderWay(Routing(model))
           /\ Routing(model).pc = "primary" /\ Routing(model).model = model
           /\ Routing(model).pos = 0 /\ Routing(model).retries = 0
           /\ Routing(model).tried = {} /\ Routing(model).blocked = FALSE
<1>1. /\ Routing(model).pc = "primary" /\ Routing(model).model = model
      /\ Routing(model).pos = 0 /\ Routing(model).retries = 0
      /\ Routing(model).tried = {} /\ Routing(model).blocked = FALSE
  BY DEF Routing, Done
<1>2. Routing(model) \in ReqState
  BY DoneFacts DEF Routing, ReqState, Awaiting
<1> QED
  BY <1>1, <1>2 DEF UnderWay

(* What every action does to the health of the providers and to requests.   *)
HealthMove == Calm \/ (\E p \in Provider : Failing(p)) \/ Tick

Moves ==
    /\ HealthMove
    /\ health' \in HealthType
    /\ req' \in [Request -> ReqState]
    /\ ReqsInv'
    /\ adapters' = adapters /\ keyed' = keyed

LEMMA AskMoves ==
    ASSUME RouterInv, NEW r \in Request, NEW default \in Defaults,
           NEW table \in Table \cup {NoModel}, NEW low \in BOOLEAN,
           Ask(r, default, table, low)
    PROVE  Moves
<1> DEFINE sel == Selected(default, table, low)
           model == Routed(default, sel)
           p == ProviderOf[model]
           seen == Examine(health, RouteExamines(default, sel) \cup {p})
           q == Routing(model)
<1>1. model \in Model /\ p \in Provider
  BY RoutedModel, ConstantsAssumption
<1>2. /\ \/ /\ Skips(health, p) /\ Fallback(r, seen, q) /\ UNCHANGED errors
         \/ /\ ~Skips(health, p) /\ p \notin adapters
            /\ Fallback(r, RecordFailure(seen, p), q) /\ Raised(p)
         \/ /\ ~Skips(health, p) /\ p \in adapters
            /\ req' = [req EXCEPT ![r] = [q EXCEPT !.tried = {model}]]
            /\ health' = seen /\ UNCHANGED errors
      /\ adapters' = adapters /\ keyed' = keyed /\ now' = now
  BY DEF Ask, Routing, Quiet
<1> HIDE DEF sel, model, p
<1>3. health \in HealthType /\ now \in Nat /\ req \in [Request -> ReqState]
  BY DEF RouterInv, TypeOK, HealthType
<1>4. seen \in HealthType /\ \A o \in Provider : seen[o] \in {health[o], Healthy}
  BY <1>3, ExamineFacts
<1>5. q \in ReqState /\ UnderWay(q) /\ q.pc \in Awaiting
  BY <1>1, FreshFacts DEF Awaiting
<1> HIDE DEF seen, q
<1>6. CASE Fallback(r, seen, q) /\ UNCHANGED errors
  <2>1. /\ health' \in HealthType
        /\ \A o \in Provider : health'[o] \in {seen[o], Healthy}
        /\ req' \in [Request -> ReqState]
        /\ \A o \in Request \ {r} : req'[o] = req[o]
        /\ UnderWay(req'[r])
    BY <1>4, <1>5, <1>6, FallbackFacts DEF RouterInv
  <2>2. ReqsInv'
    BY <2>1 DEF RouterInv, ReqsInv
  <2>3. Calm
    BY <1>2, <1>4, <1>6, <2>1 DEF Calm, Looked
  <2> QED
    BY <1>2, <2>1, <2>2, <2>3 DEF Moves, HealthMove
<1>7. CASE Fallback(r, RecordFailure(seen, p), q) /\ Raised(p)
  <2> DEFINE h == RecordFailure(seen, p)
  <2>1. /\ h \in HealthType
        /\ \A o \in Provider \ {p} : h[o] = seen[o]
        /\ h[p] = seen[p] \/ (p \notin Local /\ h[p] = Recorded(seen[p]))
    BY <1>1, <1>3, <1>4, RecordFacts, ConstantsAssumption
  <2> HIDE DEF h
  <2>2. Fallback(r, h, q)
    BY <1>7 DEF h
  <2>3. /\ health' \in HealthType
        /\ \A o \in Provider : health'[o] \in {h[o], Healthy}
        /\ req' \in [Request -> ReqState]
        /\ \A o \in Request \ {r} : req'[o] = req[o]
        /\ UnderWay(req'[r])
    BY <1>5, <2>1, <2>2, FallbackFacts DEF RouterInv
  <2>4. ReqsInv'
    BY <2>3 DEF RouterInv, ReqsInv
  <2>5. \A o \in Provider \ {p} : Looked(o)
    BY <1>4, <2>1, <2>3 DEF Looked
  <2>6. \/ Looked(p)
        \/ p \notin Local /\ health'[p] \in {Recorded(health[p]), Recorded(Healthy)}
    BY <1>1, <1>4, <2>1, <2>3 DEF Looked
  <2>7. Failing(p)
    BY <1>2, <1>7, <2>5, <2>6 DEF Failing
  <2> QED
    BY <1>1, <1>2, <2>3, <2>4, <2>7 DEF Moves, HealthMove
<1>8. CASE /\ req' = [req EXCEPT ![r] = [q EXCEPT !.tried = {model}]]
           /\ health' = seen /\ UNCHANGED errors
  <2>1. [q EXCEPT !.tried = {model}] \in ReqState
    BY <1>1, <1>5 DEF ReqState
  <2>2. UnderWay([q EXCEPT !.tried = {model}])
    BY <1>5 DEF UnderWay, ReqState
  <2> DEFINE n == [q EXCEPT !.tried = {model}]
  <2> HIDE DEF n
  <2>3. req' = [req EXCEPT ![r] = n] /\ n \in ReqState /\ UnderWay(n)
    BY <1>8, <2>1, <2>2 DEF n
  <2>4. req' \in [Request -> ReqState] /\ ReqsInv'
    BY <1>3, <2>3 DEF RouterInv, ReqsInv
  <2>5. Calm
    BY <1>2, <1>4, <1>8 DEF Calm, Looked
  <2> QED
    BY <1>2, <1>4, <1>8, <2>4, <2>5 DEF Moves, HealthMove
<1> QED
  BY <1>2, <1>6, <1>7, <1>8

(* An adapter that is awaited answers, blocks or raises, or is cancelled.   *)
LEMMA AnswerMoves ==
    ASSUME RouterInv, NEW r \in Request, Answer(r) \/ Block(r) \/ Raise(r) \/ Cancel(r)
    PROVE  Moves
<1>1. health \in HealthType /\ now \in Nat /\ req \in [Request -> ReqState]
  BY DEF RouterInv, TypeOK, HealthType
<1>2. req[r].pc \in Awaiting /\ adapters' = adapters /\ keyed' = keyed /\ now' = now
  BY DEF Answer, Block, Raise, Cancel, Quiet
<1>3. req[r] \in ReqState /\ UnderWay(req[r])
  BY <1>1 DEF RouterInv, ReqsInv
<1>4. CASE Answer(r) \/ Cancel(r)
  <2>1. req' = [req EXCEPT ![r] = Done] /\ health' = health /\ errors' = errors
    BY <1>4 DEF Answer, Cancel
  <2>2. req' \in [Request -> ReqState] /\ ReqsInv'
    BY <1>1, <2>1, DoneFacts DEF RouterInv, ReqsInv
  <2> QED
    BY <1>1, <1>2, <2>1, <2>2 DEF Moves, HealthMove, Calm, Looked
<1>5. CASE Block(r)
  <2> DEFINE q == [req[r] EXCEPT !.blocked = TRUE]
  <2>1. q \in ReqState /\ q.pc \in Awaiting
    BY <1>2, <1>3 DEF ReqState
  <2>2. UnderWay(q)
    BY <1>3 DEF UnderWay, ReqState
  <2>3. Fallback(r, health, q) /\ errors' = errors
    BY <1>5 DEF Block
  <2> HIDE DEF q
  <2>4. /\ health' \in HealthType
        /\ \A o \in Provider : health'[o] \in {health[o], Healthy}
        /\ req' \in [Request -> ReqState]
        /\ \A o \in Request \ {r} : req'[o] = req[o]
        /\ UnderWay(req'[r])
    BY <1>1, <2>1, <2>2, <2>3, FallbackFacts DEF RouterInv
  <2>5. ReqsInv'
    BY <2>4 DEF RouterInv, ReqsInv
  <2> QED
    BY <1>2, <2>3, <2>4, <2>5 DEF Moves, HealthMove, Calm, Looked
<1>6. CASE Raise(r)
  <2> DEFINE p == ProviderOf[Awaited(req[r])]
             h == RecordFailure(health, p)
             q == req[r]
  <2>1. Fallback(r, h, q) /\ Raised(p)
    BY <1>6 DEF Raise
  <2>2. Awaited(req[r]) \in Model
    BY <1>2, <1>3, ConstantsAssumption DEF Awaited, UnderWay, Awaiting
  <2>3. p \in Provider
    BY <2>2, ConstantsAssumption
  <2>4. q \in ReqState /\ UnderWay(q) /\ q.pc \in Awaiting
    BY <1>2, <1>3
  <2> HIDE DEF p, q
  <2>5. /\ h \in HealthType
        /\ \A o \in Provider \ {p} : h[o] = health[o]
        /\ h[p] = health[p] \/ (p \notin Local /\ h[p] = Recorded(health[p]))
    BY <1>1, <2>3, RecordFacts, ConstantsAssumption
  <2> HIDE DEF h
  <2>6. /\ health' \in HealthType
        /\ \A o \in Provider : health'[o] \in {h[o], Healthy}
        /\ req' \in [Request -> ReqState]
        /\ \A o \in Request \ {r} : req'[o] = req[o]
        /\ UnderWay(req'[r])
    BY <2>1, <2>4, <2>5, FallbackFacts DEF RouterInv
  <2>7. ReqsInv'
    BY <2>6 DEF RouterInv, ReqsInv
  <2>8. \A o \in Provider \ {p} : Looked(o)
    BY <2>5, <2>6 DEF Looked
  <2>9. \/ Looked(p)
        \/ p \notin Local /\ health'[p] \in {Recorded(health[p]), Recorded(Healthy)}
    BY <2>3, <2>5, <2>6 DEF Looked
  <2> QED
    BY <1>2, <2>1, <2>3, <2>6, <2>7, <2>8, <2>9 DEF Moves, HealthMove, Failing
<1> QED
  BY <1>4, <1>5, <1>6

LEMMA RouterMoves ==
    ASSUME RouterInv, Next
    PROVE  Moves
<1>1. health \in HealthType /\ req \in [Request -> ReqState]
  BY DEF RouterInv, TypeOK, HealthType
<1>2. CASE ProviderHealth
  <2>1. /\ health' \in HealthType
        /\ \A p \in Provider : health'[p] \in {health[p], Healthy}
        /\ req' = req /\ errors' = errors /\ now' = now
        /\ adapters' = adapters /\ keyed' = keyed
    BY <1>1, <1>2, ExamineFacts DEF ProviderHealth, Quiet
  <2> QED
    BY <1>1, <2>1 DEF Moves, HealthMove, Calm, Looked, RouterInv, ReqsInv
<1>3. CASE Tick
  BY <1>1, <1>3 DEF Tick, Quiet, Moves, HealthMove, RouterInv, ReqsInv
<1>4. CASE \E r \in Request : Answer(r) \/ Block(r) \/ Raise(r) \/ Cancel(r)
  BY <1>4, AnswerMoves
<1>5. CASE \E r \in Request, default \in Defaults, table \in Table \cup {NoModel},
              low \in BOOLEAN : Ask(r, default, table, low)
  BY <1>5, AskMoves
<1> QED
  BY <1>2, <1>3, <1>4, <1>5 DEF Next

-----------------------------------------------------------------------------
(* Type correctness and, with it, the retry cap.                            *)

LEMMA AsksStep ==
    ASSUME RouterInv, Next
    PROVE  asks' \in 0..MaxAsks
<1>1. asks \in 0..MaxAsks /\ MaxAsks \in Nat
  BY ConstantsAssumption DEF RouterInv, TypeOK
<1>2. ASSUME NEW r, NEW default, NEW table, NEW low, Ask(r, default, table, low)
      PROVE  asks < MaxAsks /\ asks' = asks + 1
  BY <1>2 DEF Ask
<1>3. asks' = asks \/ (asks < MaxAsks /\ asks' = asks + 1)
  BY <1>2 DEF Next, Answer, Block, Raise, Cancel, ProviderHealth, Tick
<1> QED
  BY <1>1, <1>3

LEMMA ErrorsStep ==
    ASSUME RouterInv, HealthMove
    PROVE  now' \in Nat /\ errors' \in [Provider -> Seq(Nat)]
<1>1. now \in Nat /\ errors \in [Provider -> Seq(Nat)]
  BY DEF RouterInv, TypeOK
<1>2. CASE Calm
  BY <1>1, <1>2 DEF Calm
<1>3. ASSUME NEW p \in Provider, Failing(p)
      PROVE  now' \in Nat /\ errors' \in [Provider -> Seq(Nat)]
  BY <1>1, <1>3 DEF Failing, Raised
<1>4. CASE Tick
  <2>1. \A p \in Provider : Kept(errors[p], Within(now')) \in Seq(Nat)
    BY <1>1, KeptType
  <2> QED
    BY <1>1, <1>4, <2>1 DEF Tick
<1> QED
  BY <1>2, <1>3, <1>4 DEF HealthMove

LEMMA RouterInvStep == RouterInv /\ [Next]_vars => RouterInv'
<1>1. ASSUME RouterInv, Next
      PROVE  RouterInv'
  <2>1. Moves
    BY <1>1, RouterMoves
  <2>2. now' \in Nat /\ errors' \in [Provider -> Seq(Nat)] /\ asks' \in 0..MaxAsks
    BY <1>1, <2>1, ErrorsStep, AsksStep DEF Moves
  <2>3. adapters' \subseteq Provider /\ keyed' \in BOOLEAN
    BY <1>1, <2>1 DEF Moves, RouterInv, TypeOK
  <2> QED
    BY <2>1, <2>2, <2>3 DEF Moves, RouterInv, TypeOK, HealthType
<1>2. ASSUME RouterInv, UNCHANGED vars
      PROVE  RouterInv'
  BY <1>2 DEF RouterInv, TypeOK, ReqsInv, UnderWay, vars
<1> QED
  BY <1>1, <1>2

LEMMA RouterInvInit == Init => RouterInv
<1> SUFFICES ASSUME Init
             PROVE  RouterInv
  OBVIOUS
<1>1. now \in Nat /\ adapters \subseteq Provider /\ keyed \in BOOLEAN /\ asks \in 0..MaxAsks
  BY ConstantsAssumption DEF Init
<1>2. health \in [Provider -> [fails : Seq(Nat), until : Nat]]
  BY HealthyType DEF Init
<1>3. req \in [Request -> ReqState] /\ ReqsInv
  BY DoneFacts DEF Init, ReqsInv
<1>4. errors \in [Provider -> Seq(Nat)]
  BY DEF Init
<1> QED
  BY <1>1, <1>2, <1>3, <1>4 DEF RouterInv, TypeOK

LEMMA RouterInvariant == Spec => []RouterInv
  BY RouterInvInit, RouterInvStep, PTL DEF Spec

(* Every variable of the router keeps its type: no request exceeds the      *)
(* per-request cap on retries, whatever chain it walks (runtime.py:377).    *)
THEOREM RouterTypeCorrect == Spec => []TypeOK
<1>1. RouterInv => TypeOK
  BY DEF RouterInv
<1> QED
  BY <1>1, RouterInvariant, PTL

-----------------------------------------------------------------------------
(* Cooldowns.  From now on, whatever window is looked at holds no more of a *)
(* provider's recorded failures than of its raised calls.                   *)

Counted(fails, errs, n0) ==
    \A n \in Nat : n >= n0 =>
        Len(Kept(fails, Within(n))) <= Len(Kept(errs, Within(n)))

WindowInv == \A p \in Provider : Counted(health[p].fails, errors[p], now)

(* A provider that is local is never cooled down.                           *)
LocalInv == \A p \in Local : health[p].until = 0

CoolInv == RouterInv /\ WindowInv /\ LocalInv

LEMMA WithinShrinks ==
    ASSUME NEW m \in Nat, NEW n \in Nat, m <= n
    PROVE  Within(n) \subseteq Within(m)
  BY ConstantsAssumption DEF Within

LEMMA CountedEmpty ==
    ASSUME NEW e \in Seq(Nat), NEW n \in Nat
    PROVE  Counted(<<>>, e, n)
<1> SUFFICES ASSUME NEW m \in Nat
             PROVE  Len(Kept(<<>>, Within(m))) <= Len(Kept(e, Within(m)))
  BY DEF Counted
<1>1. Len(Kept(<<>>, Within(m))) = 0
  BY KeptEmpty
<1>2. Kept(e, Within(m)) \in Seq(Nat)
  BY KeptType
<1>3. Len(Kept(e, Within(m))) \in Nat
  BY <1>2
<1> QED
  BY <1>1, <1>3

(* One call that raised, recorded or not.                                   *)
LEMMA CountedRaise ==
    ASSUME NEW f \in Seq(Nat), NEW e \in Seq(Nat), NEW n0 \in Nat, Counted(f, e, n0)
    PROVE  /\ Counted(f, Append(e, n0), n0)
           /\ Counted(Kept(Append(f, n0), Within(n0)), Append(e, n0), n0)
<1>1. ASSUME NEW n \in Nat, n >= n0
      PROVE  /\ Len(Kept(f, Within(n))) <= Len(Kept(Append(e, n0), Within(n)))
             /\ Len(Kept(Kept(Append(f, n0), Within(n0)), Within(n)))
                  <= Len(Kept(Append(e, n0), Within(n)))
  <2> DEFINE W == Within(n)
             kf == Kept(f, W)
             ke == Kept(e, W)
  <2>1. Len(kf) <= Len(ke)
    BY <1>1 DEF Counted
  <2>2. kf \in Seq(Nat) /\ ke \in Seq(Nat)
    BY KeptType
  <2>3. Kept(Append(f, n0), W) = IF n0 \in W THEN Append(kf, n0) ELSE kf
    BY KeptAppend
  <2>4. Kept(Append(e, n0), W) = IF n0 \in W THEN Append(ke, n0) ELSE ke
    BY KeptAppend
  <2>5. Append(f, n0) \in Seq(Nat) /\ W \subseteq Within(n0)
    BY <1>1, WithinShrinks
  <2>6. Kept(Kept(Append(f, n0), Within(n0)), W) = Kept(Append(f, n0), W)
    BY <2>5, KeptKept
  <2> HIDE DEF W, kf, ke
  <2>7. /\ Len(kf) \in Nat /\ Len(ke) \in Nat
        /\ Len(Append(kf, n0)) = Len(kf) + 1 /\ Len(Append(ke, n0)) = Len(ke) + 1
    BY <2>2
  <2>8. /\ Len(kf) <= Len(Kept(Append(e, n0), W))
        /\ Len(Kept(Append(f, n0), W)) <= Len(Kept(Append(e, n0), W))
    <3>1. CASE n0 \in W
      BY <3>1, <2>1, <2>3, <2>4, <2>7
    <3>2. CASE n0 \notin W
      BY <3>2, <2>1, <2>3, <2>4, <2>7
    <3> QED
      BY <3>1, <3>2
  <2> QED
    BY <2>6, <2>8 DEF W, kf
<1> QED
  BY <1>1 DEF Counted

LEMMA CountedTick ==
    ASSUME NEW f \in Seq(Nat), NEW e \in Seq(Nat), NEW n0 \in Nat, Counted(f, e, n0)
    PROVE  Counted(f, Kept(e, Within(n0 + 1)), n0 + 1)
<1> SUFFICES ASSUME NEW n \in Nat, n >= n0 + 1
             PROVE  Len(Kept(f, Within(n))) <= Len(Kept(Kept(e, Within(n0 + 1)), Within(n)))
  BY DEF Counted
<1>1. Kept(Kept(e, Within(n0 + 1)), Within(n)) = Kept(e, Within(n))
  <2>1. Within(n) \subseteq Within(n0 + 1)
    BY WithinShrinks
  <2> QED
    BY <2>1, KeptKept
<1>2. n >= n0
  OBVIOUS
<1> QED
  BY <1>1, <1>2 DEF Counted

LEMMA CoolStep ==
    ASSUME CoolInv, Next
    PROVE  WindowInv' /\ LocalInv'
<1>1. Moves
  BY RouterMoves DEF CoolInv
<1>2. /\ now \in Nat /\ health \in HealthType /\ errors \in [Provider -> Seq(Nat)]
      /\ health' \in HealthType
  BY <1>1 DEF CoolInv, RouterInv, TypeOK, HealthType, Moves
<1>3. \A p \in Provider : health[p].fails \in Seq(Nat) /\ errors[p] \in Seq(Nat)
  BY <1>2 DEF HealthType
<1>4. CASE Calm
  <2>1. ASSUME NEW p \in Provider
        PROVE  Counted(health'[p].fails, errors[p], now)
    <3>1. CASE health'[p] = health[p]
      BY <3>1 DEF CoolInv, WindowInv
    <3>2. CASE health'[p] = Healthy
      BY <3>2, <1>2, <1>3, CountedEmpty DEF Healthy
    <3> QED
      BY <1>4, <3>1, <3>2 DEF Calm, Looked
  <2>2. LocalInv'
    BY <1>4, ConstantsAssumption DEF Calm, Looked, CoolInv, LocalInv, Healthy
  <2> QED
    BY <1>4, <2>1, <2>2 DEF Calm, WindowInv
<1>5. ASSUME NEW p \in Provider, Failing(p)
      PROVE  WindowInv' /\ LocalInv'
  <2>1. ASSUME NEW o \in Provider
        PROVE  Counted(health'[o].fails, errors'[o], now)
    <3>1. CASE o # p
      <4>1. errors'[o] = errors[o] /\ health'[o] \in {health[o], Healthy}
        BY <1>2, <1>5, <3>1 DEF Failing, Raised, Looked
      <4>2. CASE health'[o] = health[o]
        BY <4>1, <4>2 DEF CoolInv, WindowInv
      <4>3. CASE health'[o] = Healthy
        BY <4>1, <4>3, <1>2, <1>3, CountedEmpty DEF Healthy
      <4> QED
        BY <4>1, <4>2, <4>3
    <3>2. CASE o = p
      <4>1. errors'[p] = Append(errors[p], now) /\ errors'[p] \in Seq(Nat)
        BY <1>2, <1>5 DEF Failing, Raised
      <4>2. ASSUME NEW x \in {health[p], Healthy}
            PROVE  Counted(x.fails, errors'[p], now) /\ Counted(Recorded(x).fails, errors'[p], now)
        <5>1. x.fails \in Seq(Nat) /\ Counted(x.fails, errors[p], now)
          <6>1. CASE x = health[p]
            BY <6>1, <1>3 DEF CoolInv, WindowInv
          <6>2. CASE x = Healthy
            BY <6>2, <1>2, <1>3, HealthyType, CountedEmpty DEF Healthy
          <6> QED
            BY <6>1, <6>2
        <5>2. Recorded(x).fails = Kept(Append(x.fails, now), Within(now))
          BY DEF Recorded, Recent
        <5> QED
          BY <1>2, <1>3, <4>1, <5>1, <5>2, CountedRaise
      <4>3. \E x \in {health[p], Healthy} : health'[p] = x \/ health'[p] = Recorded(x)
        BY <1>5 DEF Failing, Looked
      <4> QED
        BY <3>2, <4>2, <4>3
    <3> QED
      BY <3>1, <3>2
  <2>2. LocalInv'
    <3> SUFFICES ASSUME NEW o \in Local
                 PROVE  health'[o].until = 0
      BY DEF LocalInv
    <3>1. o \in Provider /\ health'[o] \in {health[o], Healthy}
      BY <1>5, ConstantsAssumption DEF Failing, Looked
    <3> QED
      BY <3>1 DEF CoolInv, LocalInv, Healthy
  <2> QED
    BY <1>5, <2>1, <2>2 DEF Failing, WindowInv
<1>6. CASE Tick
  <2>1. health' = health /\ now' = now + 1
    BY <1>6 DEF Tick
  <2>2. ASSUME NEW p \in Provider
        PROVE  Counted(health[p].fails, errors'[p], now + 1)
    <3>1. errors'[p] = Kept(errors[p], Within(now + 1))
      BY <1>6 DEF Tick
    <3>2. Counted(health[p].fails, errors[p], now)
      BY DEF CoolInv, WindowInv
    <3> QED
      BY <1>2, <1>3, <3>1, <3>2, CountedTick
  <2> QED
    BY <2>1, <2>2 DEF WindowInv, CoolInv, LocalInv
<1> QED
  BY <1>1, <1>4, <1>5, <1>6 DEF Moves, HealthMove

LEMMA CoolInvariant == Spec => []CoolInv
<1>1. Init => CoolInv
  <2> SUFFICES ASSUME Init
               PROVE  WindowInv /\ LocalInv
    BY RouterInvInit DEF CoolInv
  <2>1. now \in Nat /\ <<>> \in Seq(Nat)
    BY DEF Init
  <2>2. \A p \in Provider : health[p].fails = <<>> /\ health[p].until = 0 /\ errors[p] = <<>>
    BY DEF Init, Healthy
  <2> QED
    BY <2>1, <2>2, CountedEmpty, ConstantsAssumption DEF WindowInv, LocalInv
<1>2. CoolInv /\ [Next]_vars => CoolInv'
  <2>1. ASSUME CoolInv, Next
        PROVE  CoolInv'
    BY <2>1, CoolStep, RouterInvStep DEF CoolInv
  <2>2. ASSUME CoolInv, UNCHANGED vars
        PROVE  CoolInv'
    <3>1. RouterInv'
      BY <2>2, RouterInvStep DEF CoolInv
    <3> QED
      BY <2>2, <3>1 DEF CoolInv, WindowInv, LocalInv, vars
  <2> QED
    BY <2>1, <2>2
<1> QED
  BY <1>1, <1>2, PTL DEF Spec

(* ADR-024: a cooldown begins, or is prolonged, only by a burst of calls    *)
(* that raised, and never for a local provider (runtime.py:145).            *)
THEOREM CooldownNeedsBurst == Spec => ColdAfterBurst
<1>1. ASSUME CoolInv, CoolInv', [Next]_vars
      PROVE  \A p \in Provider : health'[p].until > health[p].until =>
                /\ p \notin Local
                /\ Len(errors'[p]) >= Threshold
  <2> SUFFICES ASSUME NEW p \in Provider, health'[p].until > health[p].until
               PROVE  p \notin Local /\ Len(errors'[p]) >= Threshold
    OBVIOUS
  <2>1. /\ now \in Nat /\ health \in HealthType /\ errors' \in [Provider -> Seq(Nat)]
        /\ Threshold \in Nat
    BY <1>1, ConstantsAssumption DEF CoolInv, RouterInv, TypeOK, HealthType
  <2>2. health[p].until \in Nat
    BY <2>1 DEF HealthType
  <2>3. ~Looked(p)
    BY <2>2 DEF Looked, Healthy
  <2>4. HealthMove
    <3>1. health' # health
      BY <2>2
    <3>2. Next
      BY <1>1, <3>1 DEF vars
    <3> QED
      BY <1>1, <3>2, RouterMoves DEF CoolInv, Moves
  <2>5. health' # health
    BY <2>2
  <2>6. /\ now' = now /\ p \notin Local
        /\ health'[p] \in {Recorded(health[p]), Recorded(Healthy)}
    BY <2>3, <2>4, <2>5 DEF HealthMove, Calm, Failing, Tick
  <2>7. PICK x \in {health[p], Healthy} : health'[p] = Recorded(x)
    BY <2>6
  <2>8. x \in [fails : Seq(Nat), until : Nat] /\ x.until <= health[p].until
    <3>1. CASE x = health[p]
      BY <3>1, <2>1, <2>2 DEF HealthType
    <3>2. CASE x = Healthy
      BY <3>2, <2>2, HealthyType DEF Healthy
    <3> QED
      BY <2>7, <3>1, <3>2
  <2> DEFINE fails == Recent(Append(x.fails, now))
  <2>9. fails = Kept(Append(x.fails, now), Within(now)) /\ Append(x.fails, now) \in Seq(Nat)
    BY <2>1, <2>8 DEF Recent
  <2>10. fails \in Seq(Nat) /\ Kept(fails, Within(now)) = fails
    <3>1. fails \in Seq(Nat)
      BY <2>9, KeptType
    <3>2. Kept(Kept(Append(x.fails, now), Within(now)), Within(now)) = Kept(Append(x.fails, now), Within(now))
      BY <2>9, KeptKept
    <3> QED
      BY <2>9, <3>1, <3>2
  <2>11. health'[p].fails = fails /\ Len(fails) >= Threshold
    <3>1. health'[p].fails = fails
      BY <2>7 DEF Recorded
    <3>2. ~(Len(fails) >= Threshold) => health'[p].until = x.until
      BY <2>7 DEF Recorded
    <3>3. x.until \in Nat
      BY <2>8
    <3> QED
      BY <2>2, <2>8, <3>1, <3>2, <3>3
  <2>12. Counted(fails, errors'[p], now)
    BY <1>1, <2>6, <2>11 DEF CoolInv, WindowInv
  <2> HIDE DEF fails
  <2>13. Len(fails) <= Len(Kept(errors'[p], Within(now)))
    BY <2>1, <2>10, <2>12 DEF Counted
  <2>14. errors'[p] \in Seq(Nat)
    BY <2>1
  <2>15. /\ Len(Kept(errors'[p], Within(now))) <= Len(errors'[p])
         /\ Kept(errors'[p], Within(now)) \in Seq(Nat)
    BY <2>14, KeptType
  <2>16. /\ Len(errors'[p]) \in Nat /\ Len(Kept(errors'[p], Within(now))) \in Nat
         /\ Len(fails) \in Nat
    BY <2>10, <2>14, <2>15
  <2> QED
    BY <2>1, <2>6, <2>11, <2>13, <2>15, <2>16
<1>2. CoolInv /\ CoolInv' /\ [Next]_vars =>
         [\A p \in Provider : health'[p].until > health[p].until =>
             /\ p \notin Local
             /\ Len(errors'[p]) >= Threshold]_vars
  BY <1>1
<1> QED
  BY <1>2, CoolInvariant, PTL DEF Spec, ColdAfterBurst

(* No adapter of a cooled provider is called (runtime.py:327, 391).         *)
LEMMA ExamineWarms ==
    ASSUME now \in Nat, NEW h \in HealthType, NEW ps, NEW p \in Provider, ~Cooled(h, p)
    PROVE  ~(now < Examine(h, ps)[p].until)
  BY DEF HealthType, Examine, Cooled, Healthy

LEMMA FallbackWarm ==
    ASSUME TypeOK, NEW r \in Request, NEW h \in HealthType, NEW q \in ReqState,
           Fallback(r, h, q), NEW o \in Request,
           req'[o].pc \in Awaiting, req'[o] # req[o]
    PROVE  ~(now < health'[ProviderOf[Awaited(req'[o])]].until)
<1>1. req \in [Request -> ReqState]
  BY DEF TypeOK
<1>2. CASE Candidates(h, q) = {}
  BY <1>1, <1>2 DEF Fallback, Done, ReqState, Awaiting
<1>3. CASE Candidates(h, q) # {}
  <2>1. PICK i \in Candidates(h, q) :
           req' = [req EXCEPT ![r] = [q EXCEPT !.pc = "fallback", !.pos = i,
                                               !.retries = @ + 1,
                                               !.tried = @ \cup {Chain[i]}]]
    BY <1>3 DEF Fallback
  <2>2. o = r /\ req'[o].pc = "fallback" /\ req'[o].pos = i
    BY <1>1, <2>1 DEF ReqState
  <2>3. Awaited(req'[o]) = Chain[i] /\ i \in 1..Len(Chain) /\ Open(h, q, i)
    <3>1. q.pos \in Nat /\ Len(Chain) \in Nat
      BY ConstantsAssumption DEF ReqState
    <3> QED
      BY <2>1, <2>2, <3>1 DEF Awaited, Candidates
  <2>4. ProviderOf[Chain[i]] \in Provider /\ ~Cooled(h, ProviderOf[Chain[i]])
    <3>1. Chain[i] \in Model
      BY <2>3, ConstantsAssumption
    <3> QED
      BY <2>3, <3>1, ConstantsAssumption DEF Open
  <2>5. now \in Nat /\ health' = Examine(h, {ProviderOf[Chain[j]] : j \in Passed(h, q)})
    BY DEF TypeOK, Fallback
  <2> QED
    BY <2>3, <2>4, <2>5, ExamineWarms
<1> QED
  BY <1>2, <1>3

LEMMA StepWarm ==
    ASSUME RouterInv, Next, NEW o \in Request, req'[o].pc \in Awaiting, req'[o] # req[o]
    PROVE  ~(now < health'[ProviderOf[Awaited(req'[o])]].until)
<1>1. TypeOK /\ now \in Nat /\ health \in HealthType /\ req \in [Request -> ReqState]
  BY DEF RouterInv, TypeOK, HealthType
<1>2. ASSUME NEW r \in Request, NEW default \in Defaults,
             NEW table \in Table \cup {NoModel}, NEW low \in BOOLEAN,
             Ask(r, default, table, low)
      PROVE  ~(now < health'[ProviderOf[Awaited(req'[o])]].until)
  <2> DEFINE sel == Selected(default, table, low)
             model == Routed(default, sel)
             p == ProviderOf[model]
             seen == Examine(health, RouteExamines(default, sel) \cup {p})
             q == Routing(model)
  <2>1. model \in Model /\ p \in Provider
    BY RoutedModel, ConstantsAssumption
  <2>2. \/ Fallback(r, seen, q)
        \/ Fallback(r, RecordFailure(seen, p), q)
        \/ /\ ~Cooled(health, p)
           /\ req' = [req EXCEPT ![r] = [q EXCEPT !.tried = {model}]]
           /\ health' = seen
    BY <1>2 DEF Ask, Routing, Skips
  <2>3. q \in ReqState /\ q.pc = "primary" /\ q.model = model
    BY <2>1, FreshFacts
  <2>4. seen \in HealthType
    BY <1>1, ExamineFacts
  <2>5. RecordFailure(seen, p) \in HealthType
    <3> HIDE DEF seen, p
    <3> QED
      BY <1>1, <2>1, <2>4, RecordFacts, ConstantsAssumption
  <2> HIDE DEF q, model, p
  <2>6. CASE Fallback(r, seen, q)
    BY <1>1, <2>3, <2>4, <2>6, FallbackWarm
  <2>7. CASE Fallback(r, RecordFailure(seen, p), q)
    BY <1>1, <2>3, <2>5, <2>7, FallbackWarm
  <2>8. CASE /\ ~Cooled(health, p)
             /\ req' = [req EXCEPT ![r] = [q EXCEPT !.tried = {model}]]
             /\ health' = seen
    <3>1. [q EXCEPT !.tried = {model}].pc = "primary" /\ [q EXCEPT !.tried = {model}].model = model
      BY <2>3 DEF ReqState
    <3>2. o = r /\ Awaited(req'[o]) = model
      BY <1>1, <2>8, <3>1 DEF Awaited
    <3> QED
      BY <1>1, <2>1, <2>8, <3>2, ExamineWarms DEF p
  <2> QED
    BY <2>2, <2>6, <2>7, <2>8
<1>3. ASSUME NEW r \in Request, Block(r) \/ Raise(r)
      PROVE  ~(now < health'[ProviderOf[Awaited(req'[o])]].until)
  <2>1. req[r] \in ReqState /\ req[r].pc \in Awaiting /\ UnderWay(req[r])
    BY <1>1, <1>3 DEF Block, Raise, RouterInv, ReqsInv
  <2>2. CASE Block(r)
    <3> DEFINE q == [req[r] EXCEPT !.blocked = TRUE]
    <3>1. q \in ReqState
      BY <2>1 DEF ReqState
    <3>2. Fallback(r, health, q)
      BY <2>2 DEF Block
    <3> HIDE DEF q
    <3> QED
      BY <1>1, <3>1, <3>2, FallbackWarm
  <2>3. CASE Raise(r)
    <3> DEFINE p == ProviderOf[Awaited(req[r])]
               h == RecordFailure(health, p)
    <3>1. Fallback(r, h, req[r])
      BY <2>3 DEF Raise
    <3>2. p \in Provider
      BY <2>1, ConstantsAssumption DEF Awaited, UnderWay, Awaiting
    <3> HIDE DEF p
    <3>3. h \in HealthType
      BY <1>1, <3>2, RecordFacts, ConstantsAssumption
    <3> HIDE DEF h
    <3> QED
      BY <1>1, <2>1, <3>1, <3>3, FallbackWarm
  <2> QED
    BY <1>3, <2>2, <2>3
<1>4. ASSUME NEW r \in Request, Answer(r) \/ Cancel(r)
      PROVE  FALSE
  BY <1>1, <1>4 DEF Answer, Cancel, Done, Awaiting
<1>5. CASE ProviderHealth \/ Tick
  BY <1>5 DEF ProviderHealth, Tick
<1> QED
  BY <1>2, <1>3, <1>4, <1>5 DEF Next

(* A request calls no provider that is cooled down when it calls, whatever  *)
(* others did while it awaited (runtime.py:327, 391).                       *)
THEOREM CooledNotCalled == Spec => CooledIsSkipped
<1>1. ASSUME RouterInv, [Next]_vars
      PROVE  [\A r \in Request : \A m \in req'[r].tried :
                (req'[r].pc \in Awaiting /\ req'[r] # req[r] /\ m = Awaited(req'[r]))
                => ~Cooled(health', ProviderOf[m])]_vars
  BY <1>1, StepWarm DEF Cooled, vars
<1> QED
  BY <1>1, RouterInvariant, PTL DEF Spec, CooledIsSkipped

-----------------------------------------------------------------------------
(* The local model.  A request has called, on its way along the chain, each *)
(* local model that has an adapter; the walk gets as far as the retry cap   *)
(* allows, so the local models must stand within it: the default chain has  *)
(* three entries and the cap is three (runtime.py:117, 182).                *)

LocalWithinCap ==
    \A i \in DOMAIN Chain : ProviderOf[Chain[i]] \in Local => i <= MaxRetries

CalledIfLocal(q, m) == ProviderOf[m] \in Local \cap adapters => m \in q.tried

Walked(q) ==
    /\ q.pc \in Awaiting =>
          /\ CalledIfLocal(q, q.model)
          /\ \A i \in DOMAIN Chain : i <= q.pos => CalledIfLocal(q, Chain[i])
    /\ q.pc = "raised" => \A i \in DOMAIN Chain : CalledIfLocal(q, Chain[i])

WalkInv == ~keyed => \A r \in Request : Walked(req[r])

(* What is not a candidate of an unkeyed walk is no local model, but for    *)
(* the one it began with.                                                   *)
LEMMA Bypassed ==
    ASSUME ~keyed, now \in Nat, NEW h \in HealthType, \A p \in Local : h[p].until = 0,
           NEW q \in ReqState, NEW i \in DOMAIN Chain, q.pos < i,
           i \notin Candidates(h, q), q.retries < MaxRetries,
           ProviderOf[Chain[i]] \in Local \cap adapters
    PROVE  Chain[i] = q.model
<1>1. i \in (q.pos + 1)..Len(Chain)
  BY ConstantsAssumption DEF ReqState
<1>2. ~Open(h, q, i)
  BY <1>1 DEF Candidates, MayRetry
<1>3. ~Cooled(h, ProviderOf[Chain[i]])
  BY ConstantsAssumption DEF Cooled, HealthType
<1> QED
  BY <1>2, <1>3 DEF Open, BareKey

LEMMA FallbackWalks ==
    ASSUME LocalWithinCap, RouterInv, ~keyed, NEW r \in Request,
           NEW h \in HealthType, \A p \in Local : h[p].until = 0,
           NEW q \in ReqState, q.pc \in Awaiting, UnderWay(q), Walked(q),
           Fallback(r, h, q)
    PROVE  Walked(req'[r])
<1>1. req \in [Request -> ReqState] /\ now \in Nat
  BY DEF RouterInv, TypeOK
<1>2. /\ CalledIfLocal(q, q.model)
      /\ \A i \in DOMAIN Chain : i <= q.pos => CalledIfLocal(q, Chain[i])
  BY DEF Walked
<1>3. q.pos \in Nat /\ q.retries \in Nat /\ q.retries <= q.pos
  BY ConstantsAssumption DEF ReqState, UnderWay, Awaiting
<1>4. CASE Candidates(h, q) = {}
  <2>1. req'[r] = IF q.blocked THEN Done ELSE [q EXCEPT !.pc = "raised"]
    BY <1>1, <1>4 DEF Fallback
  <2>2. CASE q.blocked
    BY <2>1, <2>2 DEF Walked, Done, Awaiting
  <2>3. CASE ~q.blocked
    <3>1. req'[r].pc = "raised" /\ req'[r].tried = q.tried
      BY <2>1, <2>3 DEF ReqState
    <3>2. ASSUME NEW i \in DOMAIN Chain, ProviderOf[Chain[i]] \in Local \cap adapters
          PROVE  Chain[i] \in q.tried
      <4>0. i \in Nat
        BY ConstantsAssumption
      <4>1. CASE i <= q.pos
        BY <1>2, <3>2, <4>1 DEF CalledIfLocal
      <4>2. CASE q.pos < i
        <5>1. q.retries < MaxRetries
          BY <1>3, <3>2, <4>0, <4>2, ConstantsAssumption DEF LocalWithinCap
        <5>2. Chain[i] = q.model
          BY <1>1, <1>4, <3>2, <4>2, <5>1, Bypassed
        <5> QED
          BY <1>2, <3>2, <5>2 DEF CalledIfLocal
      <4> QED
        BY <1>3, <4>0, <4>1, <4>2
    <3> QED
      BY <3>1, <3>2 DEF Walked, CalledIfLocal, Awaiting
  <2> QED
    BY <2>2, <2>3
<1>5. CASE Candidates(h, q) # {}
  <2>1. PICK i \in Candidates(h, q) :
           /\ \A j \in Candidates(h, q) : i <= j
           /\ req' = [req EXCEPT ![r] = [q EXCEPT !.pc = "fallback", !.pos = i,
                                                  !.retries = @ + 1,
                                                  !.tried = @ \cup {Chain[i]}]]
    BY <1>5 DEF Fallback
  <2>2. /\ req'[r].pc = "fallback" /\ req'[r].pos = i /\ req'[r].model = q.model
        /\ req'[r].tried = q.tried \cup {Chain[i]}
    BY <1>1, <2>1 DEF ReqState
  <2>3. q.retries < MaxRetries /\ i \in Nat
    BY <1>3, <2>1, ConstantsAssumption DEF Candidates, MayRetry
  <2>4. ASSUME NEW j \in DOMAIN Chain, j <= i, ProviderOf[Chain[j]] \in Local \cap adapters
        PROVE  Chain[j] \in q.tried \cup {Chain[i]}
    <3>0. j \in Nat
      BY ConstantsAssumption
    <3>1. CASE j <= q.pos
      BY <1>2, <2>4, <3>1 DEF CalledIfLocal
    <3>2. CASE q.pos < j /\ j # i
      <4>1. j \notin Candidates(h, q)
        BY <2>1, <2>3, <2>4, <3>0, <3>2
      <4>2. Chain[j] = q.model
        BY <1>1, <2>3, <2>4, <3>2, <4>1, Bypassed
      <4> QED
        BY <1>2, <2>4, <4>2 DEF CalledIfLocal
    <3>3. CASE j = i
      BY <3>3
    <3> QED
      BY <1>3, <3>0, <3>1, <3>2, <3>3
  <2> QED
    BY <1>2, <2>2, <2>4 DEF Walked, CalledIfLocal
<1> QED
  BY <1>4, <1>5

LEMMA RecordLocal ==
    ASSUME now \in Nat, NEW h \in HealthType, NEW p \in Provider,
           \A x \in Local : h[x].until = 0
    PROVE  /\ RecordFailure(h, p) \in HealthType
           /\ \A x \in Local : RecordFailure(h, p)[x].until = 0
<1>1. /\ RecordFailure(h, p) \in HealthType
      /\ \A o \in Provider \ {p} : RecordFailure(h, p)[o] = h[o]
      /\ p \in Local => RecordFailure(h, p)[p] = h[p]
  BY RecordFacts, ConstantsAssumption
<1>2. Local \subseteq Provider
  BY ConstantsAssumption
<1>3. \A x \in Local : RecordFailure(h, p)[x] = h[x]
  BY <1>1, <1>2
<1> QED
  BY <1>1, <1>3

LEMMA WalkStep ==
    ASSUME LocalWithinCap, CoolInv, WalkInv, Next
    PROVE  WalkInv'
<1> SUFFICES ASSUME ~keyed, adapters' = adapters, NEW o \in Request
             PROVE  Walked(req'[o])
  <2>1. adapters' = adapters /\ keyed' = keyed
    BY RouterMoves DEF CoolInv, Moves
  <2> QED
    BY <2>1 DEF WalkInv, Walked, CalledIfLocal
<1>1. /\ RouterInv /\ TypeOK /\ now \in Nat /\ health \in HealthType
      /\ req \in [Request -> ReqState]
      /\ \A p \in Local : p \in Provider /\ health[p].until = 0
      /\ \A r \in Request : Walked(req[r]) /\ UnderWay(req[r])
  BY ConstantsAssumption
     DEF CoolInv, RouterInv, TypeOK, HealthType, LocalInv, WalkInv, ReqsInv
<1>2. Walked(Done)
  BY DEF Walked, Done, Awaiting
<1>3. ASSUME NEW r \in Request, NEW default \in Defaults,
             NEW table \in Table \cup {NoModel}, NEW low \in BOOLEAN,
             Ask(r, default, table, low)
      PROVE  Walked(req'[o])
  <2> DEFINE sel == Selected(default, table, low)
             model == Routed(default, sel)
             p == ProviderOf[model]
             seen == Examine(health, RouteExamines(default, sel) \cup {p})
             q == Routing(model)
  <2>1. model \in Model /\ p \in Provider
    BY RoutedModel, ConstantsAssumption
  <2>2. \/ Cooled(health, p) /\ Fallback(r, seen, q)
        \/ p \notin adapters /\ Fallback(r, RecordFailure(seen, p), q)
        \/ req' = [req EXCEPT ![r] = [q EXCEPT !.tried = {model}]]
    BY <1>3 DEF Ask, Routing, Skips
  <2>3. /\ q \in ReqState /\ q.pc = "primary" /\ q.model = model /\ UnderWay(q)
        /\ q.pos = 0 /\ q.tried = {}
    BY <2>1, FreshFacts
  <2>4. seen \in HealthType /\ \A x \in Local : seen[x].until = 0
    BY <1>1, ExamineFacts DEF Healthy
  <2>5. /\ RecordFailure(seen, p) \in HealthType
        /\ \A x \in Local : RecordFailure(seen, p)[x].until = 0
    <3> HIDE DEF seen, p
    <3> QED
      BY <1>1, <2>1, <2>4, RecordLocal
  <2>6. \A x \in Request \ {r} : req'[x] = req[x]
    <3>1. ASSUME NEW h, NEW x \in Request \ {r}, Fallback(r, h, q)
          PROVE  req'[x] = req[x]
      BY <1>1, <3>1 DEF Fallback
    <3> QED
      BY <1>1, <2>2, <3>1
  <2> HIDE DEF q, model, p
  <2>7. ~CalledIfLocal(q, model) => p \in Local \cap adapters
    BY DEF CalledIfLocal, p
  <2>8. CalledIfLocal(q, model) => Walked(q)
    BY <2>3, ConstantsAssumption DEF Walked, Awaiting
  <2>9. CASE Cooled(health, p) /\ Fallback(r, seen, q)
    <3>1. p \notin Local
      BY <1>1, <2>9 DEF Cooled
    <3>2. Walked(q)
      BY <2>7, <2>8, <3>1
    <3>3. Walked(req'[r])
      BY <1>1, <2>3, <2>4, <2>9, <3>2, FallbackWalks DEF Awaiting
    <3> QED
      BY <1>1, <2>6, <3>3
  <2>10. CASE p \notin adapters /\ Fallback(r, RecordFailure(seen, p), q)
    <3>1. Walked(q)
      BY <2>7, <2>8, <2>10
    <3>2. Walked(req'[r])
      BY <1>1, <2>3, <2>5, <2>10, <3>1, FallbackWalks DEF Awaiting
    <3> QED
      BY <1>1, <2>6, <3>2
  <2>11. CASE req' = [req EXCEPT ![r] = [q EXCEPT !.tried = {model}]]
    <3> DEFINE n == [q EXCEPT !.tried = {model}]
    <3>1. n.pc = "primary" /\ n.model = model /\ n.pos = 0 /\ n.tried = {model}
      BY <2>3 DEF ReqState
    <3> HIDE DEF n
    <3>2. req'[r] = n
      BY <1>1, <2>11 DEF n
    <3>3. Walked(n)
      BY <3>1, ConstantsAssumption DEF Walked, CalledIfLocal, Awaiting
    <3> QED
      BY <1>1, <2>6, <3>2, <3>3
  <2> QED
    BY <2>2, <2>9, <2>10, <2>11
<1>4. ASSUME NEW r \in Request, Block(r) \/ Raise(r)
      PROVE  Walked(req'[o])
  <2>1. /\ req[r] \in ReqState /\ req[r].pc \in Awaiting /\ UnderWay(req[r])
        /\ Walked(req[r])
    BY <1>1, <1>4 DEF Block, Raise
  <2>2. CASE Block(r)
    <3> DEFINE q == [req[r] EXCEPT !.blocked = TRUE]
    <3>1. /\ q \in ReqState /\ q.pc = req[r].pc /\ q.model = req[r].model
          /\ q.pos = req[r].pos /\ q.tried = req[r].tried /\ q.retries = req[r].retries
      BY <2>1 DEF ReqState
    <3>2. Fallback(r, health, q)
      BY <2>2 DEF Block
    <3> HIDE DEF q
    <3>3. Walked(q) /\ UnderWay(q)
      BY <2>1, <3>1 DEF Walked, UnderWay, CalledIfLocal
    <3>4. Walked(req'[r])
      BY <1>1, <2>1, <3>1, <3>2, <3>3, FallbackWalks
    <3> QED
      BY <1>1, <3>2, <3>4 DEF Fallback
  <2>3. CASE Raise(r)
    <3> DEFINE p == ProviderOf[Awaited(req[r])]
               h == RecordFailure(health, p)
    <3>1. Fallback(r, h, req[r])
      BY <2>3 DEF Raise
    <3>2. p \in Provider
      BY <2>1, ConstantsAssumption DEF Awaited, UnderWay, Awaiting
    <3> HIDE DEF p
    <3>3. h \in HealthType /\ \A x \in Local : h[x].until = 0
      BY <1>1, <3>2, RecordLocal
    <3> HIDE DEF h
    <3>4. Walked(req'[r])
      BY <1>1, <2>1, <3>1, <3>3, FallbackWalks
    <3> QED
      BY <1>1, <3>1, <3>4 DEF Fallback
  <2> QED
    BY <1>4, <2>2, <2>3
<1>5. CASE \E r \in Request : Answer(r) \/ Cancel(r)
  BY <1>1, <1>2, <1>5 DEF Answer, Cancel
<1>6. CASE ProviderHealth \/ Tick
  BY <1>1, <1>6 DEF ProviderHealth, Tick
<1> QED
  BY <1>3, <1>4, <1>5, <1>6 DEF Next

(* With the keys app.py registers, no request leaves its default model.     *)
KeyInv ==
    keyed => \A r \in Request : /\ req[r].model \in Defaults \cup {NoModel}
                               /\ req[r].tried \subseteq {req[r].model}

LEMMA KeyedFallback ==
    ASSUME keyed, NEW r \in Request, NEW h, NEW q \in ReqState, Fallback(r, h, q),
           req \in [Request -> ReqState],
           q.model \in Defaults \cup {NoModel}, q.tried \subseteq {q.model}
    PROVE  /\ req'[r].model \in Defaults \cup {NoModel}
           /\ req'[r].tried \subseteq {req'[r].model}
           /\ \A x \in Request \ {r} : req'[x] = req[x]
<1>1. Candidates(h, q) = {}
  BY DEF Candidates, Open, BareKey
<1>2. req' = [req EXCEPT ![r] = IF q.blocked THEN Done ELSE [q EXCEPT !.pc = "raised"]]
  BY <1>1 DEF Fallback
<1> QED
  BY <1>2 DEF Done, ReqState

LEMMA KeyStep ==
    ASSUME CoolInv, KeyInv, [Next]_vars
    PROVE  KeyInv'
<1>1. CASE UNCHANGED vars
  BY <1>1 DEF KeyInv, vars
<1>2. CASE Next
  <2>1. keyed' = keyed
    BY <1>2, RouterMoves DEF CoolInv, Moves
  <2> SUFFICES ASSUME keyed, NEW o \in Request
               PROVE  /\ req'[o].model \in Defaults \cup {NoModel}
                      /\ req'[o].tried \subseteq {req'[o].model}
    BY <2>1 DEF KeyInv
  <2>2. /\ req \in [Request -> ReqState]
        /\ \A r \in Request : /\ req[r].model \in Defaults \cup {NoModel}
                              /\ req[r].tried \subseteq {req[r].model}
    BY DEF KeyInv, CoolInv, RouterInv, TypeOK
  <2>3. Done.model = NoModel /\ Done.tried = {}
    BY DEF Done
  <2>4. ASSUME NEW r \in Request, NEW default \in Defaults,
               NEW table \in Table \cup {NoModel}, NEW low \in BOOLEAN,
               Ask(r, default, table, low)
        PROVE  /\ req'[o].model \in Defaults \cup {NoModel}
               /\ req'[o].tried \subseteq {req'[o].model}
    <3> DEFINE sel == Selected(default, table, low)
               model == Routed(default, sel)
               p == ProviderOf[model]
               seen == Examine(health, RouteExamines(default, sel) \cup {p})
               q == Routing(model)
    <3>1. model = default
      BY DEF Routed, BareKey
    <3>2. \/ Fallback(r, seen, q) \/ Fallback(r, RecordFailure(seen, p), q)
          \/ req' = [req EXCEPT ![r] = [q EXCEPT !.tried = {model}]]
      BY <2>4 DEF Ask, Routing
    <3>3. model \in Model
      BY <3>1, ConstantsAssumption
    <3>4. q \in ReqState /\ q.model = model /\ q.tried = {}
      BY <3>3, FreshFacts
    <3> HIDE DEF q, model, p, seen
    <3>5. ASSUME NEW h, Fallback(r, h, q)
          PROVE  /\ req'[o].model \in Defaults \cup {NoModel}
                 /\ req'[o].tried \subseteq {req'[o].model}
      BY <2>2, <3>1, <3>4, <3>5, KeyedFallback
    <3>6. CASE req' = [req EXCEPT ![r] = [q EXCEPT !.tried = {model}]]
      <4>1. /\ [q EXCEPT !.tried = {model}].model = model
            /\ [q EXCEPT !.tried = {model}].tried = {model}
        BY <3>4 DEF ReqState
      <4>2. req'[o] = IF o = r THEN [q EXCEPT !.tried = {model}] ELSE req[o]
        BY <2>2, <3>6
      <4> QED
        BY <2>2, <3>1, <4>1, <4>2
    <3> QED
      BY <3>2, <3>5, <3>6
  <2>5. ASSUME NEW r \in Request, Block(r) \/ Raise(r)
        PROVE  /\ req'[o].model \in Defaults \cup {NoModel}
               /\ req'[o].tried \subseteq {req'[o].model}
    <3>1. CASE Block(r)
      <4> DEFINE q == [req[r] EXCEPT !.blocked = TRUE]
      <4>1. q \in ReqState /\ q.model = req[r].model /\ q.tried = req[r].tried
        BY <2>2 DEF ReqState
      <4>2. Fallback(r, health, q)
        BY <3>1 DEF Block
      <4> HIDE DEF q
      <4> QED
        BY <2>2, <4>1, <4>2, KeyedFallback
    <3>2. CASE Raise(r)
      <4>1. PICK h : Fallback(r, h, req[r])
        BY <3>2 DEF Raise
      <4> QED
        BY <2>2, <4>1, KeyedFallback
    <3> QED
      BY <2>5, <3>1, <3>2
  <2>6. CASE \E r \in Request : Answer(r) \/ Cancel(r)
    BY <2>2, <2>3, <2>6 DEF Answer, Cancel
  <2>7. CASE ProviderHealth \/ Tick
    BY <2>2, <2>7 DEF ProviderHealth, Tick
  <2> QED
    BY <1>2, <2>4, <2>5, <2>6, <2>7 DEF Next
<1> QED
  BY <1>1, <1>2

(* ADR-024's "route local" holds of adapters under their provider's name: a *)
(* request that raises has called every local model of the chain            *)
(* (runtime.py:376-438).  Of the keys app.py registers (app.py:304-365) the *)
(* opposite holds: no request ever leaves the default model it came with.   *)
THEOREM LocalBeforeRaising ==
    ASSUME LocalWithinCap
    PROVE  Spec => []LocalBeforeGivingUp
<1>1. Init => WalkInv
  BY DEF Init, WalkInv, Walked, Done, Awaiting
<1>2. CoolInv /\ WalkInv /\ [Next]_vars => WalkInv'
  <2>1. ASSUME CoolInv, WalkInv, UNCHANGED vars
        PROVE  WalkInv'
    BY <2>1 DEF WalkInv, Walked, CalledIfLocal, vars
  <2> QED
    BY <2>1, WalkStep
<1>3. Init => KeyInv
  BY DEF Init, KeyInv, Done
<1>4. CoolInv /\ KeyInv /\ [Next]_vars => KeyInv'
  BY KeyStep
<1>5. WalkInv /\ KeyInv => LocalBeforeGivingUp
  BY DEF WalkInv, KeyInv, Walked, CalledIfLocal, LocalBeforeGivingUp, LocalTried, Awaiting
<1> QED
  BY <1>1, <1>2, <1>3, <1>4, <1>5, CoolInvariant, PTL DEF Spec

-----------------------------------------------------------------------------
(* The forager.                                                             *)

CycleState ==
    [at : {"free", "searching", "fetching", "creating", "created", "reporting"},
     forage : Nat, agent : BOOLEAN, left : SUBSET Page, page : Page \cup {NoPage},
     todo : SUBSET Chunk, chunk : Chunk \cup {NoChunk}, admitted : Nat]

ForageRow == [state : {"pending", "summed"}, rows : Nat, lost : 0..1, told : Nat,
              cut : {"no", "raised", "stopped", "unread", "ended"}]

(* What a summary tells of a forage, now or once its report is read.        *)
Told(f) == (f.state = "summed" \/ f.cut = "unread") => f.told + f.lost = f.rows

(* A chunk is in hand between its choice and the end of its emission; the   *)
(* others of its page wait meanwhile.                                       *)
Shape(q) ==
    /\ q \in CycleState
    /\ q.at = "free" => q = NoCycle
    /\ q.at \in {"creating", "created"} => q.chunk \in Chunk /\ q.chunk \notin q.todo
    /\ q.at \notin {"creating", "created"} => q.todo = {}
    /\ q.at = "fetching" => q.page \in Page

(* A cycle at work has a pending request of its own; what it has counted    *)
(* and lost are the rows it created, but for one it is creating.            *)
Balanced(q, f) ==
    /\ f.state = "pending" /\ f.cut = "no"
    /\ f.rows = q.admitted + f.lost + (IF q.at = "created" THEN 1 ELSE 0)
    /\ q.at # "reporting" => f.lost = 0

WorkInv ==
    /\ forages \in Seq(ForageRow)
    /\ \A s \in Cycle : cycle[s].at # "free" =>
          /\ cycle[s].forage \in 1..Len(forages)
          /\ Balanced(cycle[s], forages[cycle[s].forage])
    /\ \A s, t \in Cycle :
          (s # t /\ cycle[s].at # "free" /\ cycle[t].at # "free")
             => cycle[s].forage # cycle[t].forage
    /\ \A i \in 1..Len(forages) :
          /\ (forages[i].state = "pending" /\ forages[i].cut = "no")
                => \E s \in Cycle : cycle[s].at # "free" /\ cycle[s].forage = i
          /\ Told(forages[i])

ShapeInv ==
    /\ cycle \in [Cycle -> CycleState]
    /\ \A s \in Cycle : Shape(cycle[s])
    /\ hashes \subseteq Chunk
    /\ life \in 1..MaxLives /\ lapses \in 0..MaxLapses
    /\ made \in [Chunk -> [rows : Nat, lost : Nat]]

BaseInv == ShapeInv /\ WorkInv

LEMMA NoCycleShape == Shape(NoCycle) /\ NoCycle.at = "free" /\ NoCycle.forage = 0
  BY DEF Shape, NoCycle, CycleState

(* Where a cycle goes on.                                                   *)
LEMMA OnwardFacts ==
    ASSUME NEW q \in CycleState, q.at # "free", NEW n \in Onward(q)
    PROVE  /\ Shape(n)
           /\ n.at \in {"creating", "fetching", "reporting"}
           /\ n.forage = q.forage /\ n.admitted = q.admitted
           /\ n.at = "creating" => n.chunk \in q.todo
           /\ n.todo \subseteq q.todo
           /\ (q.todo = {} /\ q.left = {}) => n.at = "reporting"
<1>1. CASE q.todo # {}
  <2>1. PICK c \in q.todo : n = [q EXCEPT !.at = "creating", !.page = NoPage,
                                          !.chunk = c, !.todo = @ \ {c}]
    BY <1>1 DEF Onward
  <2> DEFINE a == [q EXCEPT !.at = "creating"]
             b == [a EXCEPT !.page = NoPage]
             d == [b EXCEPT !.chunk = c]
             e == [d EXCEPT !.todo = q.todo \ {c}]
  <2>2. n = e
    BY <2>1
  <2>3. a \in CycleState
    BY DEF CycleState
  <2> HIDE DEF a
  <2>4. b \in CycleState
    BY <2>3 DEF CycleState
  <2> HIDE DEF b
  <2>5. d \in CycleState
    BY <2>4 DEF CycleState
  <2> HIDE DEF d
  <2>6. e \in CycleState
    BY <2>5 DEF CycleState
  <2>7. /\ n.at = "creating" /\ n.chunk = c /\ n.todo = q.todo \ {c}
        /\ n.forage = q.forage /\ n.admitted = q.admitted /\ c \in Chunk
    BY <2>1 DEF CycleState
  <2> QED
    BY <1>1, <2>2, <2>6, <2>7 DEF Shape
<1>2. CASE q.todo = {} /\ q.left # {}
  <2>1. PICK p \in q.left : n = [q EXCEPT !.at = "fetching", !.chunk = NoChunk,
                                          !.page = p, !.left = @ \ {p}]
    BY <1>2 DEF Onward
  <2> DEFINE a == [q EXCEPT !.at = "fetching"]
             b == [a EXCEPT !.chunk = NoChunk]
             d == [b EXCEPT !.page = p]
             e == [d EXCEPT !.left = q.left \ {p}]
  <2>2. n = e
    BY <2>1
  <2>3. a \in CycleState
    BY DEF CycleState
  <2> HIDE DEF a
  <2>4. b \in CycleState
    BY <2>3 DEF CycleState
  <2> HIDE DEF b
  <2>5. d \in CycleState
    BY <2>4 DEF CycleState
  <2> HIDE DEF d
  <2>6. e \in CycleState
    BY <2>5 DEF CycleState
  <2>7. /\ n.at = "fetching" /\ n.page = p /\ n.todo = q.todo
        /\ n.forage = q.forage /\ n.admitted = q.admitted /\ p \in Page
    BY <2>1 DEF CycleState
  <2> QED
    BY <1>2, <2>2, <2>6, <2>7 DEF Shape
<1>3. CASE q.todo = {} /\ q.left = {}
  <2>1. n = [q EXCEPT !.at = "reporting", !.page = NoPage, !.chunk = NoChunk]
    BY <1>3 DEF Onward
  <2> DEFINE a == [q EXCEPT !.at = "reporting"]
             b == [a EXCEPT !.page = NoPage]
             d == [b EXCEPT !.chunk = NoChunk]
  <2>2. n = d
    BY <2>1
  <2>3. a \in CycleState
    BY DEF CycleState
  <2> HIDE DEF a
  <2>4. b \in CycleState
    BY <2>3 DEF CycleState
  <2> HIDE DEF b
  <2>5. d \in CycleState
    BY <2>4 DEF CycleState
  <2>6. /\ n.at = "reporting" /\ n.todo = {}
        /\ n.forage = q.forage /\ n.admitted = q.admitted
    BY <1>3, <2>1 DEF CycleState
  <2> QED
    BY <1>3, <2>2, <2>5, <2>6 DEF Shape
<1> QED
  BY <1>1, <1>2, <1>3

-----------------------------------------------------------------------------
(* A cycle at work has told nothing yet.                                    *)
LEMMA UnderWayTold ==
    ASSUME NEW q, NEW f, Balanced(q, f)
    PROVE  Told(f)
  BY DEF Balanced, Told

(* Four kinds of step: a cycle begins, goes on, or ends; the process does.  *)

Begins(s, n) ==
    /\ cycle[s].at = "free" /\ cycle' = [cycle EXCEPT ![s] = n]
    /\ Shape(n) /\ n.at = "searching" /\ n.forage = Len(forages) + 1 /\ n.admitted = 0
    /\ forages' = Append(forages, [state |-> "pending", rows |-> 0, lost |-> 0, told |-> 0, cut |-> "no"])

GoesOn(s, n, f) ==
    /\ cycle[s].at # "free" /\ cycle' = [cycle EXCEPT ![s] = n]
    /\ Shape(n) /\ n.at # "free" /\ n.forage = cycle[s].forage
    /\ f \in ForageRow /\ Balanced(n, f)
    /\ forages' = [forages EXCEPT ![cycle[s].forage] = f]

Ends(s, f) ==
    /\ cycle[s].at # "free" /\ cycle' = [cycle EXCEPT ![s] = NoCycle]
    /\ f \in ForageRow /\ (f.state = "pending" => f.cut # "no") /\ Told(f)
    /\ forages' = [forages EXCEPT ![cycle[s].forage] = f]

LEMMA BeginsStep ==
    ASSUME BaseInv, NEW s \in Cycle, NEW n, Begins(s, n)
    PROVE  cycle' \in [Cycle -> CycleState] /\ (\A t \in Cycle : Shape(cycle'[t])) /\ WorkInv'
<1> DEFINE row == [state |-> "pending", rows |-> 0, lost |-> 0, told |-> 0, cut |-> "no"]
           k == Len(forages) + 1
<1>1. /\ cycle \in [Cycle -> CycleState] /\ forages \in Seq(ForageRow)
      /\ n \in CycleState /\ row \in ForageRow
  BY DEF BaseInv, ShapeInv, WorkInv, Begins, Shape, ForageRow
<1>2. /\ cycle'[s] = n /\ \A t \in Cycle \ {s} : cycle'[t] = cycle[t]
      /\ cycle' \in [Cycle -> CycleState]
  BY <1>1 DEF Begins
<1>3. \A t \in Cycle : Shape(cycle'[t])
  BY <1>2 DEF Begins, BaseInv, ShapeInv
<1>4. /\ forages' \in Seq(ForageRow) /\ Len(forages') = k /\ forages'[k] = row
      /\ \A i \in 1..Len(forages) : forages'[i] = forages[i]
      /\ Len(forages) \in Nat
  BY <1>1 DEF Begins
<1> HIDE DEF row
<1>5. /\ n.at = "searching" /\ n.forage = k /\ n.admitted = 0 /\ cycle[s].at = "free"
  BY DEF Begins
<1>6. Balanced(n, row)
  BY <1>5 DEF Balanced, row
<1>7. \A t \in Cycle : (t # s /\ cycle[t].at # "free") =>
         cycle[t].forage \in 1..Len(forages) /\ Balanced(cycle[t], forages[cycle[t].forage])
  BY DEF BaseInv, WorkInv
<1>8. ASSUME NEW t \in Cycle, cycle'[t].at # "free"
      PROVE  /\ cycle'[t].forage \in 1..Len(forages')
             /\ Balanced(cycle'[t], forages'[cycle'[t].forage])
  <2>1. CASE t = s
    BY <2>1, <1>2, <1>4, <1>5, <1>6
  <2>2. CASE t # s
    BY <2>2, <1>2, <1>4, <1>7, <1>8
  <2> QED
    BY <2>1, <2>2
<1>9. ASSUME NEW t \in Cycle, NEW u \in Cycle, t # u,
             cycle'[t].at # "free", cycle'[u].at # "free"
      PROVE  cycle'[t].forage # cycle'[u].forage
  <2>1. CASE t # s /\ u # s
    BY <2>1, <1>2, <1>9 DEF BaseInv, WorkInv
  <2>2. CASE t = s
    BY <2>2, <1>2, <1>4, <1>5, <1>7, <1>9
  <2>3. CASE u = s
    BY <2>3, <1>2, <1>4, <1>5, <1>7, <1>9
  <2> QED
    BY <2>1, <2>2, <2>3
<1>10. ASSUME NEW i \in 1..Len(forages')
       PROVE  /\ (forages'[i].state = "pending" /\ forages'[i].cut = "no")
                    => \E t \in Cycle : cycle'[t].at # "free" /\ cycle'[t].forage = i
              /\ Told(forages'[i])
  <2>1. CASE i = k
    BY <2>1, <1>2, <1>4, <1>5 DEF row, Told
  <2>2. CASE i \in 1..Len(forages)
    <3>1. forages'[i] = forages[i]
      BY <2>2, <1>4
    <3>2. (forages[i].state = "pending" /\ forages[i].cut = "no")
             => \E t \in Cycle : cycle[t].at # "free" /\ cycle[t].forage = i
      BY <2>2 DEF BaseInv, WorkInv
    <3>3. (forages[i].state = "pending" /\ forages[i].cut = "no")
             => \E t \in Cycle : cycle'[t].at # "free" /\ cycle'[t].forage = i
      BY <3>2, <1>2, <1>5
    <3> QED
      BY <2>2, <3>1, <3>3 DEF BaseInv, WorkInv
  <2> QED
    BY <1>4, <2>1, <2>2
<1> QED
  BY <1>2, <1>3, <1>4, <1>8, <1>9, <1>10 DEF WorkInv

LEMMA GoesOnStep ==
    ASSUME BaseInv, NEW s \in Cycle, NEW n, NEW f, GoesOn(s, n, f)
    PROVE  cycle' \in [Cycle -> CycleState] /\ (\A t \in Cycle : Shape(cycle'[t])) /\ WorkInv'
<1> DEFINE k == cycle[s].forage
<1>1. /\ cycle \in [Cycle -> CycleState] /\ forages \in Seq(ForageRow)
      /\ n \in CycleState /\ f \in ForageRow /\ Balanced(n, f)
      /\ n.at # "free" /\ n.forage = k /\ cycle[s].at # "free"
  BY DEF BaseInv, ShapeInv, WorkInv, GoesOn, Shape
<1>2. /\ cycle'[s] = n /\ \A t \in Cycle \ {s} : cycle'[t] = cycle[t]
      /\ cycle' \in [Cycle -> CycleState]
  BY <1>1 DEF GoesOn
<1>3. \A t \in Cycle : Shape(cycle'[t])
  BY <1>2 DEF GoesOn, BaseInv, ShapeInv
<1>4. \A t \in Cycle : cycle'[t].at # "free" <=> cycle[t].at # "free"
  BY <1>1, <1>2
<1>5. \A t \in Cycle : cycle'[t].at # "free" => cycle'[t].forage = cycle[t].forage
  BY <1>1, <1>2
<1>6. k \in 1..Len(forages)
  BY <1>1 DEF BaseInv, WorkInv
<1>7. /\ forages' \in Seq(ForageRow) /\ Len(forages') = Len(forages) /\ forages'[k] = f
      /\ \A i \in 1..Len(forages) : i # k => forages'[i] = forages[i]
  BY <1>1, <1>6 DEF GoesOn
<1>8. ASSUME NEW t \in Cycle, cycle'[t].at # "free"
      PROVE  /\ cycle'[t].forage \in 1..Len(forages')
             /\ Balanced(cycle'[t], forages'[cycle'[t].forage])
  <2>1. CASE t = s
    BY <2>1, <1>1, <1>2, <1>6, <1>7
  <2>2. CASE t # s
    <3>1. cycle'[t] = cycle[t] /\ cycle[t].at # "free" /\ cycle[t].forage # k
      BY <2>2, <1>1, <1>2, <1>8 DEF BaseInv, WorkInv
    <3>2. cycle[t].forage \in 1..Len(forages) /\ Balanced(cycle[t], forages[cycle[t].forage])
      BY <3>1 DEF BaseInv, WorkInv
    <3> QED
      BY <3>1, <3>2, <1>7
  <2> QED
    BY <2>1, <2>2
<1>9. ASSUME NEW t \in Cycle, NEW u \in Cycle, t # u,
             cycle'[t].at # "free", cycle'[u].at # "free"
      PROVE  cycle'[t].forage # cycle'[u].forage
  BY <1>4, <1>5, <1>9 DEF BaseInv, WorkInv
<1>10. ASSUME NEW i \in 1..Len(forages')
       PROVE  /\ (forages'[i].state = "pending" /\ forages'[i].cut = "no")
                    => \E t \in Cycle : cycle'[t].at # "free" /\ cycle'[t].forage = i
              /\ Told(forages'[i])
  <2>1. CASE i = k
    <3>1. Told(f)
      BY <1>1, UnderWayTold
    <3> QED
      BY <2>1, <1>1, <1>2, <1>7, <3>1 DEF Balanced
  <2>2. CASE i # k
    <3>1. forages'[i] = forages[i] /\ i \in 1..Len(forages)
      BY <2>2, <1>7
    <3> QED
      BY <3>1, <1>4, <1>5 DEF BaseInv, WorkInv
  <2> QED
    BY <2>1, <2>2
<1> QED
  BY <1>2, <1>3, <1>7, <1>8, <1>9, <1>10 DEF WorkInv

LEMMA EndsStep ==
    ASSUME BaseInv, NEW s \in Cycle, NEW f, Ends(s, f)
    PROVE  cycle' \in [Cycle -> CycleState] /\ (\A t \in Cycle : Shape(cycle'[t])) /\ WorkInv'
<1> DEFINE k == cycle[s].forage
<1>1. /\ cycle \in [Cycle -> CycleState] /\ forages \in Seq(ForageRow)
      /\ f \in ForageRow /\ cycle[s].at # "free"
      /\ f.state = "pending" => f.cut # "no"
      /\ Told(f)
  BY DEF BaseInv, ShapeInv, WorkInv, Ends
<1>2. NoCycle \in CycleState /\ NoCycle.at = "free"
  BY NoCycleShape DEF Shape
<1>3. /\ cycle'[s] = NoCycle /\ \A t \in Cycle \ {s} : cycle'[t] = cycle[t]
      /\ cycle' \in [Cycle -> CycleState]
  BY <1>1, <1>2 DEF Ends
<1>4. \A t \in Cycle : Shape(cycle'[t])
  BY <1>3, NoCycleShape DEF BaseInv, ShapeInv
<1>5. \A t \in Cycle : cycle'[t].at # "free" => t # s /\ cycle'[t] = cycle[t]
  BY <1>2, <1>3
<1>6. k \in 1..Len(forages)
  BY <1>1 DEF BaseInv, WorkInv
<1>7. /\ forages' \in Seq(ForageRow) /\ Len(forages') = Len(forages) /\ forages'[k] = f
      /\ \A i \in 1..Len(forages) : i # k => forages'[i] = forages[i]
  BY <1>1, <1>6 DEF Ends
<1>8. ASSUME NEW t \in Cycle, cycle'[t].at # "free"
      PROVE  /\ cycle'[t].forage \in 1..Len(forages')
             /\ Balanced(cycle'[t], forages'[cycle'[t].forage])
  <2>1. t # s /\ cycle'[t] = cycle[t] /\ cycle[t].at # "free"
    BY <1>5, <1>8
  <2>2. cycle[t].forage # k
    BY <2>1, <1>1 DEF BaseInv, WorkInv
  <2>3. cycle[t].forage \in 1..Len(forages) /\ Balanced(cycle[t], forages[cycle[t].forage])
    BY <2>1 DEF BaseInv, WorkInv
  <2> QED
    BY <2>1, <2>2, <2>3, <1>7
<1>9. ASSUME NEW t \in Cycle, NEW u \in Cycle, t # u,
             cycle'[t].at # "free", cycle'[u].at # "free"
      PROVE  cycle'[t].forage # cycle'[u].forage
  BY <1>5, <1>9 DEF BaseInv, WorkInv
<1>10. ASSUME NEW i \in 1..Len(forages')
       PROVE  /\ (forages'[i].state = "pending" /\ forages'[i].cut = "no")
                    => \E t \in Cycle : cycle'[t].at # "free" /\ cycle'[t].forage = i
              /\ Told(forages'[i])
  <2>1. CASE i = k
    BY <2>1, <1>1, <1>7
  <2>2. CASE i # k
    <3>1. forages'[i] = forages[i] /\ i \in 1..Len(forages)
      BY <2>2, <1>7
    <3>2. (forages[i].state = "pending" /\ forages[i].cut = "no") =>
             \E t \in Cycle : t # s /\ cycle[t].at # "free" /\ cycle[t].forage = i
      BY <2>2, <3>1 DEF BaseInv, WorkInv
    <3>3. (forages[i].state = "pending" /\ forages[i].cut = "no") =>
             \E t \in Cycle : cycle'[t].at # "free" /\ cycle'[t].forage = i
      BY <3>2, <1>3
    <3> QED
      BY <3>1, <3>3 DEF BaseInv, WorkInv
  <2> QED
    BY <2>1, <2>2
<1> QED
  BY <1>3, <1>4, <1>7, <1>8, <1>9, <1>10 DEF WorkInv

LEMMA BeginActs ==
    ASSUME BaseInv, NEW s \in Cycle, NEW agent \in BOOLEAN, HandleForageSignal(s, agent)
    PROVE  \E n : Begins(s, n) /\ n.todo = {}
<1> DEFINE a == [NoCycle EXCEPT !.at = "searching"]
           b == [a EXCEPT !.forage = Len(forages) + 1]
           n == [b EXCEPT !.agent = agent]
<1>1. /\ cycle[s] = NoCycle
      /\ forages' = Append(forages, [state |-> "pending", rows |-> 0, lost |-> 0, told |-> 0, cut |-> "no"])
      /\ cycle' = [cycle EXCEPT ![s] = n]
  BY DEF HandleForageSignal, OnForageRequested, Set
<1>2. NoCycle \in CycleState /\ NoCycle.todo = {} /\ NoCycle.admitted = 0
  BY DEF NoCycle, CycleState
<1>3. a \in CycleState /\ a.at = "searching" /\ a.todo = {} /\ a.admitted = 0
  BY <1>2 DEF CycleState
<1> HIDE DEF a
<1>4. Len(forages) + 1 \in Nat
  BY DEF BaseInv, WorkInv
<1>5. /\ b \in CycleState /\ b.at = "searching" /\ b.todo = {} /\ b.admitted = 0
      /\ b.forage = Len(forages) + 1
  BY <1>3, <1>4 DEF CycleState
<1> HIDE DEF b
<1>6. /\ n \in CycleState /\ n.at = "searching" /\ n.todo = {} /\ n.admitted = 0
      /\ n.forage = Len(forages) + 1
  BY <1>5 DEF CycleState
<1> HIDE DEF n
<1>7. Shape(n)
  BY <1>6 DEF Shape
<1>8. Begins(s, n)
  BY <1>1, <1>6, <1>7, NoCycleShape DEF Begins
<1> QED
  BY <1>6, <1>8

(* What is known of a cycle at work.                                        *)
LEMMA AtWork ==
    ASSUME BaseInv, NEW s \in Cycle, cycle[s].at # "free"
    PROVE  /\ cycle[s] \in CycleState /\ Shape(cycle[s])
           /\ cycle[s].forage \in 1..Len(forages)
           /\ Forage(s) \in ForageRow /\ Balanced(cycle[s], Forage(s))
           /\ forages = [forages EXCEPT ![cycle[s].forage] = Forage(s)]
<1>1. cycle[s] \in CycleState /\ Shape(cycle[s]) /\ forages \in Seq(ForageRow)
  BY DEF BaseInv, ShapeInv, WorkInv
<1>2. cycle[s].forage \in 1..Len(forages) /\ Balanced(cycle[s], forages[cycle[s].forage])
  BY DEF BaseInv, WorkInv
<1> QED
  BY <1>1, <1>2 DEF Forage

LEMMA SearchActs ==
    ASSUME BaseInv, NEW s \in Cycle, SearchAnswers(s)
    PROVE  \E n : /\ GoesOn(s, n, Forage(s))
                  /\ n.at \in {"fetching", "reporting"} /\ n.todo = {}
<1>1. cycle[s].at = "searching"
  BY DEF SearchAnswers
<1>2. PICK results \in SUBSET Page : Goes(s, [cycle[s] EXCEPT !.left = results])
  BY DEF SearchAnswers
<1> DEFINE q == [cycle[s] EXCEPT !.left = results]
<1>3. PICK n \in Onward(q) : cycle' = [cycle EXCEPT ![s] = n]
  BY <1>2 DEF Goes, Set
<1>4. /\ q \in CycleState /\ q.at = "searching" /\ q.forage = cycle[s].forage
      /\ q.admitted = cycle[s].admitted /\ q.todo = {}
  BY <1>1, AtWork DEF CycleState, Shape
<1> HIDE DEF q
<1>5. /\ Shape(n) /\ n.at \in {"creating", "fetching", "reporting"}
      /\ n.forage = q.forage /\ n.admitted = q.admitted
      /\ n.at = "creating" => n.chunk \in q.todo
      /\ n.todo \subseteq q.todo
  BY <1>3, <1>4, OnwardFacts
<1>6. Balanced(n, Forage(s))
  BY <1>1, <1>4, <1>5, AtWork DEF Balanced
<1>7. forages' = forages
  BY DEF SearchAnswers
<1>8. GoesOn(s, n, Forage(s))
  BY <1>1, <1>3, <1>4, <1>5, <1>6, <1>7, AtWork DEF GoesOn
<1> QED
  BY <1>4, <1>5, <1>8

LEMMA FetchActs ==
    ASSUME BaseInv, NEW s \in Cycle, FetchAnswers(s)
    PROVE  \E n : /\ GoesOn(s, n, Forage(s)) /\ n.at # "created"
                  /\ n.todo \cap hashes = {}
                  /\ n.at = "creating" => n.chunk \notin hashes
<1>1. cycle[s].at = "fetching"
  BY DEF FetchAnswers
<1>2. PICK admitted \in SUBSET Fresh(cycle[s].page) :
         Goes(s, [cycle[s] EXCEPT !.todo = admitted])
  BY DEF FetchAnswers
<1> DEFINE q == [cycle[s] EXCEPT !.todo = admitted]
<1>3. PICK n \in Onward(q) : cycle' = [cycle EXCEPT ![s] = n]
  BY <1>2 DEF Goes, Set
<1>4. admitted \subseteq Chunk /\ admitted \cap hashes = {}
  <2>1. cycle[s].page \in Page
    BY <1>1, AtWork DEF Shape
  <2> QED
    BY <1>2, <2>1, ForagerAssumption DEF Fresh
<1>5. /\ q \in CycleState /\ q.at = "fetching" /\ q.forage = cycle[s].forage
      /\ q.admitted = cycle[s].admitted /\ q.todo = admitted
  BY <1>1, <1>4, AtWork DEF CycleState
<1> HIDE DEF q
<1>6. /\ Shape(n) /\ n.at \in {"creating", "fetching", "reporting"}
      /\ n.forage = q.forage /\ n.admitted = q.admitted
      /\ n.at = "creating" => n.chunk \in q.todo
      /\ n.todo \subseteq q.todo
  BY <1>3, <1>5, OnwardFacts
<1>7. Balanced(n, Forage(s))
  BY <1>1, <1>5, <1>6, AtWork DEF Balanced
<1>8. forages' = forages
  BY DEF FetchAnswers
<1>9. GoesOn(s, n, Forage(s))
  BY <1>1, <1>3, <1>5, <1>6, <1>7, <1>8, AtWork DEF GoesOn
<1> QED
  BY <1>4, <1>5, <1>6, <1>9

LEMMA CreateActs ==
    ASSUME BaseInv, NEW s \in Cycle, EntryCreated(s)
    PROVE  \E n, f : /\ GoesOn(s, n, f)
                     /\ n.at = "created" /\ n.chunk = cycle[s].chunk /\ n.todo = cycle[s].todo
<1> DEFINE n == [cycle[s] EXCEPT !.at = "created"]
           f == [Forage(s) EXCEPT !.rows = @ + 1]
<1>1. /\ cycle[s].at = "creating" /\ cycle' = [cycle EXCEPT ![s] = n]
      /\ forages' = [forages EXCEPT ![cycle[s].forage] = f]
  BY DEF EntryCreated, Set, Note
<1>2. /\ n \in CycleState /\ n.at = "created" /\ n.chunk = cycle[s].chunk
      /\ n.todo = cycle[s].todo /\ n.forage = cycle[s].forage
      /\ n.admitted = cycle[s].admitted
  BY <1>1, AtWork DEF CycleState
<1>3. Shape(n)
  BY <1>1, <1>2, AtWork DEF Shape
<1>4. /\ f \in ForageRow /\ f.state = Forage(s).state /\ f.lost = Forage(s).lost
      /\ f.cut = Forage(s).cut
      /\ f.rows = Forage(s).rows + 1
  <2>1. Forage(s) \in ForageRow
    BY <1>1, AtWork
  <2>2. ASSUME NEW x \in ForageRow
        PROVE  /\ [x EXCEPT !.rows = @ + 1] \in ForageRow
               /\ [x EXCEPT !.rows = @ + 1].state = x.state
               /\ [x EXCEPT !.rows = @ + 1].lost = x.lost
               /\ [x EXCEPT !.rows = @ + 1].cut = x.cut
               /\ [x EXCEPT !.rows = @ + 1].rows = x.rows + 1
    BY DEF ForageRow
  <2> QED
    BY <2>1, <2>2
<1> HIDE DEF n, f
<1>5. Balanced(n, f)
  <2>1. /\ Forage(s).state = "pending" /\ Forage(s).lost = 0 /\ Forage(s).cut = "no"
        /\ Forage(s).rows = cycle[s].admitted + Forage(s).lost
    BY <1>1, AtWork DEF Balanced, ForageRow, CycleState
  <2>2. cycle[s].admitted \in Nat
    BY <1>1, AtWork DEF CycleState
  <2> QED
    BY <1>2, <1>4, <2>1, <2>2 DEF Balanced
<1>6. GoesOn(s, n, f)
  BY <1>1, <1>2, <1>3, <1>4, <1>5 DEF GoesOn
<1> QED
  BY <1>2, <1>6

LEMMA ReturnActs ==
    ASSUME BaseInv, NEW s \in Cycle, EmissionReturns(s)
    PROVE  \E n : /\ GoesOn(s, n, Forage(s))
                  /\ n.at \in {"creating", "fetching", "reporting"}
                  /\ n.todo \subseteq cycle[s].todo
                  /\ n.at = "creating" => n.chunk \in cycle[s].todo
<1> DEFINE q == [cycle[s] EXCEPT !.admitted = @ + 1]
<1>1. cycle[s].at = "created"
  BY DEF EmissionReturns
<1>2. PICK n \in Onward(q) : cycle' = [cycle EXCEPT ![s] = n]
  BY DEF EmissionReturns, Goes, Set
<1>3. /\ q \in CycleState /\ q.at = "created" /\ q.forage = cycle[s].forage
      /\ q.admitted = cycle[s].admitted + 1 /\ q.todo = cycle[s].todo
  BY <1>1, AtWork DEF CycleState
<1> HIDE DEF q
<1>4. /\ Shape(n) /\ n.at \in {"creating", "fetching", "reporting"}
      /\ n.forage = q.forage /\ n.admitted = q.admitted
      /\ n.at = "creating" => n.chunk \in q.todo
      /\ n.todo \subseteq q.todo
  BY <1>2, <1>3, OnwardFacts
<1>5. Balanced(n, Forage(s))
  <2>1. /\ Forage(s).state = "pending" /\ Forage(s).lost = 0 /\ Forage(s).cut = "no"
        /\ Forage(s).rows = cycle[s].admitted + Forage(s).lost + 1
        /\ cycle[s].admitted \in Nat
    BY <1>1, AtWork DEF Balanced, CycleState
  <2> QED
    BY <1>3, <1>4, <2>1 DEF Balanced
<1>6. forages' = forages
  BY DEF EmissionReturns
<1>7. GoesOn(s, n, Forage(s))
  BY <1>1, <1>2, <1>3, <1>4, <1>5, <1>6, AtWork DEF GoesOn
<1> QED
  BY <1>3, <1>4, <1>7

LEMMA RaiseActs ==
    ASSUME BaseInv, NEW s \in Cycle, EmissionRaises(s)
    PROVE  \E n, f : GoesOn(s, n, f) /\ n.at = "reporting" /\ n.todo = {}
<1> DEFINE a == [cycle[s] EXCEPT !.left = {}]
           q == [a EXCEPT !.todo = {}]
           f == [Forage(s) EXCEPT !.lost = @ + LostRows(s)]
<1>1. cycle[s].at \in {"creating", "created"}
  BY DEF EmissionRaises
<1>2. forages' = [forages EXCEPT ![cycle[s].forage] = f]
  BY DEF EmissionRaises, Note
<1>3. PICK n \in Onward(q) : cycle' = [cycle EXCEPT ![s] = n]
  BY DEF EmissionRaises, Goes, Set
<1>4. /\ a \in CycleState /\ a.at = cycle[s].at /\ a.forage = cycle[s].forage
      /\ a.admitted = cycle[s].admitted /\ a.left = {}
  BY <1>1, AtWork DEF CycleState
<1> HIDE DEF a
<1>5. /\ q \in CycleState /\ q.at = cycle[s].at /\ q.forage = cycle[s].forage
      /\ q.admitted = cycle[s].admitted /\ q.left = {} /\ q.todo = {}
  BY <1>4 DEF CycleState
<1> HIDE DEF q
<1>6. /\ Shape(n) /\ n.at = "reporting" /\ n.forage = q.forage
      /\ n.admitted = q.admitted /\ n.todo \subseteq q.todo
  BY <1>1, <1>3, <1>5, OnwardFacts
<1>7. /\ Forage(s).state = "pending" /\ Forage(s).lost = 0 /\ Forage(s).cut = "no"
      /\ Forage(s).rows = cycle[s].admitted + Forage(s).lost + LostRows(s)
      /\ cycle[s].admitted \in Nat
      /\ LostRows(s) \in 0..1
  BY <1>1, AtWork DEF Balanced, CycleState, LostRows
<1>8. /\ f \in ForageRow /\ f.state = "pending" /\ f.lost = LostRows(s)
      /\ f.cut = "no" /\ f.rows = Forage(s).rows
  BY <1>1, <1>7, AtWork DEF ForageRow
<1> HIDE DEF f
<1>9. Balanced(n, f)
  BY <1>5, <1>6, <1>7, <1>8 DEF Balanced
<1>10. GoesOn(s, n, f)
  BY <1>1, <1>2, <1>3, <1>5, <1>6, <1>8, <1>9 DEF GoesOn
<1> QED
  BY <1>5, <1>6, <1>10

LEMMA CompleteActs ==
    ASSUME BaseInv, NEW s \in Cycle, CycleCompleted(s)
    PROVE  \E f : Ends(s, f)
<1> DEFINE a == [Forage(s) EXCEPT !.state = "summed"]
           f == [a EXCEPT !.told = cycle[s].admitted]
<1>1. /\ cycle[s].at = "reporting" /\ cycle' = [cycle EXCEPT ![s] = NoCycle]
      /\ forages' = [forages EXCEPT ![cycle[s].forage] = f]
  BY DEF CycleCompleted, OnForageCycleCompleted, Note, Set
<1>2. /\ cycle[s].admitted \in Nat
      /\ Forage(s).rows = cycle[s].admitted + Forage(s).lost
      /\ Forage(s) \in ForageRow
  BY <1>1, AtWork DEF Balanced, CycleState, ForageRow
<1>3. /\ a \in ForageRow /\ a.state = "summed" /\ a.lost = Forage(s).lost
      /\ a.rows = Forage(s).rows
  BY <1>2 DEF ForageRow
<1> HIDE DEF a
<1>4. /\ f \in ForageRow /\ f.state = "summed" /\ f.lost = Forage(s).lost
      /\ f.rows = Forage(s).rows /\ f.told = cycle[s].admitted
  BY <1>2, <1>3 DEF ForageRow
<1> HIDE DEF f
<1>5. Ends(s, f)
  BY <1>1, <1>2, <1>4 DEF Ends, ForageRow, Told
<1> QED
  BY <1>5

LEMMA DieActs ==
    ASSUME BaseInv, NEW s \in Cycle, CycleDies(s)
    PROVE  \E f : Ends(s, f)
<1>1. PICK cut \in {"raised", "stopped", "unread"} :
         /\ cut = "raised"  => cycle[s].at \in {"searching", "reporting"}
         /\ cut = "stopped" => cycle[s].at # "free" /\ cycle[s].agent
         /\ cut = "unread"  => cycle[s].at = "reporting" /\ cycle[s].agent
         /\ Note(s, [Forage(s) EXCEPT !.cut = cut, !.told = cycle[s].admitted,
                                      !.lost = @ + LostRows(s)])
  BY DEF CycleDies
<1> DEFINE a == [Forage(s) EXCEPT !.cut = cut]
           b == [a EXCEPT !.told = cycle[s].admitted]
           f == [b EXCEPT !.lost = @ + LostRows(s)]
<1>2. /\ cycle[s].at # "free" /\ cycle' = [cycle EXCEPT ![s] = NoCycle]
      /\ forages' = [forages EXCEPT ![cycle[s].forage] = f]
  BY <1>1 DEF CycleDies, Note, Set
<1>3. /\ Forage(s) \in ForageRow /\ Forage(s).lost + LostRows(s) \in 0..1
      /\ Forage(s).rows = cycle[s].admitted + Forage(s).lost + LostRows(s)
      /\ Forage(s).state = "pending" /\ cycle[s].admitted \in Nat
  BY <1>2, AtWork DEF Balanced, ForageRow, LostRows, CycleState
<1>4. /\ a \in ForageRow /\ a.cut = cut /\ a.lost = Forage(s).lost
      /\ a.rows = Forage(s).rows /\ a.state = "pending"
  BY <1>3 DEF ForageRow
<1> HIDE DEF a
<1>5. /\ b \in ForageRow /\ b.cut = cut /\ b.lost = Forage(s).lost
      /\ b.rows = Forage(s).rows /\ b.state = "pending" /\ b.told = cycle[s].admitted
  BY <1>3, <1>4 DEF ForageRow
<1> HIDE DEF b
<1>6. /\ f \in ForageRow /\ f.cut = cut /\ f.state = "pending"
      /\ f.lost = Forage(s).lost + LostRows(s) /\ f.rows = Forage(s).rows
      /\ f.told = cycle[s].admitted
  BY <1>3, <1>5 DEF ForageRow
<1> HIDE DEF f
<1>7. f.told + f.lost = f.rows
  <2>1. /\ Forage(s).lost \in Nat /\ LostRows(s) \in Nat
    BY <1>3 DEF ForageRow, LostRows
  <2> QED
    BY <1>3, <1>6, <2>1
<1>8. Ends(s, f)
  BY <1>1, <1>2, <1>6, <1>7 DEF Ends, Told
<1> QED
  BY <1>8

(* The process ends: nobody is at work on what is pending.                  *)
LEMMA NewProcessStep ==
    ASSUME BaseInv, NewProcess
    PROVE  cycle' \in [Cycle -> CycleState] /\ (\A t \in Cycle : Shape(cycle'[t])) /\ WorkInv'
<1>1. /\ cycle' = [s \in Cycle |-> NoCycle]
      /\ forages' = [i \in DOMAIN forages |-> Replayed(forages[i])]
  BY DEF NewProcess
<1>2. forages \in Seq(ForageRow)
  BY DEF BaseInv, WorkInv
<1>3. ASSUME NEW f \in ForageRow
      PROVE  /\ Replayed(f) \in ForageRow
             /\ Replayed(f).state = "pending" => Replayed(f).cut # "no"
             /\ Told(f) => Told(Replayed(f))
  BY DEF ForageRow, Replayed, Told
<1>4. /\ forages' \in Seq(ForageRow) /\ Len(forages') = Len(forages)
      /\ \A i \in 1..Len(forages) : forages'[i] = Replayed(forages[i])
  BY <1>1, <1>2, <1>3
<1>5. ASSUME NEW i \in 1..Len(forages)
      PROVE  /\ forages'[i].state = "pending" => forages'[i].cut # "no"
             /\ Told(forages'[i])
  <2>1. forages[i] \in ForageRow
    BY <1>2
  <2> QED
    BY <1>3, <1>4, <2>1 DEF BaseInv, WorkInv
<1>6. \A s \in Cycle : cycle'[s] = NoCycle /\ cycle'[s].at = "free" /\ Shape(cycle'[s])
  BY <1>1, NoCycleShape
<1>7. cycle' \in [Cycle -> CycleState]
  BY <1>1, NoCycleShape DEF Shape
<1> QED
  BY <1>4, <1>5, <1>6, <1>7 DEF WorkInv

(* The steps of cycle s: it begins, goes on or ends.                        *)
CycleAct(s) ==
    \/ DispatchForageSignal(s) \/ RequestForage(s)
    \/ SearchAnswers(s) \/ FetchAnswers(s)
    \/ EntryCreated(s) \/ EmissionReturns(s) \/ EmissionRaises(s)
    \/ CycleCompleted(s) \/ CycleDies(s)

LEMMA CycleActKinds ==
    ASSUME BaseInv, NEW s \in Cycle, CycleAct(s)
    PROVE  \/ \E n : Begins(s, n)
           \/ \E n, f : GoesOn(s, n, f)
           \/ \E f : Ends(s, f)
<1>1. CASE DispatchForageSignal(s) \/ RequestForage(s)
  BY <1>1, BeginActs DEF DispatchForageSignal, RequestForage
<1>2. CASE SearchAnswers(s)
  BY <1>2, SearchActs
<1>3. CASE FetchAnswers(s)
  BY <1>3, FetchActs
<1>4. CASE EntryCreated(s)
  BY <1>4, CreateActs
<1>5. CASE EmissionReturns(s)
  BY <1>5, ReturnActs
<1>6. CASE EmissionRaises(s)
  BY <1>6, RaiseActs
<1>7. CASE CycleCompleted(s)
  BY <1>7, CompleteActs
<1>8. CASE CycleDies(s)
  BY <1>8, DieActs
<1> QED
  BY <1>1, <1>2, <1>3, <1>4, <1>5, <1>6, <1>7, <1>8 DEF CycleAct

(* One more row, or one more lost row, of a chunk.                          *)
LEMMA MoreMade ==
    ASSUME NEW m \in [Chunk -> [rows : Nat, lost : Nat]], NEW c
    PROVE  /\ [m EXCEPT ![c].rows = @ + 1] \in [Chunk -> [rows : Nat, lost : Nat]]
           /\ [m EXCEPT ![c].lost = @ + 1] \in [Chunk -> [rows : Nat, lost : Nat]]
           /\ \A d \in Chunk :
                 /\ [m EXCEPT ![c].rows = @ + 1][d].rows = m[d].rows + (IF d = c THEN 1 ELSE 0)
                 /\ [m EXCEPT ![c].rows = @ + 1][d].lost = m[d].lost
                 /\ [m EXCEPT ![c].lost = @ + 1][d].lost = m[d].lost + (IF d = c THEN 1 ELSE 0)
                 /\ [m EXCEPT ![c].lost = @ + 1][d].rows = m[d].rows
<1>1. ASSUME NEW x \in [rows : Nat, lost : Nat]
      PROVE  /\ [x EXCEPT !.rows = @ + 1] \in [rows : Nat, lost : Nat]
             /\ [x EXCEPT !.rows = @ + 1].rows = x.rows + 1
             /\ [x EXCEPT !.rows = @ + 1].lost = x.lost
             /\ [x EXCEPT !.lost = @ + 1] \in [rows : Nat, lost : Nat]
             /\ [x EXCEPT !.lost = @ + 1].lost = x.lost + 1
             /\ [x EXCEPT !.lost = @ + 1].rows = x.rows
  OBVIOUS
<1> DEFINE r == [m EXCEPT ![c].rows = @ + 1]
           l == [m EXCEPT ![c].lost = @ + 1]
<1>2. ASSUME NEW d \in Chunk
      PROVE  /\ m[d] \in [rows : Nat, lost : Nat]
             /\ r[d] = IF d = c THEN [m[d] EXCEPT !.rows = @ + 1] ELSE m[d]
             /\ l[d] = IF d = c THEN [m[d] EXCEPT !.lost = @ + 1] ELSE m[d]
  OBVIOUS
<1>3. r = [d \in Chunk |-> r[d]] /\ l = [d \in Chunk |-> l[d]]
  OBVIOUS
<1> HIDE DEF r, l
<1>4. ASSUME NEW d \in Chunk
      PROVE  /\ r[d] \in [rows : Nat, lost : Nat] /\ l[d] \in [rows : Nat, lost : Nat]
             /\ r[d].rows = m[d].rows + (IF d = c THEN 1 ELSE 0) /\ r[d].lost = m[d].lost
             /\ l[d].lost = m[d].lost + (IF d = c THEN 1 ELSE 0) /\ l[d].rows = m[d].rows
  <2>1. CASE d = c
    <3>1. /\ m[d] \in [rows : Nat, lost : Nat]
          /\ r[d] = [m[d] EXCEPT !.rows = @ + 1] /\ l[d] = [m[d] EXCEPT !.lost = @ + 1]
      BY <1>2, <2>1
    <3>2. /\ r[d] \in [rows : Nat, lost : Nat] /\ r[d].rows = m[d].rows + 1
          /\ r[d].lost = m[d].lost
          /\ l[d] \in [rows : Nat, lost : Nat] /\ l[d].rows = m[d].rows
          /\ l[d].lost = m[d].lost + 1
      BY <1>1, <3>1
    <3> QED
      BY <2>1, <3>2
  <2>2. CASE d # c
    <3>1. m[d] \in [rows : Nat, lost : Nat] /\ r[d] = m[d] /\ l[d] = m[d]
      BY <1>2, <2>2
    <3> QED
      BY <2>2, <3>1
  <2> QED
    BY <2>1, <2>2
<1>5. /\ r \in [Chunk -> [rows : Nat, lost : Nat]] /\ l \in [Chunk -> [rows : Nat, lost : Nat]]
  BY <1>3, <1>4
<1> QED
  BY <1>4, <1>5 DEF r, l

(* What a step does to the rows that are counted, and to the bounds.        *)
LEMMA RestStep ==
    ASSUME BaseInv, ForagerNext
    PROVE  /\ hashes' \subseteq Chunk
           /\ life' \in 1..MaxLives /\ lapses' \in 0..MaxLapses
           /\ made' \in [Chunk -> [rows : Nat, lost : Nat]]
<1>1. /\ hashes \subseteq Chunk /\ life \in 1..MaxLives /\ lapses \in 0..MaxLapses
      /\ made \in [Chunk -> [rows : Nat, lost : Nat]]
      /\ MaxLives \in Nat /\ MaxLapses \in Nat
  BY ForagerAssumption DEF BaseInv, ShapeInv
<1>2. ASSUME NEW s \in Cycle, RowLost(s)
      PROVE  made' \in [Chunk -> [rows : Nat, lost : Nat]]
  BY <1>1, <1>2 DEF RowLost
<1>3. ASSUME NEW s \in Cycle, CycleAct(s)
      PROVE  /\ hashes' \subseteq Chunk /\ life' = life /\ lapses' \in 0..MaxLapses
             /\ made' \in [Chunk -> [rows : Nat, lost : Nat]]
  <2>1. CASE DispatchForageSignal(s) \/ RequestForage(s)
    BY <1>1, <2>1 DEF DispatchForageSignal, RequestForage, HandleForageSignal
  <2>2. CASE SearchAnswers(s) \/ FetchAnswers(s) \/ CycleCompleted(s)
    BY <1>1, <2>2 DEF SearchAnswers, FetchAnswers, CycleCompleted
  <2>3. CASE EntryCreated(s)
    BY <1>1, <2>3, MoreMade DEF EntryCreated
  <2>4. CASE EmissionReturns(s)
    <3>1. cycle[s].chunk \in Chunk
      BY <2>4 DEF EmissionReturns, BaseInv, ShapeInv, Shape
    <3> QED
      BY <1>1, <2>4, <3>1 DEF EmissionReturns
  <2>5. CASE EmissionRaises(s) \/ CycleDies(s)
    BY <1>1, <1>2, <2>5 DEF EmissionRaises, CycleDies
  <2> QED
    BY <1>3, <2>1, <2>2, <2>3, <2>4, <2>5 DEF CycleAct
<1>4. CASE NewProcess
  BY <1>1, <1>4 DEF NewProcess, NoneMade
<1> QED
  BY <1>1, <1>3, <1>4 DEF ForagerNext, CycleAct

LEMMA BaseStep == BaseInv /\ [ForagerNext]_foragerVars => BaseInv'
<1>1. ASSUME BaseInv, NEW s \in Cycle, CycleAct(s)
      PROVE  cycle' \in [Cycle -> CycleState] /\ (\A t \in Cycle : Shape(cycle'[t])) /\ WorkInv'
  BY <1>1, CycleActKinds, BeginsStep, GoesOnStep, EndsStep
<1>2. ASSUME BaseInv, ForagerNext
      PROVE  BaseInv'
  <2>1. cycle' \in [Cycle -> CycleState] /\ (\A t \in Cycle : Shape(cycle'[t])) /\ WorkInv'
    BY <1>1, <1>2, NewProcessStep DEF ForagerNext, CycleAct
  <2> QED
    BY <1>2, <2>1, RestStep DEF BaseInv, ShapeInv
<1>3. ASSUME BaseInv, UNCHANGED foragerVars
      PROVE  BaseInv'
  BY <1>3 DEF BaseInv, ShapeInv, WorkInv, foragerVars
<1> QED
  BY <1>2, <1>3

LEMMA BaseInit == ForagerInit => BaseInv
<1> SUFFICES ASSUME ForagerInit
             PROVE  BaseInv
  OBVIOUS
<1>1. \A s \in Cycle : cycle[s] = NoCycle
  BY DEF ForagerInit
<1>2. cycle \in [Cycle -> CycleState] /\ \A s \in Cycle : Shape(cycle[s])
  BY NoCycleShape DEF ForagerInit, Shape
<1>3. WorkInv
  BY <1>1, NoCycleShape DEF ForagerInit, WorkInv
<1> QED
  BY <1>2, <1>3, ForagerAssumption DEF ForagerInit, BaseInv, ShapeInv, NoneMade

LEMMA BaseInvariant == ForagerSpec => []BaseInv
  BY BaseInit, BaseStep, PTL DEF ForagerSpec

(* The forager's variables keep their types.                                *)
THEOREM ForagerTypeCorrect == ForagerSpec => []ForagerTypeOK
<1>1. BaseInv => ForagerTypeOK
  <2> SUFFICES ASSUME BaseInv
               PROVE  ForagerTypeOK
    OBVIOUS
  <2>1. ASSUME NEW s \in Cycle
        PROVE  cycle[s] \in CycleState /\ cycle[s].forage \in 0..Len(forages)
    <3>1. cycle[s] \in CycleState /\ forages \in Seq(ForageRow)
      BY DEF BaseInv, ShapeInv, WorkInv
    <3>2. CASE cycle[s].at = "free"
      BY <3>1, <3>2, NoCycleShape DEF BaseInv, ShapeInv, Shape
    <3>3. CASE cycle[s].at # "free"
      BY <3>1, <3>3 DEF BaseInv, WorkInv
    <3> QED
      BY <3>1, <3>2, <3>3
  <2>2. \A s \in Cycle :
          /\ cycle[s].at \in {"free", "searching", "fetching", "creating",
                              "created", "reporting"}
          /\ cycle[s].forage \in 0..Len(forages)
          /\ cycle[s].left \subseteq Page /\ cycle[s].todo \subseteq Chunk
          /\ cycle[s].page \in Page \cup {NoPage}
          /\ cycle[s].chunk \in Chunk \cup {NoChunk}
    BY <2>1 DEF CycleState
  <2> QED
    BY <2>2 DEF BaseInv, ShapeInv, WorkInv, ForageRow, ForagerTypeOK
<1> QED
  BY <1>1, BaseInvariant, PTL

(* A pending forage has a cycle at work on it, or was cut by a raise of its *)
(* broadcast or report, a stop or the end of the process and is nobody's    *)
(* for ever; every summary is true (forager.py:765-815).                    *)
THEOREM ForagesAreAccounted == ForagerSpec => []ForagesAccounted
<1>1. BaseInv => ForagesAccounted
  <2> SUFFICES ASSUME BaseInv, NEW i \in DOMAIN forages
               PROVE  /\ forages[i].state = "pending" =>
                            (forages[i].cut = "no" <=> \E s \in Cycle : cycle[s].forage = i)
                      /\ forages[i].state = "summed" =>
                            forages[i].told + forages[i].lost = forages[i].rows
    BY DEF ForagesAccounted
  <2>1. i \in 1..Len(forages) /\ i # 0
    BY DEF BaseInv, WorkInv
  <2>2. ASSUME NEW s \in Cycle, cycle[s].forage = i
        PROVE  forages[i].cut = "no"
    <3>1. cycle[s].at # "free"
      BY <2>1, <2>2, NoCycleShape DEF BaseInv, ShapeInv, Shape
    <3> QED
      BY <2>2, <3>1 DEF BaseInv, WorkInv, Balanced
  <2>3. (forages[i].state = "pending" /\ forages[i].cut = "no")
           => \E s \in Cycle : cycle[s].forage = i
    BY <2>1 DEF BaseInv, WorkInv
  <2>4. Told(forages[i])
    BY <2>1 DEF BaseInv, WorkInv
  <2> QED
    BY <2>2, <2>3, <2>4 DEF Told
<1> QED
  BY <1>1, BaseInvariant, PTL

(* A request that was cut for good is never summed, nor taken up by any     *)
(* later cycle or process (projections.py:2077-2087).                       *)
CutForGood ==
    [][\A i \in DOMAIN forages :
          (forages[i].state = "pending" /\ forages[i].cut \in {"raised", "stopped", "ended"})
          => i \in DOMAIN forages' /\ forages'[i] = forages[i]]_foragerVars

THEOREM CutStaysPending == ForagerSpec => CutForGood
<1> DEFINE Cut(i) == forages[i].state = "pending"
                     /\ forages[i].cut \in {"raised", "stopped", "ended"}
<1>1. ASSUME BaseInv, ForagerNext, NEW i \in DOMAIN forages, Cut(i)
      PROVE  i \in DOMAIN forages' /\ forages'[i] = forages[i]
  <2>1. i \in 1..Len(forages) /\ forages \in Seq(ForageRow)
    BY <1>1 DEF BaseInv, WorkInv
  <2>2. \A s \in Cycle : cycle[s].at # "free" => cycle[s].forage # i
    BY <1>1 DEF BaseInv, WorkInv, Balanced
  <2>3. ASSUME NEW s \in Cycle, NEW n, Begins(s, n)
        PROVE  i \in DOMAIN forages' /\ forages'[i] = forages[i]
    BY <2>1, <2>3 DEF Begins, ForageRow
  <2>4. ASSUME NEW s \in Cycle, NEW n, NEW f, GoesOn(s, n, f)
        PROVE  i \in DOMAIN forages' /\ forages'[i] = forages[i]
    BY <2>1, <2>2, <2>4 DEF GoesOn
  <2>5. ASSUME NEW s \in Cycle, NEW f, Ends(s, f)
        PROVE  i \in DOMAIN forages' /\ forages'[i] = forages[i]
    BY <2>1, <2>2, <2>5 DEF Ends
  <2>6. CASE NewProcess
    BY <1>1, <2>1, <2>6 DEF NewProcess, Replayed
  <2>7. CASE \E s \in Cycle : CycleAct(s)
    BY <1>1, <2>3, <2>4, <2>5, <2>7, CycleActKinds
  <2> QED
    BY <1>1, <2>6, <2>7 DEF ForagerNext, CycleAct
<1>2. BaseInv /\ [ForagerNext]_foragerVars =>
         [\A i \in DOMAIN forages : Cut(i) => i \in DOMAIN forages' /\ forages'[i] = forages[i]]_foragerVars
  BY <1>1
<1> QED
  BY <1>2, BaseInvariant, PTL DEF ForagerSpec, CutForGood

(* The cycles that may yet create an entry of chunk c, and those that have  *)
(* and wait for its emission to return.                                     *)
Wants(q, c)    == c \in q.todo \/ (q.at = "creating" /\ q.chunk = c)
Has(q, c)      == q.at = "created" /\ q.chunk = c
WantersOf(c) == {s \in Cycle : Wants(cycle[s], c)}
HoldersOf(c) == {s \in Cycle : Has(cycle[s], c)}

(* Until a chunk is remembered its rows are those lost and those held; from *)
(* then on nobody new comes to want it.                                     *)
CountInv ==
    \A c \in Chunk :
        /\ c \notin hashes => made[c].rows = made[c].lost + Cardinality(HoldersOf(c))
        /\ c \in hashes =>
              made[c].rows + Cardinality(WantersOf(c)) <= made[c].lost + Cardinality(Cycle)

(* Cardinalities of the sets of cycles.                                     *)
LEMMA Sizes ==
    ASSUME NEW S \in SUBSET Cycle, NEW T \in SUBSET Cycle
    PROVE  /\ IsFiniteSet(S) /\ Cardinality(S) \in Nat /\ Cardinality(Cycle) \in Nat
           /\ Cardinality(S) <= Cardinality(Cycle)
           /\ S \subseteq T => Cardinality(S) <= Cardinality(T)
           /\ \A s \in T : S = T \ {s} => Cardinality(S) = Cardinality(T) - 1
           /\ S \cap T = {} => Cardinality(S) + Cardinality(T) <= Cardinality(Cycle)
<1>1. IsFiniteSet(Cycle)
  BY ForagerAssumption
<1>2. /\ IsFiniteSet(S) /\ IsFiniteSet(T) /\ Cardinality(S) <= Cardinality(Cycle)
      /\ IsFiniteSet(S \cup T) /\ Cardinality(S \cup T) <= Cardinality(Cycle)
  BY <1>1, FS_Subset
<1>3. /\ Cardinality(S) \in Nat /\ Cardinality(T) \in Nat /\ Cardinality(Cycle) \in Nat
      /\ Cardinality(S \cup T) \in Nat
  BY <1>1, <1>2, FS_CardinalityType
<1>4. S \subseteq T => Cardinality(S) <= Cardinality(T)
  BY <1>2, FS_Subset
<1>5. \A s \in T : S = T \ {s} => Cardinality(S) = Cardinality(T) - 1
  BY <1>2, FS_RemoveElement
<1>6. S \cap T = {} => Cardinality(S \cup T) = Cardinality(S) + Cardinality(T)
  <2>1. Cardinality(S \cup T) = Cardinality(S) + Cardinality(T) - Cardinality(S \cap T)
    BY <1>2, FS_Union
  <2> QED
    BY <1>3, <2>1, FS_EmptySet
<1> QED
  BY <1>2, <1>3, <1>4, <1>5, <1>6

(* A step of cycle s changes only its own place.                            *)
LEMMA Places ==
    ASSUME BaseInv, NEW s \in Cycle, NEW n, cycle' = [cycle EXCEPT ![s] = n], NEW c
    PROVE  /\ HoldersOf(c)' \subseteq Cycle /\ WantersOf(c)' \subseteq Cycle
           /\ HoldersOf(c) \subseteq Cycle /\ WantersOf(c) \subseteq Cycle
           /\ (s \in HoldersOf(c)') <=> Has(n, c)
           /\ (s \in HoldersOf(c)) <=> Has(cycle[s], c)
           /\ (s \in WantersOf(c)') <=> Wants(n, c)
           /\ (s \in WantersOf(c)) <=> Wants(cycle[s], c)
           /\ HoldersOf(c)' \ {s} = HoldersOf(c) \ {s}
           /\ WantersOf(c)' \ {s} = WantersOf(c) \ {s}
           /\ (Has(n, c) <=> Has(cycle[s], c)) => HoldersOf(c)' = HoldersOf(c)
           /\ (Wants(n, c) <=> Wants(cycle[s], c)) => WantersOf(c)' = WantersOf(c)
           /\ (Wants(n, c) => Wants(cycle[s], c)) => WantersOf(c)' \subseteq WantersOf(c)
<1>1. cycle'[s] = n /\ \A t \in Cycle \ {s} : cycle'[t] = cycle[t]
  BY DEF BaseInv, ShapeInv
<1>2. \A t \in Cycle : (Has(cycle'[t], c) <=> IF t = s THEN Has(n, c) ELSE Has(cycle[t], c))
  BY <1>1
<1>3. \A t \in Cycle : (Wants(cycle'[t], c) <=> IF t = s THEN Wants(n, c) ELSE Wants(cycle[t], c))
  BY <1>1
<1>4. HoldersOf(c)' = {t \in Cycle : Has(cycle'[t], c)} /\ WantersOf(c)' = {t \in Cycle : Wants(cycle'[t], c)}
  BY DEF HoldersOf, WantersOf
<1> QED
  BY <1>2, <1>3, <1>4 DEF HoldersOf, WantersOf

(* A cycle that holds a chunk wants it no more.                             *)
LEMMA Apart ==
    ASSUME BaseInv, NEW c
    PROVE  HoldersOf(c) \cap WantersOf(c) = {}
  BY DEF HoldersOf, WantersOf, Has, Wants, BaseInv, ShapeInv, Shape

(* A step that creates nothing and drops nothing.                           *)
LEMMA QuietCount ==
    ASSUME BaseInv, CountInv, NEW s \in Cycle, NEW n, cycle' = [cycle EXCEPT ![s] = n],
           made' = made, hashes' = hashes, cycle[s].at # "created", n.at # "created",
           \A c \in hashes : Wants(n, c) => Wants(cycle[s], c)
    PROVE  CountInv'
<1> SUFFICES ASSUME NEW c \in Chunk
             PROVE  /\ c \notin hashes' =>
                          made'[c].rows = made'[c].lost + Cardinality(HoldersOf(c)')
                    /\ c \in hashes' => made'[c].rows + Cardinality(WantersOf(c)')
                                          <= made'[c].lost + Cardinality(Cycle)
  BY DEF CountInv
<1>1. HoldersOf(c)' = HoldersOf(c)
  BY Places DEF Has
<1>2. c \in hashes => WantersOf(c)' \subseteq WantersOf(c)
  BY Places
<1>3. /\ c \in hashes => Cardinality(WantersOf(c)') <= Cardinality(WantersOf(c))
      /\ Cardinality(WantersOf(c)') \in Nat /\ Cardinality(WantersOf(c)) \in Nat
      /\ Cardinality(Cycle) \in Nat
  BY <1>2, Places, Sizes
<1>4. made[c].rows \in Nat /\ made[c].lost \in Nat
  BY DEF BaseInv, ShapeInv
<1> QED
  BY <1>1, <1>3, <1>4 DEF CountInv

(* The row of a new entry.                                                  *)
LEMMA CreateCount ==
    ASSUME BaseInv, CountInv, NEW s \in Cycle, EntryCreated(s)
    PROVE  CountInv'
<1>1. PICK n : /\ cycle' = [cycle EXCEPT ![s] = n] /\ n.at = "created"
               /\ n.chunk = cycle[s].chunk /\ n.todo = cycle[s].todo
  BY CreateActs DEF GoesOn
<1>2. /\ cycle[s].at = "creating" /\ hashes' = hashes
      /\ made' = [made EXCEPT ![cycle[s].chunk].rows = @ + 1]
      /\ cycle[s].chunk \notin cycle[s].todo
  BY DEF EntryCreated, BaseInv, ShapeInv, Shape
<1> SUFFICES ASSUME NEW c \in Chunk
             PROVE  /\ c \notin hashes' =>
                          made'[c].rows = made'[c].lost + Cardinality(HoldersOf(c)')
                    /\ c \in hashes' => made'[c].rows + Cardinality(WantersOf(c)')
                                          <= made'[c].lost + Cardinality(Cycle)
  BY DEF CountInv
<1>3. made[c].rows \in Nat /\ made[c].lost \in Nat
  BY DEF BaseInv, ShapeInv
<1>4. /\ made'[c].rows = made[c].rows + (IF c = cycle[s].chunk THEN 1 ELSE 0)
      /\ made'[c].lost = made[c].lost
  BY <1>2, MoreMade DEF BaseInv, ShapeInv
<1>5. CASE c = cycle[s].chunk
  <2>1. /\ s \in HoldersOf(c)' /\ s \notin HoldersOf(c)
        /\ s \in WantersOf(c) /\ s \notin WantersOf(c)'
    <3>1. /\ Has(n, c) /\ ~Has(cycle[s], c)
          /\ Wants(cycle[s], c) /\ ~Wants(n, c)
      BY <1>1, <1>2, <1>5 DEF Has, Wants
    <3> QED
      BY <1>1, <3>1, Places
  <2>2. HoldersOf(c) = HoldersOf(c)' \ {s} /\ WantersOf(c)' = WantersOf(c) \ {s}
    BY <1>1, <2>1, Places
  <2>3. /\ HoldersOf(c)' \in SUBSET Cycle /\ WantersOf(c)' \in SUBSET Cycle
        /\ HoldersOf(c) \in SUBSET Cycle /\ WantersOf(c) \in SUBSET Cycle
    BY <1>1, Places
  <2>4. /\ Cardinality(HoldersOf(c)) = Cardinality(HoldersOf(c)') - 1
        /\ Cardinality(WantersOf(c)') = Cardinality(WantersOf(c)) - 1
        /\ Cardinality(HoldersOf(c)') \in Nat /\ Cardinality(WantersOf(c)) \in Nat
        /\ Cardinality(Cycle) \in Nat
    BY <2>1, <2>2, <2>3, Sizes
  <2> QED
    BY <1>2, <1>3, <1>4, <1>5, <2>4 DEF CountInv
<1>6. CASE c # cycle[s].chunk
  <2>1. HoldersOf(c)' = HoldersOf(c) /\ WantersOf(c)' = WantersOf(c)
    BY <1>1, <1>2, <1>6, Places DEF Has, Wants
  <2> QED
    BY <1>2, <1>3, <1>4, <1>6, <2>1 DEF CountInv
<1> QED
  BY <1>5, <1>6

(* An emission returned, and the chunk is remembered: whoever holds it has  *)
(* its row counted, and does not want it again.                             *)
LEMMA ReturnCount ==
    ASSUME BaseInv, CountInv, NEW s \in Cycle, EmissionReturns(s)
    PROVE  CountInv'
<1>1. PICK n : /\ cycle' = [cycle EXCEPT ![s] = n]
               /\ n.at \in {"creating", "fetching", "reporting"}
               /\ n.todo \subseteq cycle[s].todo
               /\ n.at = "creating" => n.chunk \in cycle[s].todo
  BY ReturnActs DEF GoesOn
<1>2. /\ cycle[s].at = "created" /\ hashes' = hashes \cup {cycle[s].chunk}
      /\ made' = made /\ cycle[s].chunk \notin cycle[s].todo
  BY DEF EmissionReturns, BaseInv, ShapeInv, Shape
<1> SUFFICES ASSUME NEW c \in Chunk
             PROVE  /\ c \notin hashes' =>
                          made'[c].rows = made'[c].lost + Cardinality(HoldersOf(c)')
                    /\ c \in hashes' => made'[c].rows + Cardinality(WantersOf(c)')
                                          <= made'[c].lost + Cardinality(Cycle)
  BY DEF CountInv
<1>3. made[c].rows \in Nat /\ made[c].lost \in Nat
  BY DEF BaseInv, ShapeInv
<1>4. WantersOf(c)' \subseteq WantersOf(c)
  BY <1>1, Places DEF Wants
<1>5. /\ HoldersOf(c)' \in SUBSET Cycle /\ WantersOf(c)' \in SUBSET Cycle
      /\ HoldersOf(c) \in SUBSET Cycle /\ WantersOf(c) \in SUBSET Cycle
  BY <1>1, Places
<1>6. /\ Cardinality(WantersOf(c)') <= Cardinality(WantersOf(c))
      /\ Cardinality(HoldersOf(c)) + Cardinality(WantersOf(c)') <= Cardinality(Cycle)
      /\ Cardinality(HoldersOf(c)) \in Nat /\ Cardinality(WantersOf(c)) \in Nat
      /\ Cardinality(WantersOf(c)') \in Nat /\ Cardinality(Cycle) \in Nat
  <2>1. HoldersOf(c) \cap WantersOf(c)' = {}
    BY <1>4, Apart
  <2> QED
    BY <1>4, <1>5, <2>1, Sizes
<1>7. CASE c \in hashes
  BY <1>2, <1>3, <1>6, <1>7 DEF CountInv
<1>8. CASE c \notin hashes /\ c = cycle[s].chunk
  BY <1>2, <1>3, <1>6, <1>8 DEF CountInv
<1>9. CASE c \notin hashes /\ c # cycle[s].chunk
  <2>1. HoldersOf(c)' = HoldersOf(c)
    BY <1>1, <1>9, Places DEF Has
  <2> QED
    BY <1>2, <1>3, <1>9, <2>1 DEF CountInv
<1> QED
  BY <1>7, <1>8, <1>9

(* A cycle drops what it had in hand: the row it held is lost.              *)
LEMMA DropCount ==
    ASSUME BaseInv, CountInv, NEW s \in Cycle, NEW n, cycle' = [cycle EXCEPT ![s] = n],
           n.at \notin {"creating", "created"}, n.todo = {}, RowLost(s), hashes' = hashes
    PROVE  CountInv'
<1> SUFFICES ASSUME NEW c \in Chunk
             PROVE  /\ c \notin hashes' =>
                          made'[c].rows = made'[c].lost + Cardinality(HoldersOf(c)')
                    /\ c \in hashes' => made'[c].rows + Cardinality(WantersOf(c)')
                                          <= made'[c].lost + Cardinality(Cycle)
  BY DEF CountInv
<1>1. made[c].rows \in Nat /\ made[c].lost \in Nat
  BY DEF BaseInv, ShapeInv
<1>2. s \notin HoldersOf(c)' /\ WantersOf(c)' \subseteq WantersOf(c)
  <2>1. ~Has(n, c) /\ ~Wants(n, c)
    BY DEF Has, Wants
  <2> QED
    BY <2>1, Places
<1>3. /\ HoldersOf(c)' \in SUBSET Cycle /\ WantersOf(c)' \in SUBSET Cycle
      /\ HoldersOf(c) \in SUBSET Cycle /\ WantersOf(c) \in SUBSET Cycle
  BY Places
<1>4. /\ Cardinality(WantersOf(c)') <= Cardinality(WantersOf(c))
      /\ Cardinality(HoldersOf(c)) \in Nat /\ Cardinality(WantersOf(c)) \in Nat
      /\ Cardinality(WantersOf(c)') \in Nat /\ Cardinality(Cycle) \in Nat
  BY <1>2, <1>3, Sizes
<1>5. CASE Has(cycle[s], c)
  <2>1. made' = [made EXCEPT ![cycle[s].chunk].lost = @ + 1] /\ c = cycle[s].chunk
    BY <1>5 DEF RowLost, Has
  <2>2. made'[c].rows = made[c].rows /\ made'[c].lost = made[c].lost + 1
    BY <2>1, MoreMade DEF BaseInv, ShapeInv
  <2>3. s \in HoldersOf(c) /\ HoldersOf(c)' = HoldersOf(c) \ {s}
    BY <1>2, <1>5, Places
  <2>4. Cardinality(HoldersOf(c)') = Cardinality(HoldersOf(c)) - 1
    BY <1>3, <2>3, Sizes
  <2> QED
    BY <1>1, <1>4, <2>2, <2>4 DEF CountInv
<1>6. CASE ~Has(cycle[s], c)
  <2>1. made'[c].rows = made[c].rows /\ made'[c].lost = made[c].lost
    <3>1. CASE cycle[s].at = "created"
      <4>1. /\ made' = [made EXCEPT ![cycle[s].chunk].lost = @ + 1] /\ c # cycle[s].chunk
            /\ made \in [Chunk -> [rows : Nat, lost : Nat]]
        BY <1>6, <3>1 DEF RowLost, Has, BaseInv, ShapeInv
      <4> QED
        BY <1>1, <4>1, MoreMade
    <3>2. CASE cycle[s].at # "created"
      BY <3>2 DEF RowLost
    <3> QED
      BY <3>1, <3>2
  <2>2. HoldersOf(c)' = HoldersOf(c)
    BY <1>2, <1>6, Places
  <2> QED
    BY <1>1, <1>4, <2>1, <2>2 DEF CountInv
<1> QED
  BY <1>5, <1>6

LEMMA CountStep == BaseInv /\ CountInv /\ [ForagerNext]_foragerVars => CountInv'
<1>1. NoCycle.at = "free" /\ NoCycle.todo = {}
  BY DEF NoCycle
<1>2. ASSUME BaseInv, CountInv, NEW s \in Cycle, NEW agent \in BOOLEAN,
             HandleForageSignal(s, agent)
      PROVE  CountInv'
  <2>1. PICK n : Begins(s, n) /\ n.todo = {}
    BY <1>2, BeginActs
  <2>2. /\ cycle' = [cycle EXCEPT ![s] = n] /\ n.at = "searching" /\ cycle[s].at = "free"
        /\ made' = made /\ hashes' = hashes
    BY <1>2, <2>1 DEF Begins, HandleForageSignal
  <2> QED
    BY <1>2, <2>1, <2>2, QuietCount DEF Wants
<1>3. ASSUME BaseInv, CountInv, NEW s \in Cycle, SearchAnswers(s)
      PROVE  CountInv'
  <2>1. PICK n : /\ cycle' = [cycle EXCEPT ![s] = n]
                 /\ n.at \in {"fetching", "reporting"} /\ n.todo = {}
    BY <1>3, SearchActs DEF GoesOn
  <2>2. made' = made /\ hashes' = hashes /\ cycle[s].at = "searching"
    BY <1>3 DEF SearchAnswers
  <2> QED
    BY <1>3, <2>1, <2>2, QuietCount DEF Wants
<1>4. ASSUME BaseInv, CountInv, NEW s \in Cycle, FetchAnswers(s)
      PROVE  CountInv'
  <2>1. PICK n : /\ cycle' = [cycle EXCEPT ![s] = n] /\ n.at # "created"
                 /\ n.todo \cap hashes = {}
                 /\ n.at = "creating" => n.chunk \notin hashes
    BY <1>4, FetchActs DEF GoesOn
  <2>2. made' = made /\ hashes' = hashes /\ cycle[s].at = "fetching"
    BY <1>4 DEF FetchAnswers
  <2>3. \A c \in hashes : ~Wants(n, c)
    BY <2>1 DEF Wants
  <2> QED
    BY <1>4, <2>1, <2>2, <2>3, QuietCount
<1>5. ASSUME BaseInv, CountInv, NEW s \in Cycle, CycleCompleted(s)
      PROVE  CountInv'
  <2>1. /\ cycle' = [cycle EXCEPT ![s] = NoCycle] /\ cycle[s].at = "reporting"
        /\ made' = made /\ hashes' = hashes
    BY <1>5 DEF CycleCompleted, Set
  <2> QED
    BY <1>1, <1>5, <2>1, QuietCount DEF Wants
<1>6. ASSUME BaseInv, CountInv, NEW s \in Cycle, EmissionRaises(s)
      PROVE  CountInv'
  <2>1. PICK n : cycle' = [cycle EXCEPT ![s] = n] /\ n.at = "reporting" /\ n.todo = {}
    BY <1>6, RaiseActs DEF GoesOn
  <2>2. RowLost(s) /\ hashes' = hashes
    BY <1>6 DEF EmissionRaises
  <2> QED
    BY <1>6, <2>1, <2>2, DropCount
<1>7. ASSUME BaseInv, CountInv, NEW s \in Cycle, CycleDies(s)
      PROVE  CountInv'
  <2>1. cycle' = [cycle EXCEPT ![s] = NoCycle] /\ RowLost(s) /\ hashes' = hashes
    BY <1>7 DEF CycleDies, Set
  <2> QED
    BY <1>1, <1>7, <2>1, DropCount
<1>8. ASSUME NewProcess
      PROVE  CountInv'
  <2>1. /\ hashes' = {} /\ cycle' = [s \in Cycle |-> NoCycle]
        /\ \A c \in Chunk : made'[c].rows = 0 /\ made'[c].lost = 0
    BY <1>8 DEF NewProcess, NoneMade
  <2>2. \A c : HoldersOf(c)' = {}
    BY <1>1, <2>1 DEF HoldersOf, Has
  <2>3. Cardinality({}) = 0
    BY FS_EmptySet
  <2> QED
    BY <2>1, <2>2, <2>3 DEF CountInv
<1>9. ASSUME CountInv, UNCHANGED foragerVars
      PROVE  CountInv'
  BY <1>9 DEF foragerVars, CountInv, HoldersOf, WantersOf
<1>10. ASSUME BaseInv, CountInv, NEW s \in Cycle, CycleAct(s)
       PROVE  CountInv'
  <2>1. CASE DispatchForageSignal(s) \/ RequestForage(s)
    BY <1>2, <1>10, <2>1 DEF DispatchForageSignal, RequestForage
  <2> QED
    BY <1>3, <1>4, <1>5, <1>6, <1>7, <1>10, <2>1, CreateCount, ReturnCount DEF CycleAct
<1> QED
  BY <1>8, <1>9, <1>10 DEF ForagerNext, CycleAct

(* The hash of a chunk keeps it from being created again (forager.py:594):  *)
(* in one process at most once per cycle and per emission that was lost.    *)
THEOREM CreatedOncePerCycle == ForagerSpec => []CreatedPerLife
<1>1. ForagerInit => CountInv
  <2> SUFFICES ASSUME ForagerInit
               PROVE  CountInv
    OBVIOUS
  <2>1. /\ hashes = {} /\ \A c : HoldersOf(c) = {}
        /\ \A c \in Chunk : made[c].rows = 0 /\ made[c].lost = 0
    BY DEF ForagerInit, NoCycle, NoneMade, HoldersOf, Has
  <2> QED
    BY <2>1, FS_EmptySet DEF CountInv
<1>2. BaseInv /\ CountInv => CreatedPerLife
  <2> SUFFICES ASSUME BaseInv, CountInv, NEW c \in Chunk
               PROVE  made[c].rows <= Cardinality(Cycle) + made[c].lost
    BY DEF CreatedPerLife
  <2>1. /\ Cardinality(HoldersOf(c)) \in Nat /\ Cardinality(WantersOf(c)) \in Nat
        /\ Cardinality(Cycle) \in Nat /\ Cardinality(HoldersOf(c)) <= Cardinality(Cycle)
    BY Sizes DEF HoldersOf, WantersOf
  <2>2. made[c].rows \in Nat /\ made[c].lost \in Nat
    BY DEF BaseInv, ShapeInv
  <2> QED
    BY <2>1, <2>2 DEF CountInv
<1> QED
  BY <1>1, <1>2, CountStep, BaseInvariant, PTL DEF ForagerSpec

-----------------------------------------------------------------------------
(* Autonomous operations: the invariants.                                   *)

SweepState ==
    [pc : {"idle", "dispatch", "review", "continue", "continued", "approved"},
     spawn : {"no", "asked", "made"}, act : {0} \cup Id, cost : Nat, active : Nat,
     left : Nat, level : Level, colony : Nat, todo : Seq(Id)]

SpawnedColony == [act : {0} \cup Id, cost : Nat, status : {"spawned", "tasked", "over"}]

Memory == [approved : SUBSET Id, charged : Nat, forgotten : Nat, unbriefed : BOOLEAN]

(* What was approved is approved, executed or failed for ever.              *)
Accepted == {"approved", "executed", "failed"}

(* The ids of the ledger are its own and older than the next one.           *)
LedgerInv ==
    /\ ledger \in Seq(Action) /\ nextId \in 1..(MaxActions + 1)
    /\ history.approved \in SUBSET Id
    /\ \A i, j \in 1..Len(ledger) : ledger[i].id = ledger[j].id => i = j
    /\ \A i \in 1..Len(ledger) : ledger[i].id < nextId
    /\ \A id \in history.approved : id < nextId
    /\ \A i \in 1..Len(ledger) :
          ledger[i].id \in history.approved <=> ledger[i].status \in Accepted

(* Whatever runs an action was started after its approval.                  *)
DeskInv ==
    /\ asked \in SUBSET [act : Id, colony : Nat] /\ reviews \in SUBSET Id
    /\ \A h \in asked : h.act \in history.approved /\ h.colony \in 0..Len(colonies)

ColoniesInv ==
    /\ colonies \in Seq(SpawnedColony)
    /\ \A c \in 1..Len(colonies) : colonies[c].act \in {0} \cup history.approved

(* What the sweep has in hand.                                              *)
SweepInv ==
    /\ sweep \in SweepState
    /\ sweep.act \in {0} \cup history.approved
    /\ \A i \in 1..Len(sweep.todo) : sweep.todo[i] \in history.approved
    /\ sweep.spawn = "made" =>
          sweep.colony \in 1..Len(colonies) /\ colonies[sweep.colony].status = "spawned"
    /\ sweep.spawn # "no" => sweep.pc \in {"dispatch", "continue", "approved"}
    /\ sweep.pc = "dispatch" => sweep.act = 0
    /\ sweep.pc = "approved" => sweep.cost = 0
    /\ sweep.pc # "approved" => sweep.todo = <<>>
    /\ \A i, j \in 1..Len(sweep.todo) : sweep.todo[i] = sweep.todo[j] => i = j
    /\ sweep.spawn # "no" => \A i \in 1..Len(sweep.todo) : sweep.todo[i] # sweep.act

(* The colonies an action has had, and those it may still get: from its     *)
(* handler and, in this life of the process, from the sweep.                *)
RunsOf(id) == {c \in 1..Len(colonies) : colonies[c].act = id}

MayHandle(id) == [act |-> id, colony |-> 0] \in asked

Approved(id) == \E i \in 1..Len(ledger) : ledger[i].id = id /\ ledger[i].status = "approved"

MaySweep(id) ==
    \/ Approved(id) /\ ~(sweep.spawn = "made" /\ sweep.act = id)
    \/ sweep.spawn = "asked" /\ sweep.act = id
    \/ \E i \in 1..Len(sweep.todo) : sweep.todo[i] = id

One(b) == IF b THEN 1 ELSE 0

RunsInv ==
    \A id \in Id :
        Cardinality(RunsOf(id)) + One(MayHandle(id)) + One(MaySweep(id)) <= 2 + crashes

(* The day's money: what the file counts, what is spawned and not booked,   *)
(* and what is about to be spawned.                                         *)
Saved    == IF persisted.date = day THEN persisted.spend ELSE 0
Unbooked == IF sweep.spawn = "made" THEN sweep.cost ELSE 0
Ahead    == IF sweep.spawn = "asked" THEN sweep.cost ELSE 0

ClockInv ==
    /\ spend \in Nat /\ lastReset \in Nat /\ persisted \in [date : Nat, spend : Nat]
    /\ day \in Nat /\ crashes \in Nat
    /\ estimates \in SUBSET (1..Len(colonies))
    /\ \A c \in estimates : colonies[c].status = "spawned"
    /\ persisted.date <= day /\ lastReset <= day /\ day > 0
    /\ lastReset = day => Saved <= spend
    /\ sweep.pc = "dispatch" => sweep.left <= Budget
    /\ sweep.pc = "dispatch" /\ sweep.spawn # "no" => sweep.cost <= sweep.left
    /\ Ahead <= Budget

MoneyInv ==
    /\ history \in Memory
    /\ ~history.unbriefed =>
          /\ sweep.pc # "idle" => Saved <= spend
          /\ history.charged <= Saved + Unbooked + history.forgotten
          /\ history.charged + Ahead <= Budget + history.forgotten
          /\ sweep.pc = "dispatch" =>
                history.charged + sweep.left <= Budget + history.forgotten + Unbooked

SweepingInv == /\ LedgerInv /\ DeskInv /\ ColoniesInv /\ SweepInv
               /\ RunsInv /\ ClockInv /\ MoneyInv

-----------------------------------------------------------------------------
(* The ledger.                                                              *)

LEMMA TheRecord ==
    ASSUME LedgerInv, NEW i \in 1..Len(ledger)
    PROVE  Present(ledger[i].id) /\ Record(ledger[i].id) = ledger[i]
<1>1. DOMAIN ledger = 1..Len(ledger)
  BY DEF LedgerInv
<1>2. Entry(ledger[i].id) = {i}
  BY <1>1 DEF Entry, LedgerInv
<1> QED
  BY <1>2 DEF Present, Record

LEMMA RecordOf ==
    ASSUME LedgerInv, NEW id, Present(id)
    PROVE  \E i \in 1..Len(ledger) : ledger[i].id = id /\ Record(id) = ledger[i]
<1>1. DOMAIN ledger = 1..Len(ledger)
  BY DEF LedgerInv
<1>2. PICK i \in 1..Len(ledger) : ledger[i].id = id
  BY <1>1 DEF Present, Entry
<1> QED
  BY <1>2, TheRecord

LEMMA Rewritten ==
    ASSUME LedgerInv, NEW id, NEW status \in Status
    PROVE  LET u == UpdateAction(id, status) IN
           /\ u \in Seq(Action) /\ Len(u) = Len(ledger)
           /\ \A i \in 1..Len(ledger) :
                 /\ u[i].id = ledger[i].id
                 /\ u[i].status = IF ledger[i].id = id THEN status ELSE ledger[i].status
<1> DEFINE u == UpdateAction(id, status)
<1>1. DOMAIN ledger = 1..Len(ledger) /\ Len(ledger) \in Nat
  BY DEF LedgerInv
<1>2. u = [i \in 1..Len(ledger) |-> IF ledger[i].id = id
                                     THEN [ledger[i] EXCEPT !.status = status] ELSE ledger[i]]
  BY <1>1 DEF UpdateAction, Entry
<1>3. \A i \in 1..Len(ledger) : ledger[i] \in Action
  BY DEF LedgerInv
<1>4. ASSUME NEW e \in Action
      PROVE  /\ [e EXCEPT !.status = status] \in Action
             /\ [e EXCEPT !.status = status].id = e.id
             /\ [e EXCEPT !.status = status].status = status
  BY DEF Action
<1>5. \A i \in 1..Len(ledger) :
          u[i] = IF ledger[i].id = id THEN [ledger[i] EXCEPT !.status = status] ELSE ledger[i]
  BY <1>2
<1>6. \A i \in 1..Len(ledger) : u[i] \in Action
  BY <1>3, <1>4, <1>5
<1>7. u \in Seq(Action) /\ Len(u) = Len(ledger)
  <2>1. u \in [1..Len(ledger) -> Action]
    BY <1>2, <1>6
  <2> HIDE DEF u
  <2> QED
    BY <1>1, <2>1
<1>8. \A i \in 1..Len(ledger) :
          /\ u[i].id = ledger[i].id
          /\ u[i].status = IF ledger[i].id = id THEN status ELSE ledger[i].status
  <2> TAKE i \in 1..Len(ledger)
  <2>1. CASE ledger[i].id = id
    <3>1. u[i] = [ledger[i] EXCEPT !.status = status]
      BY <1>5, <2>1
    <3> HIDE DEF u
    <3> QED
      BY <1>3, <1>4, <2>1, <3>1
  <2>2. CASE ledger[i].id # id
    BY <1>5, <2>2
  <2> QED
    BY <2>1, <2>2
<1> QED
  BY <1>7, <1>8

LEMMA LedgerKept ==
    ASSUME LedgerInv, UNCHANGED <<ledger, nextId>>, history'.approved = history.approved
    PROVE  LedgerInv'
BY DEF LedgerInv

LEMMA LedgerAppended ==
    ASSUME LedgerInv, NEW kind \in Kind, NEW status \in Status, AppendAction(kind, status),
           status \notin Accepted, history'.approved = history.approved
    PROVE  LedgerInv'
<1> DEFINE e == [id |-> nextId, kind |-> kind, status |-> status]
<1>1. /\ ledger \in Seq(Action) /\ Len(ledger) \in Nat
      /\ nextId \in Id /\ nextId' = nextId + 1 /\ nextId + 1 \in 1..(MaxActions + 1)
  BY AutonomyAssumption DEF LedgerInv, AppendAction, Id
<1>2. e \in Action /\ e.id = nextId /\ e.status = status
  BY <1>1 DEF Action
<1>3. ledger' = Append(ledger, e)
  BY DEF AppendAction
<1> HIDE DEF e
<1>4. /\ ledger' \in Seq(Action) /\ Len(ledger') = Len(ledger) + 1
      /\ ledger'[Len(ledger) + 1] = e
      /\ \A i \in 1..Len(ledger) : ledger'[i] = ledger[i]
  BY <1>1, <1>2, <1>3
<1>5. \A i \in 1..Len(ledger') : i \in 1..Len(ledger) \/ i = Len(ledger) + 1
  BY <1>1, <1>4
<1>6. \A i \in 1..Len(ledger) : ledger[i].id < nextId
  BY DEF LedgerInv
<1>7. \A i, j \in 1..Len(ledger') : ledger'[i].id = ledger'[j].id => i = j
  <2>1. ASSUME NEW i \in 1..Len(ledger)
        PROVE  ledger[i].id # nextId
    <3>1. ledger[i] \in Action
      BY <1>1
    <3> QED
      BY <1>1, <1>6, <3>1 DEF Action, Id
  <2> QED
    BY <1>1, <1>2, <1>4, <1>5, <2>1 DEF LedgerInv
<1>8. \A i \in 1..Len(ledger') : ledger'[i].id < nextId'
  <2> TAKE i \in 1..Len(ledger')
  <2>1. CASE i \in 1..Len(ledger)
    <3>1. ledger[i] \in Action
      BY <1>1, <2>1
    <3> QED
      BY <1>1, <1>4, <1>6, <2>1, <3>1 DEF Action, Id
  <2>2. CASE i = Len(ledger) + 1
    BY <1>1, <1>2, <1>4, <2>2 DEF Id
  <2> QED
    BY <1>5, <2>1, <2>2
<1>9. \A id \in history'.approved : id < nextId'
  BY <1>1 DEF LedgerInv, Id
<1>10. nextId \notin history.approved
  BY <1>1 DEF LedgerInv, Id
<1>11. ASSUME NEW i \in 1..Len(ledger')
       PROVE  ledger'[i].id \in history'.approved <=> ledger'[i].status \in Accepted
  <2>1. CASE i \in 1..Len(ledger)
    BY <1>4, <2>1 DEF LedgerInv
  <2>2. CASE i = Len(ledger) + 1
    BY <1>2, <1>4, <1>10, <2>2
  <2> QED
    BY <1>5, <2>1, <2>2
<1> QED
  BY <1>1, <1>4, <1>7, <1>8, <1>9, <1>11 DEF LedgerInv

LEMMA LedgerUpdated ==
    ASSUME LedgerInv, NEW id, NEW status \in {"rejected", "executed", "failed"},
           Allows(id, status), ledger' = UpdateAction(id, status), nextId' = nextId,
           history'.approved = history.approved
    PROVE  LedgerInv'
<1>1. status \in Status
  BY DEF Status
<1>2. /\ ledger' \in Seq(Action) /\ Len(ledger') = Len(ledger)
      /\ \A i \in 1..Len(ledger) :
            /\ ledger'[i].id = ledger[i].id
            /\ ledger'[i].status = IF ledger[i].id = id THEN status ELSE ledger[i].status
  BY <1>1, Rewritten
<1>3. ASSUME NEW i \in 1..Len(ledger), ledger[i].id = id
      PROVE  ledger[i].status \in Accepted <=> status \in Accepted
  <2>1. ledger[i] \in Action
    BY DEF LedgerInv
  <2>2. ledger[i].status \in Status
    BY <2>1 DEF Action
  <2>3. status \in Transitions[ledger[i].status]
    BY <1>3, TheRecord DEF Allows
  <2> QED
    BY <2>2, <2>3 DEF Transitions, Status, Accepted
<1>4. \A i \in 1..Len(ledger') :
          ledger'[i].id \in history'.approved <=> ledger'[i].status \in Accepted
  BY <1>2, <1>3 DEF LedgerInv
<1> QED
  BY <1>2, <1>4 DEF LedgerInv

LEMMA LedgerApproved ==
    ASSUME LedgerInv, NEW id, Present(id), Allows(id, "approved"),
           ledger' = UpdateAction(id, "approved"), nextId' = nextId,
           history'.approved = history.approved \cup {id}
    PROVE  LedgerInv' /\ id \notin history.approved /\ id \in Id
<1>1. /\ ledger' \in Seq(Action) /\ Len(ledger') = Len(ledger)
      /\ \A i \in 1..Len(ledger) :
            /\ ledger'[i].id = ledger[i].id
            /\ ledger'[i].status = IF ledger[i].id = id THEN "approved" ELSE ledger[i].status
  BY Rewritten DEF Status
<1>2. PICK i \in 1..Len(ledger) : ledger[i].id = id /\ Record(id) = ledger[i]
  BY RecordOf
<1>3. ledger[i].status \in Status /\ "approved" \in Transitions[ledger[i].status] /\ id \in Id
  <2>1. ledger[i] \in Action
    BY DEF LedgerInv
  <2> QED
    BY <1>2, <2>1 DEF Allows, Action
<1>4. id \notin history.approved /\ id < nextId
  BY <1>2, <1>3 DEF Transitions, Status, Accepted, LedgerInv
<1>5. \A j \in 1..Len(ledger') :
          ledger'[j].id \in history'.approved <=> ledger'[j].status \in Accepted
  BY <1>1 DEF LedgerInv, Accepted
<1> QED
  BY <1>1, <1>3, <1>4, <1>5 DEF LedgerInv

(* Compaction keeps some of the actions, among them all that are pending.   *)
LEMMA CompactedKeeps ==
    ASSUME LedgerInv
    PROVE  /\ Compacted \in Seq(Action)
           /\ \A j \in 1..Len(Compacted) : \E i \in 1..Len(ledger) : Compacted[j] = ledger[i]
           /\ \A j, k \in 1..Len(Compacted) : Compacted[j] = Compacted[k] => j = k
           /\ \A i \in 1..Len(ledger) : ledger[i].status = "pending_review" =>
                 \E j \in 1..Len(Compacted) : Compacted[j] = ledger[i]
<1> DEFINE P == {e \in Action : LivesOn(e)}
           S == {e \in Action : ~LivesOn(e)}
           p == Kept(ledger, P)
           s == Kept(ledger, S)
           n == Len(s) - Keep + 1
           q == SubSeq(s, n, Len(s))
<1>1. ledger \in Seq(Action) /\ Distinct(ledger)
  BY DEF LedgerInv, Distinct
<1>2. Picks(ledger, P, p, Len(ledger)) /\ Picks(ledger, S, s, Len(ledger))
  BY <1>1, KeptElements
<1>3. p \in Seq(Action) /\ s \in Seq(Action)
  BY <1>1, KeptType
<1>4. Compacted = IF Len(ledger) <= Compact \/ Len(s) <= Keep THEN ledger ELSE p \o q
  BY DEF Compacted
<1>5. P \cap S = {}
  OBVIOUS
<1>6. \A i \in 1..Len(ledger) : ledger[i].status = "pending_review" => ledger[i] \in P
  BY <1>1 DEF LivesOn
<1> HIDE DEF P, S, p, s
<1>7. CASE Len(ledger) <= Compact \/ Len(s) <= Keep
  BY <1>1, <1>4, <1>7 DEF Distinct
<1>8. CASE ~(Len(ledger) <= Compact \/ Len(s) <= Keep)
  <2>1. /\ Len(s) \in Nat /\ Len(p) \in Nat /\ Keep \in Nat /\ Keep < Len(s)
        /\ n \in 2..(Len(s) + 1)
    <3>1. Len(s) \in Nat /\ Len(p) \in Nat /\ Keep \in Nat
      BY <1>3, AutonomyAssumption
    <3>2. Keep < Len(s)
      BY <1>8, <3>1
    <3>3. n \in 2..(Len(s) + 1)
      BY <3>1, <3>2
    <3> QED
      BY <3>1, <3>2, <3>3
  <2>2. /\ q \in Seq(Action) /\ Len(q) = Keep
        /\ \A i \in 1..Len(q) : n + i - 1 \in 1..Len(s) /\ q[i] = s[n + i - 1]
    BY <1>3, <2>1
  <2> HIDE DEF q
  <2>3. /\ p \o q \in Seq(Action) /\ Len(p \o q) = Len(p) + Len(q)
        /\ \A i \in 1..Len(p) : i \in 1..Len(p \o q) /\ (p \o q)[i] = p[i]
        /\ \A i \in 1..Len(q) : (p \o q)[Len(p) + i] = q[i]
    <3>1. p \o q \in Seq(Action) /\ Len(p \o q) = Len(p) + Len(q)
      BY <1>3, <2>2, ConcatProperties
    <3>2. \A i \in 1..Len(p) : i \in 1..Len(p \o q) /\ (p \o q)[i] = p[i]
      BY <1>3, <2>1, <2>2
    <3>3. ASSUME NEW i \in 1..Len(q)
          PROVE  (p \o q)[Len(p) + i] = q[i]
      <4>1. Len(p) + i \in 1..(Len(p) + Len(q)) /\ ~(Len(p) + i <= Len(p)) /\ (Len(p) + i) - Len(p) = i
        BY <2>1, <2>2
      <4>2. (p \o q)[Len(p) + i] = IF Len(p) + i <= Len(p) THEN p[Len(p) + i] ELSE q[(Len(p) + i) - Len(p)]
        BY ONLY <1>3, <2>2, <4>1, ConcatProperties
      <4> QED
        BY ONLY <4>1, <4>2
    <3> QED
      BY <3>1, <3>2, <3>3
  <2>4. ASSUME NEW j \in 1..Len(p \o q)
        PROVE  j \in 1..Len(p) \/ (j - Len(p) \in 1..Len(q) /\ j = Len(p) + (j - Len(p)))
    BY <2>1, <2>2, <2>3
  <2>5. ASSUME NEW j \in 1..Len(p \o q)
        PROVE  \/ j \in 1..Len(p) /\ (p \o q)[j] = p[j]
               \/ j - Len(p) \in 1..Len(q) /\ (p \o q)[j] = q[j - Len(p)]
    BY <2>3, <2>4
  <2>6. \A i \in 1..Len(p) : p[i] \in P /\ \E k \in 1..Len(ledger) : ledger[k] = p[i]
    BY <1>2 DEF Picks
  <2>7. \A i \in 1..Len(q) : q[i] \in S /\ \E k \in 1..Len(ledger) : ledger[k] = q[i]
    <3>1. \A i \in 1..Len(s) : s[i] \in S /\ \E k \in 1..Len(ledger) : ledger[k] = s[i]
      BY <1>2 DEF Picks
    <3> HIDE DEF n
    <3> QED
      BY <2>2, <3>1
  <2>8. \A i, j \in 1..Len(p) : p[i] = p[j] => i = j
    BY <1>1, <1>2 DEF Picks, Distinct
  <2>9. \A i, j \in 1..Len(q) : q[i] = q[j] => i = j
    <3>1. \A i, j \in 1..Len(s) : s[i] = s[j] => i = j
      BY <1>1, <1>2 DEF Picks, Distinct
    <3> TAKE i \in 1..Len(q), j \in 1..Len(q)
    <3>2. /\ n + i - 1 \in 1..Len(s) /\ q[i] = s[n + i - 1]
          /\ n + j - 1 \in 1..Len(s) /\ q[j] = s[n + j - 1]
      BY ONLY <2>2
    <3>3. q[i] = q[j] => n + i - 1 = n + j - 1
      BY ONLY <3>1, <3>2
    <3>4. n \in Int /\ i \in Int /\ j \in Int
      BY <2>1, <2>2
    <3> HIDE DEF n
    <3> QED
      BY <3>3, <3>4
  <2>10. \A j \in 1..Len(p \o q) : \E i \in 1..Len(ledger) : (p \o q)[j] = ledger[i]
    BY <2>5, <2>6, <2>7
  <2>11. ASSUME NEW j \in 1..Len(p \o q), NEW k \in 1..Len(p \o q), (p \o q)[j] = (p \o q)[k]
         PROVE  j = k
    <3>1. CASE j \in 1..Len(p) /\ k \in 1..Len(p)
      BY <2>3, <2>8, <2>11, <3>1
    <3>2. CASE j - Len(p) \in 1..Len(q) /\ k - Len(p) \in 1..Len(q)
      <4>1. (p \o q)[j] = q[j - Len(p)] /\ (p \o q)[k] = q[k - Len(p)]
        BY <2>1, <2>3, <3>2
      <4>2. j - Len(p) = k - Len(p)
        BY <2>9, <2>11, <3>2, <4>1
      <4> QED
        BY <2>1, <4>2
    <3>3. ~(j \in 1..Len(p) /\ k - Len(p) \in 1..Len(q) /\ (p \o q)[j] = p[j] /\ (p \o q)[k] = q[k - Len(p)])
      BY <1>5, <2>6, <2>7, <2>11
    <3>4. ~(k \in 1..Len(p) /\ j - Len(p) \in 1..Len(q) /\ (p \o q)[k] = p[k] /\ (p \o q)[j] = q[j - Len(p)])
      BY <1>5, <2>6, <2>7, <2>11
    <3> QED
      BY <2>5, <3>1, <3>2, <3>3, <3>4
  <2>12. ASSUME NEW i \in 1..Len(ledger), ledger[i].status = "pending_review"
         PROVE  \E j \in 1..Len(p \o q) : (p \o q)[j] = ledger[i]
    <3>1. ledger[i] \in P
      BY <1>6, <2>12
    <3>2. PICK j \in 1..Len(p) : p[j] = ledger[i]
      BY <1>2, <3>1 DEF Picks
    <3> QED
      BY <2>3, <3>2
  <2>13. Compacted = p \o q
    BY <1>4, <1>8
  <2> QED
    BY <2>3, <2>10, <2>11, <2>12, <2>13
<1> QED
  BY <1>7, <1>8

LEMMA LedgerCompacted ==
    ASSUME LedgerInv, ledger' = Compacted, nextId' = nextId,
           history'.approved = history.approved
    PROVE  LedgerInv'
<1>1. \A j \in 1..Len(ledger') : \E i \in 1..Len(ledger) : ledger'[j] = ledger[i]
  BY CompactedKeeps
<1>2. ASSUME NEW j \in 1..Len(ledger'), NEW k \in 1..Len(ledger'),
             ledger'[j].id = ledger'[k].id
      PROVE  j = k
  <2>1. PICK i \in 1..Len(ledger) : ledger'[j] = ledger[i]
    BY <1>1
  <2>2. PICK l \in 1..Len(ledger) : ledger'[k] = ledger[l]
    BY <1>1
  <2>3. i = l
    BY <1>2, <2>1, <2>2 DEF LedgerInv
  <2> QED
    BY <2>1, <2>2, <2>3, CompactedKeeps
<1>3. ledger' \in Seq(Action)
  BY CompactedKeeps
<1> QED
  BY <1>1, <1>2, <1>3 DEF LedgerInv

-----------------------------------------------------------------------------
(* What the actions make of the sweep.                                      *)

SweepIs(s, pc, spawn, act, cost, left, colony, todo) ==
    /\ s \in SweepState
    /\ s.pc = pc /\ s.spawn = spawn /\ s.act = act /\ s.cost = cost
    /\ s.left = left /\ s.colony = colony /\ s.todo = todo

Stage == {"idle", "dispatch", "review", "continue", "continued", "approved"}

LEMMA IdleIs == SweepIs(Idle, "idle", "no", 0, 0, 0, 0, <<>>)
BY DEF SweepIs, SweepState, Idle, Level

LEMMA Resting ==
    ASSUME NEW pc \in Stage, NEW todo \in Seq(Id)
    PROVE  /\ SweepIs([Idle EXCEPT !.pc = pc], pc, "no", 0, 0, 0, 0, <<>>)
           /\ SweepIs([Idle EXCEPT !.pc = pc, !.todo = todo], pc, "no", 0, 0, 0, 0, todo)
           /\ SweepIs([Idle EXCEPT !.todo = todo, !.pc = pc], pc, "no", 0, 0, 0, 0, todo)
<1>1. SweepIs(Idle, "idle", "no", 0, 0, 0, 0, <<>>)
  BY IdleIs
<1> QED
  BY <1>1 DEF SweepIs, SweepState, Stage

LEMMA Briefed ==
    ASSUME NEW level \in Level, NEW active \in Nat, NEW left \in Nat
    PROVE  SweepIs([Idle EXCEPT !.pc = "dispatch", !.level = level, !.active = active,
                                !.left = left],
                   "dispatch", "no", 0, 0, left, 0, <<>>)
<1> DEFINE h == [Idle EXCEPT !.pc = "dispatch", !.level = level]
           s == [h EXCEPT !.active = active, !.left = left]
<1>1. SweepIs(h, "dispatch", "no", 0, 0, 0, 0, <<>>)
  BY IdleIs DEF SweepIs, SweepState
<1>2. s = [Idle EXCEPT !.pc = "dispatch", !.level = level, !.active = active, !.left = left]
  OBVIOUS
<1>3. SweepIs(s, "dispatch", "no", 0, 0, left, 0, <<>>)
  <2> HIDE DEF h
  <2> QED
    BY <1>1 DEF SweepIs, SweepState
<1> QED
  BY <1>2, <1>3

LEMMA Asking ==
    ASSUME NEW s \in SweepState, NEW cost \in Nat, NEW id \in Id, NEW todo \in Seq(Id)
    PROVE  /\ SweepIs([s EXCEPT !.spawn = "asked", !.cost = cost],
                      s.pc, "asked", s.act, cost, s.left, s.colony, s.todo)
           /\ SweepIs([s EXCEPT !.spawn = "asked", !.cost = cost, !.act = id],
                      s.pc, "asked", id, cost, s.left, s.colony, s.todo)
           /\ SweepIs([s EXCEPT !.spawn = "asked", !.act = id, !.todo = todo],
                      s.pc, "asked", id, s.cost, s.left, s.colony, todo)
<1>1. SweepIs([s EXCEPT !.spawn = "asked", !.cost = cost],
              s.pc, "asked", s.act, cost, s.left, s.colony, s.todo)
  BY DEF SweepIs, SweepState
<1> DEFINE h == [s EXCEPT !.spawn = "asked", !.cost = cost]
           k == [s EXCEPT !.spawn = "asked", !.act = id]
<1>2. /\ [h EXCEPT !.act = id] = [s EXCEPT !.spawn = "asked", !.cost = cost, !.act = id]
      /\ [k EXCEPT !.todo = todo] = [s EXCEPT !.spawn = "asked", !.act = id, !.todo = todo]
  OBVIOUS
<1>3. SweepIs(k, s.pc, "asked", id, s.cost, s.left, s.colony, s.todo)
  BY DEF SweepIs, SweepState
<1>4. SweepIs([h EXCEPT !.act = id], s.pc, "asked", id, cost, s.left, s.colony, s.todo)
  <2>1. SweepIs(h, s.pc, "asked", s.act, cost, s.left, s.colony, s.todo)
    BY <1>1
  <2> HIDE DEF h
  <2> QED
    BY <2>1 DEF SweepIs, SweepState
<1>5. SweepIs([k EXCEPT !.todo = todo], s.pc, "asked", id, s.cost, s.left, s.colony, todo)
  <2> HIDE DEF k
  <2> QED
    BY <1>3 DEF SweepIs, SweepState
<1> QED
  BY <1>1, <1>2, <1>4, <1>5

LEMMA Making ==
    ASSUME NEW s \in SweepState, NEW c \in Nat
    PROVE  SweepIs([s EXCEPT !.spawn = "made", !.colony = c],
                   s.pc, "made", s.act, s.cost, s.left, c, s.todo)
BY DEF SweepIs, SweepState

LEMMA Booking ==
    ASSUME NEW s \in SweepState, s.cost <= s.left
    PROVE  SweepIs([s EXCEPT !.spawn = "no", !.cost = 0, !.colony = 0,
                             !.active = @ + 1, !.left = @ - s.cost],
                   s.pc, "no", s.act, 0, s.left - s.cost, 0, s.todo)
<1> DEFINE g == [s EXCEPT !.spawn = "no", !.cost = 0]
           h == [g EXCEPT !.colony = 0, !.active = s.active + 1]
           k == [h EXCEPT !.left = s.left - s.cost]
<1>1. /\ s.left - s.cost \in Nat /\ s.active + 1 \in Nat
      /\ g.active = s.active
  BY DEF SweepState
<1>2. k = [s EXCEPT !.spawn = "no", !.cost = 0, !.colony = 0,
                    !.active = @ + 1, !.left = @ - s.cost]
  OBVIOUS
<1>3. SweepIs(g, s.pc, "no", s.act, 0, s.left, s.colony, s.todo)
  BY DEF SweepIs, SweepState
<1>4. SweepIs(h, s.pc, "no", s.act, 0, s.left, 0, s.todo)
  <2> HIDE DEF g
  <2> QED
    BY <1>1, <1>3 DEF SweepIs, SweepState
<1>5. SweepIs(k, s.pc, "no", s.act, 0, s.left - s.cost, 0, s.todo)
  <2> HIDE DEF h
  <2> QED
    BY <1>1, <1>4 DEF SweepIs, SweepState
<1> QED
  BY <1>2, <1>5

(* What the properties remember.                                            *)
LEMMA Remembering ==
    ASSUME NEW h \in Memory, NEW n \in Nat
    PROVE  /\ LET x == [h EXCEPT !.unbriefed = TRUE] IN
              x \in Memory /\ x.approved = h.approved /\ x.unbriefed
           /\ LET x == [h EXCEPT !.charged = @ + n] IN
              /\ x \in Memory /\ x.approved = h.approved /\ x.charged = h.charged + n
              /\ x.forgotten = h.forgotten /\ x.unbriefed = h.unbriefed
           /\ LET x == [h EXCEPT !.forgotten = @ + n] IN
              /\ x \in Memory /\ x.approved = h.approved /\ x.charged = h.charged
              /\ x.forgotten = h.forgotten + n /\ x.unbriefed = h.unbriefed
           /\ \A id \in Id : LET x == [h EXCEPT !.approved = @ \cup {id}] IN
              /\ x \in Memory /\ x.approved = h.approved \cup {id} /\ x.charged = h.charged
              /\ x.forgotten = h.forgotten /\ x.unbriefed = h.unbriefed
           /\ LET x == [h EXCEPT !.charged = 0, !.forgotten = 0, !.unbriefed = FALSE] IN
              /\ x \in Memory /\ x.approved = h.approved /\ x.charged = 0
              /\ x.forgotten = 0
<1>1. LET x == [h EXCEPT !.unbriefed = TRUE] IN
      x \in Memory /\ x.approved = h.approved /\ x.unbriefed
  BY DEF Memory
<1>2. LET x == [h EXCEPT !.charged = @ + n] IN
      /\ x \in Memory /\ x.approved = h.approved /\ x.charged = h.charged + n
      /\ x.forgotten = h.forgotten /\ x.unbriefed = h.unbriefed
  BY DEF Memory
<1>3. LET x == [h EXCEPT !.forgotten = @ + n] IN
      /\ x \in Memory /\ x.approved = h.approved /\ x.charged = h.charged
      /\ x.forgotten = h.forgotten + n /\ x.unbriefed = h.unbriefed
  BY DEF Memory
<1>4. ASSUME NEW id \in Id
      PROVE  LET x == [h EXCEPT !.approved = @ \cup {id}] IN
      /\ x \in Memory /\ x.approved = h.approved \cup {id} /\ x.charged = h.charged
      /\ x.forgotten = h.forgotten /\ x.unbriefed = h.unbriefed
  BY DEF Memory
<1>5. LET x == [h EXCEPT !.charged = 0, !.forgotten = 0, !.unbriefed = FALSE] IN
      /\ x \in Memory /\ x.approved = h.approved /\ x.charged = 0
      /\ x.forgotten = 0
  <2> DEFINE g == [h EXCEPT !.charged = 0, !.forgotten = 0]
  <2>1. [g EXCEPT !.unbriefed = FALSE] = [h EXCEPT !.charged = 0, !.forgotten = 0, !.unbriefed = FALSE]
    OBVIOUS
  <2>2. g \in Memory /\ g.approved = h.approved /\ g.charged = 0 /\ g.forgotten = 0
    BY DEF Memory
  <2>3. LET x == [g EXCEPT !.unbriefed = FALSE] IN
        /\ x \in Memory /\ x.approved = h.approved /\ x.charged = 0
        /\ x.forgotten = 0
    <3> HIDE DEF g
    <3> QED
      BY <2>2 DEF Memory
  <2> QED
    BY <2>1, <2>3
<1> QED
  BY <1>1, <1>2, <1>3, <1>4, <1>5

LEMMA IdFacts == 0 \notin Id /\ Id \subseteq Nat
BY AutonomyAssumption DEF Id

(* The list of step 7: ids of the ledger that are approved, each once.      *)
LEMMA DueIds ==
    ASSUME LedgerInv, NEW due,
           due = Kept(Compacted, {e \in Action :
                         e.kind # "knowledge_review" /\ e.status \in ToExecute})
    PROVE  LET todo == [i \in DOMAIN due |-> due[i].id] IN
           /\ todo \in Seq(Id)
           /\ \A i \in 1..Len(todo) : Approved(todo[i])
           /\ \A i, j \in 1..Len(todo) : todo[i] = todo[j] => i = j
<1> DEFINE S == {e \in Action : e.kind # "knowledge_review" /\ e.status \in ToExecute}
           todo == [i \in DOMAIN due |-> due[i].id]
<1>1. Compacted \in Seq(Action) /\ Distinct(Compacted)
  BY CompactedKeeps DEF Distinct
<1>2. due = Kept(Compacted, S)
  OBVIOUS
<1>3. \A e \in S : e \in Action /\ e.status = "approved"
  BY DEF ToExecute
<1> HIDE DEF S
<1>4. due \in Seq(Action) /\ Picks(Compacted, S, due, Len(Compacted))
  BY <1>1, <1>2, KeptType, KeptElements
<1>5. DOMAIN due = 1..Len(due) /\ Len(due) \in Nat /\ \A i \in 1..Len(due) : due[i] \in Action
  <2>1. due \in Seq(Action)
    BY <1>4
  <2> QED
    BY ONLY <2>1
<1>6. \A i \in 1..Len(due) : due[i].id \in Id
  BY <1>5 DEF Action
<1>7. todo \in [1..Len(due) -> Id]
  BY <1>5, <1>6
<1>8. /\ todo \in Seq(Id) /\ Len(todo) = Len(due)
      /\ \A i \in 1..Len(due) : todo[i] = due[i].id
  <2>1. \A i \in 1..Len(due) : todo[i] = due[i].id
    BY <1>5
  <2> HIDE DEF todo
  <2> QED
    BY <1>5, <1>7, <2>1
<1> HIDE DEF todo
<1>9. \A i \in 1..Len(due) : due[i].status = "approved" /\ \E k \in 1..Len(ledger) : ledger[k] = due[i]
  <2> TAKE i \in 1..Len(due)
  <2>1. due[i] \in S
    BY <1>4 DEF Picks
  <2>2. PICK j \in 1..Len(Compacted) : Compacted[j] = due[i]
    BY <1>4 DEF Picks
  <2>3. PICK k \in 1..Len(ledger) : Compacted[j] = ledger[k]
    BY CompactedKeeps
  <2> QED
    BY <1>3, <2>1, <2>2, <2>3
<1>10. \A i \in 1..Len(todo) : Approved(todo[i])
  BY <1>8, <1>9 DEF Approved
<1>11. ASSUME NEW i \in 1..Len(todo), NEW j \in 1..Len(todo), todo[i] = todo[j]
       PROVE  i = j
  <2>1. PICK k \in 1..Len(ledger) : ledger[k] = due[i]
    BY <1>8, <1>9
  <2>2. PICK l \in 1..Len(ledger) : ledger[l] = due[j]
    BY <1>8, <1>9
  <2>3. k = l
    BY <1>8, <1>11, <2>1, <2>2 DEF LedgerInv
  <2>4. \A m, n \in 1..Len(due) : due[m] = due[n] => m = n
    BY <1>1, <1>4 DEF Picks, Distinct
  <2> QED
    BY <1>8, <2>1, <2>2, <2>3, <2>4
<1> QED
  BY <1>8, <1>10, <1>11 DEF todo

LEMMA NextContinuation ==
    ASSUME LedgerInv, Continuations # <<>>
    PROVE  Head(Continuations).id \in Id /\ Approved(Head(Continuations).id)
<1> DEFINE S == {e \in Action : e.kind = "continuation" /\ e.status = "approved"}
           due == Kept(ledger, S)
<1>1. due = Continuations
  BY DEF Continuations
<1>2. \A e \in S : e \in Action /\ e.status = "approved"
  OBVIOUS
<1>3. ledger \in Seq(Action)
  BY DEF LedgerInv
<1> HIDE DEF S
<1>4. due \in Seq(Action) /\ Picks(ledger, S, due, Len(ledger))
  BY <1>3, KeptType, KeptElements
<1> HIDE DEF due
<1>5. 1 \in 1..Len(due) /\ Head(due) = due[1]
  BY <1>1, <1>4
<1>6. due[1] \in S /\ \E k \in 1..Len(ledger) : ledger[k] = due[1]
  BY <1>4, <1>5 DEF Picks
<1>7. due[1].id \in Id
  BY <1>2, <1>6 DEF Action
<1> QED
  BY <1>1, <1>2, <1>5, <1>6, <1>7 DEF Approved

LEMMA ApprovedAccepted ==
    ASSUME LedgerInv, NEW id, Approved(id)
    PROVE  id \in history.approved
BY DEF LedgerInv, Approved, Accepted

-----------------------------------------------------------------------------
(* The history, the ledger and the colonies across a step.                  *)

Recalls == history'.approved = history.approved

LedgerMove ==
    \/ /\ Recalls
       /\ \/ UNCHANGED <<ledger, nextId>>
          \/ \E kind \in Kind, status \in {"pending_review", "self_rejected"} :
                AppendAction(kind, status)
          \/ \E id, status : /\ status \in {"rejected", "executed", "failed"}
                             /\ Allows(id, status)
                             /\ ledger' = UpdateAction(id, status) /\ nextId' = nextId
          \/ ledger' = Compacted /\ nextId' = nextId
    \/ \E id \in Id : Approve(id)

LEMMA Forgetting ==
    ASSUME SweepingInv,
           IF sweep.spawn = "made" THEN Forget(sweep.cost) ELSE UNCHANGED history
    PROVE  history' \in Memory /\ Recalls
<1>1. history \in Memory /\ sweep.cost \in Nat
  BY DEF SweepingInv, MoneyInv, SweepInv, SweepState
<1>2. CASE sweep.spawn = "made"
  BY <1>1, <1>2 DEF Forget, Memory, Recalls
<1>3. CASE sweep.spawn # "made"
  BY <1>1, <1>3 DEF Recalls
<1> QED
  BY <1>2, <1>3

LEMMA LedgerMoved ==
    ASSUME SweepingInv, AutonomyNext
    PROVE  LedgerMove /\ history' \in Memory
<1> USE DEF LedgerMove, Recalls
<1>0. history \in Memory /\ sweep.cost \in Nat
  BY DEF SweepingInv, MoneyInv, SweepInv, SweepState
<1>1. ASSUME NEW level \in Level, StartSweep(level)
      PROVE  LedgerMove /\ history' \in Memory
  BY <1>0, <1>1 DEF StartSweep, Memory
<1>2. ASSUME NEW level \in Level, Continue(level)
      PROVE  LedgerMove /\ history' \in Memory
  BY <1>0, <1>2 DEF Continue
<1>3. ASSUME EndDispatch \/ EndProposals \/ ExecuteApproved
      PROVE  LedgerMove /\ history' \in Memory
  BY <1>0, <1>3 DEF EndDispatch, EndProposals, ExecuteApproved
<1>4. ASSUME EndContinue
      PROVE  LedgerMove /\ history' \in Memory
  BY <1>0, <1>4 DEF EndContinue
<1>5. ASSUME SweepSpawns
      PROVE  LedgerMove /\ history' \in Memory
  BY <1>0, <1>5 DEF SweepSpawns, Memory
<1>6. ASSUME SweepBooks
      PROVE  LedgerMove /\ history' \in Memory
  BY <1>0, <1>6 DEF SweepBooks, Executed
<1>7. ASSUME SweepFails
      PROVE  LedgerMove /\ history' \in Memory
  <2>1. history' \in Memory /\ Recalls
    BY <1>7, Forgetting DEF SweepFails
  <2> QED
    BY <1>7, <2>1 DEF SweepFails, Failed
<1>8. ASSUME NEW cost \in Costs, NEW optedIn \in BOOLEAN,
             NEW blast \in {"proceed", "notify", "escalate"}, Insight(cost, optedIn, blast)
      PROVE  LedgerMove /\ history' \in Memory
  BY <1>0, <1>8 DEF Insight, Kind
<1>9. ASSUME NEW kind \in Kind, Propose(kind)
      PROVE  LedgerMove /\ history' \in Memory
  BY <1>0, <1>9 DEF Propose
<1>10. ASSUME NEW h \in asked, HandlerSpawns(h)
       PROVE  LedgerMove /\ history' \in Memory
  BY <1>0, <1>10 DEF HandlerSpawns
<1>11. ASSUME NEW h \in asked, HandlerBooks(h) \/ HandlerFails(h)
       PROVE  LedgerMove /\ history' \in Memory
  BY <1>0, <1>11 DEF HandlerBooks, HandlerFails, Executed, Failed
<1>12. ASSUME NEW id \in Id, Approve(id)
       PROVE  LedgerMove /\ history' \in Memory
  BY <1>0, <1>12 DEF Approve, Memory
<1>13. ASSUME NEW id \in Id, Reject(id) \/ Review(id) \/ ReviewEnds(id)
       PROVE  LedgerMove /\ history' \in Memory
  BY <1>0, <1>13 DEF Reject, Review, ReviewEnds, Executed
<1>14. ASSUME NEW c \in DOMAIN colonies, NEW actual \in Costs, ColonyEnds(c, actual)
       PROVE  LedgerMove /\ history' \in Memory
  BY <1>0, <1>14 DEF ColonyEnds
<1>15. ASSUME NewDay
       PROVE  LedgerMove /\ history' \in Memory
  <2>1. history' \in Memory /\ Recalls
    <3>1. /\ history' = [history EXCEPT !.charged = 0, !.forgotten = 0, !.unbriefed = FALSE]
          /\ 0 \in Nat
      BY <1>15 DEF NewDay
    <3> QED
      BY <1>0, <3>1, Remembering
  <2> QED
    BY <1>15, <2>1 DEF NewDay
<1>16. ASSUME Crash
       PROVE  LedgerMove /\ history' \in Memory
  <2>1. history' \in Memory /\ Recalls
    BY <1>16, Forgetting DEF Crash
  <2> QED
    BY <1>16, <2>1 DEF Crash
<1> QED
  BY <1>1, <1>2, <1>3, <1>4, <1>5, <1>6, <1>7, <1>8, <1>9, <1>10, <1>11, <1>12, <1>13,
     <1>14, <1>15, <1>16 DEF AutonomyNext, SweepStep, HandlerStep

LEMMA LedgerStep ==
    ASSUME LedgerInv, LedgerMove
    PROVE  LedgerInv' /\ history.approved \subseteq history'.approved
<1>1. CASE Recalls
  <2>1. LedgerInv'
    <3>1. CASE UNCHANGED <<ledger, nextId>>
      BY <1>1, <3>1, LedgerKept DEF Recalls
    <3>2. ASSUME NEW kind \in Kind, NEW status \in {"pending_review", "self_rejected"},
                 AppendAction(kind, status)
          PROVE  LedgerInv'
      <4>1. status \in Status /\ status \notin Accepted
        BY DEF Status, Accepted
      <4> QED
        BY <1>1, <3>2, <4>1, LedgerAppended DEF Recalls
    <3>3. ASSUME NEW id, NEW status \in {"rejected", "executed", "failed"},
                 Allows(id, status), ledger' = UpdateAction(id, status), nextId' = nextId
          PROVE  LedgerInv'
      BY <1>1, <3>3, LedgerUpdated DEF Recalls
    <3>4. CASE ledger' = Compacted /\ nextId' = nextId
      BY <1>1, <3>4, LedgerCompacted DEF Recalls
    <3>5. ASSUME NEW id \in Id, Approve(id)
          PROVE  LedgerInv'
      BY <3>5, LedgerApproved DEF Approve
    <3> QED
      BY <3>1, <3>2, <3>3, <3>4, <3>5 DEF LedgerMove
  <2> QED
    BY <1>1, <2>1 DEF Recalls
<1>2. ASSUME NEW id \in Id, Approve(id)
      PROVE  LedgerInv' /\ history.approved \subseteq history'.approved
  BY <1>2, LedgerApproved DEF Approve
<1> QED
  BY <1>1, <1>2 DEF LedgerMove

(* Colonies are only ever added; what they run they keep.                   *)
LEMMA Spawning ==
    ASSUME ColoniesInv, NEW act, NEW cost \in Nat, SpawnColony(act, cost),
           act \in {0} \cup Id
    PROVE  /\ colonies' \in Seq(SpawnedColony)
           /\ Len(colonies) \in Nat /\ Len(colonies') = Len(colonies) + 1
           /\ colonies'[Len(colonies) + 1].act = act
           /\ colonies'[Len(colonies) + 1].status = "spawned"
           /\ \A c \in 1..Len(colonies) : colonies'[c] = colonies[c]
<1> DEFINE e == [act |-> act, cost |-> cost, status |-> "spawned"]
<1>1. e \in SpawnedColony /\ e.act = act /\ e.status = "spawned"
  BY DEF SpawnedColony
<1>2. colonies' = Append(colonies, e) /\ colonies \in Seq(SpawnedColony)
  BY DEF SpawnColony, ColoniesInv
<1> HIDE DEF e
<1>3. /\ colonies' \in Seq(SpawnedColony)
      /\ Len(colonies) \in Nat /\ Len(colonies') = Len(colonies) + 1
      /\ colonies'[Len(colonies) + 1] = e
      /\ \A c \in 1..Len(colonies) : colonies'[c] = colonies[c]
  BY <1>1, <1>2
<1> QED
  BY <1>1, <1>3

LEMMA Ending ==
    ASSUME ColoniesInv, NEW c \in 1..Len(colonies),
           colonies' = [colonies EXCEPT ![c].status = "over"]
    PROVE  /\ colonies' \in Seq(SpawnedColony) /\ Len(colonies') = Len(colonies)
           /\ \A d \in 1..Len(colonies) :
                 /\ colonies'[d].act = colonies[d].act
                 /\ d # c => colonies'[d] = colonies[d]
<1>1. colonies \in Seq(SpawnedColony) /\ colonies[c] \in SpawnedColony
  BY DEF ColoniesInv
<1> DEFINE e == [colonies[c] EXCEPT !.status = "over"]
<1>2. e \in SpawnedColony /\ e.act = colonies[c].act
  BY <1>1 DEF SpawnedColony
<1>3. colonies' = [colonies EXCEPT ![c] = e]
  OBVIOUS
<1> HIDE DEF e
<1>4. /\ colonies' \in Seq(SpawnedColony) /\ Len(colonies') = Len(colonies)
      /\ colonies'[c] = e
      /\ \A d \in 1..Len(colonies) : d # c => colonies'[d] = colonies[d]
  BY <1>1, <1>2, <1>3
<1> QED
  BY <1>2, <1>4

LEMMA Surviving ==
    ASSUME ColoniesInv,
           colonies' = [c \in DOMAIN colonies |->
                          [colonies[c] EXCEPT !.status =
                             IF @ = "spawned" THEN "tasked" ELSE @]]
    PROVE  /\ colonies' \in Seq(SpawnedColony) /\ Len(colonies') = Len(colonies)
           /\ \A c \in 1..Len(colonies) : colonies'[c].act = colonies[c].act
<1>1. /\ DOMAIN colonies = 1..Len(colonies) /\ Len(colonies) \in Nat
      /\ \A c \in 1..Len(colonies) : colonies[c] \in SpawnedColony
  BY DEF ColoniesInv
<1>2. ASSUME NEW c \in 1..Len(colonies)
      PROVE  colonies'[c] \in SpawnedColony /\ colonies'[c].act = colonies[c].act
  <2>1. colonies'[c] = [colonies[c] EXCEPT !.status = IF @ = "spawned" THEN "tasked" ELSE @]
    BY <1>1
  <2> QED
    BY <1>1, <2>1 DEF SpawnedColony
<1>3. colonies' \in [1..Len(colonies) -> SpawnedColony]
  <2>1. DOMAIN colonies' = 1..Len(colonies) /\ colonies' = [c \in 1..Len(colonies) |-> colonies'[c]]
    BY <1>1
  <2> QED
    BY <1>2, <2>1
<1>4. colonies' \in Seq(SpawnedColony) /\ Len(colonies') = Len(colonies)
  BY ONLY <1>1, <1>3
<1> QED
  BY <1>2, <1>4

Grows ==
    /\ colonies' \in Seq(SpawnedColony) /\ Len(colonies') \in Nat
    /\ Len(colonies) \in Nat /\ Len(colonies) <= Len(colonies')
    /\ \A c \in 1..Len(colonies) : colonies'[c].act = colonies[c].act

LEMMA ColoniesStep ==
    ASSUME SweepingInv, AutonomyNext
    PROVE  Grows /\ ColoniesInv'
<1>1. /\ LedgerInv /\ ColoniesInv /\ SweepInv /\ DeskInv /\ colonies \in Seq(SpawnedColony)
      /\ Len(colonies) \in Nat
  BY DEF SweepingInv, ColoniesInv
<1>2. history.approved \subseteq history'.approved
  BY LedgerMoved, LedgerStep, <1>1
<1>3. ASSUME colonies' = colonies
      PROVE  Grows /\ ColoniesInv'
  BY <1>1, <1>2, <1>3 DEF Grows, ColoniesInv
<1>4. ASSUME colonies' \in Seq(SpawnedColony), Len(colonies') = Len(colonies),
             \A c \in 1..Len(colonies) : colonies'[c].act = colonies[c].act
      PROVE  Grows /\ ColoniesInv'
  BY <1>1, <1>2, <1>4 DEF Grows, ColoniesInv
<1>5. ASSUME NEW act \in {0} \cup history.approved, NEW cost \in Nat, SpawnColony(act, cost)
      PROVE  Grows /\ ColoniesInv'
  <2>1. act \in {0} \cup Id
    BY <1>1 DEF LedgerInv
  <2>2. /\ colonies' \in Seq(SpawnedColony)
        /\ Len(colonies) \in Nat /\ Len(colonies') = Len(colonies) + 1
        /\ colonies'[Len(colonies) + 1].act = act
        /\ \A c \in 1..Len(colonies) : colonies'[c] = colonies[c]
    BY <1>1, <1>5, <2>1, Spawning
  <2>3. \A c \in 1..Len(colonies') : c \in 1..Len(colonies) \/ c = Len(colonies) + 1
    BY <2>2
  <2> QED
    BY <1>1, <1>2, <2>2, <2>3 DEF Grows, ColoniesInv
<1>6. ASSUME SweepSpawns
      PROVE  Grows /\ ColoniesInv'
  <2>1. sweep.act \in {0} \cup history.approved /\ sweep.cost \in Nat
    BY <1>1 DEF SweepInv, SweepState
  <2> QED
    BY <1>5, <1>6, <2>1 DEF SweepSpawns
<1>7. ASSUME NEW h \in asked, HandlerSpawns(h)
      PROVE  Grows /\ ColoniesInv'
  <2>1. h.act \in {0} \cup history.approved /\ 0 \in Nat
    BY <1>1 DEF DeskInv
  <2> QED
    BY <1>5, <1>7, <2>1 DEF HandlerSpawns
<1>8. ASSUME NEW c \in DOMAIN colonies, NEW actual \in Costs, ColonyEnds(c, actual)
      PROVE  Grows /\ ColoniesInv'
  <2>1. c \in 1..Len(colonies)
    BY <1>1
  <2>2. /\ colonies' \in Seq(SpawnedColony) /\ Len(colonies') = Len(colonies)
        /\ \A d \in 1..Len(colonies) : colonies'[d].act = colonies[d].act
    BY <1>1, <1>8, <2>1, Ending DEF ColonyEnds
  <2> QED
    BY <1>4, <2>2
<1>9. ASSUME Crash
      PROVE  Grows /\ ColoniesInv'
  BY <1>1, <1>4, <1>9, Surviving DEF Crash
<1>10. ASSUME NEW level \in Level, StartSweep(level) \/ Continue(level)
       PROVE  Grows /\ ColoniesInv'
  BY <1>3, <1>10 DEF StartSweep, Continue
<1>11. ASSUME EndDispatch \/ EndProposals \/ EndContinue \/ ExecuteApproved \/ SweepBooks
                 \/ SweepFails \/ NewDay
       PROVE  Grows /\ ColoniesInv'
  BY <1>3, <1>11 DEF EndDispatch, EndProposals, EndContinue, ExecuteApproved, SweepBooks,
     SweepFails, NewDay
<1>12. ASSUME NEW cost \in Costs, NEW optedIn \in BOOLEAN,
              NEW blast \in {"proceed", "notify", "escalate"}, Insight(cost, optedIn, blast)
       PROVE  Grows /\ ColoniesInv'
  BY <1>3, <1>12 DEF Insight
<1>13. ASSUME NEW kind \in Kind, Propose(kind)
       PROVE  Grows /\ ColoniesInv'
  BY <1>3, <1>13 DEF Propose
<1>14. ASSUME NEW h \in asked, HandlerBooks(h) \/ HandlerFails(h)
       PROVE  Grows /\ ColoniesInv'
  BY <1>3, <1>14 DEF HandlerBooks, HandlerFails
<1>15. ASSUME NEW id \in Id, Approve(id) \/ Reject(id) \/ Review(id) \/ ReviewEnds(id)
       PROVE  Grows /\ ColoniesInv'
  BY <1>3, <1>15 DEF Approve, Reject, Review, ReviewEnds
<1> QED
  BY <1>6, <1>7, <1>8, <1>9, <1>10, <1>11, <1>12, <1>13, <1>14, <1>15
  DEF AutonomyNext, SweepStep, HandlerStep

LEMMA DeskStep ==
    ASSUME SweepingInv, AutonomyNext
    PROVE  DeskInv'
<1>1. /\ DeskInv /\ LedgerInv /\ history.approved \subseteq history'.approved /\ Grows
      /\ LedgerInv'
  BY LedgerMoved, LedgerStep, ColoniesStep DEF SweepingInv
<1>2. ASSUME asked' \subseteq asked, reviews' \subseteq reviews
      PROVE  DeskInv'
  BY <1>1, <1>2 DEF DeskInv, Grows
<1>3. ASSUME NEW h \in asked, HandlerSpawns(h)
      PROVE  DeskInv'
  <2> DEFINE g == [h EXCEPT !.colony = Colony]
  <2>1. /\ h \in [act : Id, colony : Nat] /\ h.act \in history.approved
        /\ Colony = Len(colonies) + 1 /\ Len(colonies) \in Nat
        /\ Len(colonies') = Len(colonies) + 1
    BY <1>1, <1>3 DEF DeskInv, HandlerSpawns, SpawnColony, Colony, Grows
  <2>2. g \in [act : Id, colony : Nat] /\ g.act = h.act /\ g.colony = Len(colonies')
    BY <2>1
  <2>3. asked' = (asked \ {h}) \cup {g} /\ reviews' = reviews
    BY <1>3 DEF HandlerSpawns
  <2> HIDE DEF g
  <2>4. \A x \in asked' : /\ x \in [act : Id, colony : Nat] /\ x.act \in history'.approved
                          /\ x.colony \in 0..Len(colonies')
    <3> TAKE x \in asked'
    <3>1. CASE x \in asked
      BY <1>1, <2>1, <3>1 DEF DeskInv
    <3>2. CASE x = g
      BY <1>1, <2>1, <2>2, <3>2
    <3> QED
      BY <2>3, <3>1, <3>2
  <2> QED
    BY <1>1, <2>3, <2>4 DEF DeskInv
<1>4. ASSUME NEW id \in Id, Approve(id)
      PROVE  DeskInv'
  <2> DEFINE g == [act |-> id, colony |-> 0]
  <2>1. asked' \subseteq asked \cup {g} /\ reviews' = reviews /\ id \in history'.approved
    <3>1. history \in Memory
      BY DEF SweepingInv, MoneyInv
    <3> QED
      BY <1>4, <3>1 DEF Approve, Memory
  <2>2. g \in [act : Id, colony : Nat] /\ g.act = id /\ g.colony = 0
    OBVIOUS
  <2> HIDE DEF g
  <2>3. \A x \in asked' : /\ x \in [act : Id, colony : Nat] /\ x.act \in history'.approved
                          /\ x.colony \in 0..Len(colonies')
    <3> TAKE x \in asked'
    <3>1. CASE x \in asked
      BY <1>1, <3>1 DEF DeskInv, Grows
    <3>2. CASE x = g
      BY <1>1, <2>1, <2>2, <3>2 DEF Grows
    <3> QED
      BY <2>1, <3>1, <3>2
  <2> QED
    BY <1>1, <2>1, <2>3 DEF DeskInv
<1>5. ASSUME NEW id \in Id, Review(id)
      PROVE  DeskInv'
  <2>1. asked' = asked /\ reviews' = reviews \cup {id}
    BY <1>5 DEF Review
  <2> QED
    BY <1>1, <2>1 DEF DeskInv, Grows
<1>6. ASSUME NEW level \in Level, StartSweep(level) \/ Continue(level)
      PROVE  DeskInv'
  BY <1>2, <1>6 DEF StartSweep, Continue, Desk
<1>7. ASSUME EndDispatch \/ EndProposals \/ EndContinue \/ ExecuteApproved \/ SweepSpawns
                \/ SweepBooks \/ SweepFails \/ NewDay
      PROVE  DeskInv'
  BY <1>2, <1>7 DEF EndDispatch, EndProposals, EndContinue, ExecuteApproved, SweepSpawns,
     SweepBooks, SweepFails, NewDay, Desk
<1>8. ASSUME NEW cost \in Costs, NEW optedIn \in BOOLEAN,
             NEW blast \in {"proceed", "notify", "escalate"}, Insight(cost, optedIn, blast)
      PROVE  DeskInv'
  BY <1>2, <1>8 DEF Insight, Desk
<1>9. ASSUME NEW kind \in Kind, Propose(kind)
      PROVE  DeskInv'
  BY <1>2, <1>9 DEF Propose, Desk
<1>10. ASSUME NEW h \in asked, HandlerBooks(h) \/ HandlerFails(h)
       PROVE  DeskInv'
  BY <1>2, <1>10 DEF HandlerBooks, HandlerFails
<1>11. ASSUME NEW id \in Id, Reject(id) \/ ReviewEnds(id)
       PROVE  DeskInv'
  BY <1>2, <1>11 DEF Reject, ReviewEnds, Desk
<1>12. ASSUME NEW c \in DOMAIN colonies, NEW actual \in Costs, ColonyEnds(c, actual)
       PROVE  DeskInv'
  BY <1>2, <1>12 DEF ColonyEnds, Desk
<1>13. ASSUME Crash
       PROVE  DeskInv'
  BY <1>2, <1>13 DEF Crash
<1> QED
  BY <1>3, <1>4, <1>5, <1>6, <1>7, <1>8, <1>9, <1>10, <1>11, <1>12, <1>13
  DEF AutonomyNext, SweepStep, HandlerStep

-----------------------------------------------------------------------------
(* The sweep across a step.                                                 *)

LEMMA SweepStays ==
    ASSUME SweepInv, Grows, history.approved \subseteq history'.approved, sweep' = sweep,
           sweep.spawn = "made" => colonies'[sweep.colony].status = "spawned"
    PROVE  SweepInv'
BY DEF SweepInv, Grows

LEMMA SweepRests ==
    ASSUME NEW pc \in Stage, NEW left, SweepIs(sweep', pc, "no", 0, 0, left, 0, <<>>)
    PROVE  SweepInv'
BY DEF SweepInv, SweepIs

(* The rest of a step 7 whose action is over.                               *)
LEMMA SweepGoesOn ==
    ASSUME SweepInv, history.approved \subseteq history'.approved, sweep.pc = "approved",
           SweepIs(sweep', "approved", "no", 0, 0, 0, 0, sweep.todo)
    PROVE  SweepInv'
BY DEF SweepInv, SweepIs

LEMMA SweepStarts ==
    ASSUME SweepingInv, NEW level \in Level, StartSweep(level)
    PROVE  /\ \E pc \in {"dispatch", "review"}, left \in Nat :
                 SweepIs(sweep', pc, "no", 0, 0, left, 0, <<>>)
           /\ sweep'.pc = "dispatch" => sweep'.left = IF Budget > AfterReset
                                                     THEN Budget - AfterReset ELSE 0
<1>1. AfterReset \in Nat /\ Budget \in Nat
  BY AutonomyAssumption DEF SweepingInv, ClockInv, AfterReset
<1>2. ActiveMaintenance \in Nat
  <2>1. {c \in DOMAIN colonies :
            colonies[c].status # "over" /\ "maintenance" \in Tags(c)} = {}
    BY DEF Tags
  <2> QED
    BY <2>1, FS_EmptySet DEF ActiveMaintenance
<1> DEFINE left == IF Budget > AfterReset THEN Budget - AfterReset ELSE 0
<1>3. left \in Nat
  BY <1>1
<1>4. CASE sweep' = [Idle EXCEPT !.pc = "review"]
  <2>1. SweepIs(sweep', "review", "no", 0, 0, 0, 0, <<>>)
    <3>1. <<>> \in Seq(Id) /\ "review" \in Stage
      BY DEF Stage
    <3> QED
      BY <1>4, <3>1, Resting
  <2> QED
    BY <2>1 DEF SweepIs
<1>5. CASE sweep' = [Idle EXCEPT !.pc = "dispatch", !.level = level,
                                 !.active = ActiveMaintenance, !.left = left]
  <2> HIDE DEF left
  <2>1. SweepIs(sweep', "dispatch", "no", 0, 0, left, 0, <<>>)
    BY <1>2, <1>3, <1>5, Briefed
  <2> QED
    BY <1>3, <2>1 DEF SweepIs, left
<1> QED
  BY <1>4, <1>5 DEF StartSweep

LEMMA SweepAsks ==
    ASSUME SweepingInv, NEW cost \in Costs, NEW optedIn, NEW blast,
           Insight(cost, optedIn, blast), sweep' # sweep
    PROVE  /\ sweep.pc = "dispatch" /\ sweep.spawn = "no" /\ cost \in Nat /\ cost <= sweep.left
           /\ SweepIs(sweep', "dispatch", "asked", 0, cost, sweep.left, sweep.colony, <<>>)
<1>1. sweep \in SweepState /\ cost \in Nat /\ sweep.left \in Nat
  BY AutonomyAssumption DEF SweepingInv, SweepInv, SweepState
<1>2. /\ sweep.pc = "dispatch" /\ sweep.spawn = "no" /\ cost <= sweep.left
      /\ sweep' = [sweep EXCEPT !.spawn = "asked", !.cost = cost]
  BY <1>1 DEF Insight
<1>3. sweep.act = 0 /\ sweep.todo = <<>>
  BY <1>2 DEF SweepingInv, SweepInv
<1>4. SweepIs([sweep EXCEPT !.spawn = "asked", !.cost = cost],
              sweep.pc, "asked", sweep.act, cost, sweep.left, sweep.colony, sweep.todo)
  BY <1>1 DEF SweepIs, SweepState
<1> QED
  BY <1>1, <1>2, <1>3, <1>4

LEMMA SweepContinues ==
    ASSUME SweepingInv, NEW level, Continue(level)
    PROVE  \E id \in Id :
              /\ Approved(id)
              /\ SweepIs(sweep', "continue", "asked", id, ContinueCost, sweep.left, sweep.colony, <<>>)
<1>1. /\ sweep \in SweepState /\ ContinueCost \in Nat /\ <<>> \in Seq(Id) /\ LedgerInv
      /\ sweep.pc = "continue" /\ sweep.todo = <<>>
  BY AutonomyAssumption DEF SweepingInv, SweepInv, Continue
<1>2. PICK id \in Id : id = Head(Continuations).id /\ Approved(id)
  BY <1>1, NextContinuation DEF Continue
<1>3. sweep' = [sweep EXCEPT !.spawn = "asked", !.cost = ContinueCost, !.act = id]
  BY <1>2 DEF Continue
<1>4. SweepIs([sweep EXCEPT !.spawn = "asked", !.cost = ContinueCost, !.act = id],
              sweep.pc, "asked", id, ContinueCost, sweep.left, sweep.colony, sweep.todo)
  BY <1>1, Asking
<1> QED
  BY <1>1, <1>2, <1>3, <1>4

LEMMA SweepLists ==
    ASSUME SweepingInv, EndContinue
    PROVE  \E todo \in Seq(Id) :
              /\ \A i \in 1..Len(todo) : Approved(todo[i])
              /\ \A i, j \in 1..Len(todo) : todo[i] = todo[j] => i = j
              /\ SweepIs(sweep', "approved", "no", 0, 0, 0, 0, todo)
<1> DEFINE due == Kept(Compacted, {e \in Action :
                          e.kind # "knowledge_review" /\ e.status \in ToExecute})
           todo == [i \in DOMAIN due |-> due[i].id]
<1>1. /\ todo \in Seq(Id)
      /\ \A i \in 1..Len(todo) : Approved(todo[i])
      /\ \A i, j \in 1..Len(todo) : todo[i] = todo[j] => i = j
  <2>1. LedgerInv
    BY DEF SweepingInv
  <2> HIDE DEF due
  <2> QED
    BY <2>1, DueIds DEF due
<1>2. sweep' = [Idle EXCEPT !.pc = "approved", !.todo = todo]
  BY DEF EndContinue
<1> HIDE DEF todo
<1>3. SweepIs(sweep', "approved", "no", 0, 0, 0, 0, todo)
  BY <1>1, <1>2, Resting DEF Stage
<1> QED
  BY <1>1, <1>3

LEMMA SweepTakes ==
    ASSUME SweepingInv, ExecuteApproved
    PROVE  \/ SweepIs(sweep', "idle", "no", 0, 0, 0, 0, <<>>)
           \/ /\ sweep.todo # <<>>
              /\ SweepIs(sweep', "approved", "asked", Head(sweep.todo), 0, sweep.left, sweep.colony,
                         Tail(sweep.todo))
<1>1. sweep \in SweepState /\ sweep.pc = "approved" /\ sweep.cost = 0 /\ sweep.todo \in Seq(Id)
  BY DEF SweepingInv, SweepInv, SweepState, ExecuteApproved
<1>2. CASE sweep.todo = <<>>
  BY <1>2, IdleIs DEF ExecuteApproved
<1>3. CASE sweep.todo # <<>>
  <2>1. Head(sweep.todo) \in Id /\ Tail(sweep.todo) \in Seq(Id) /\ 0 \in Nat
    BY <1>1, <1>3
  <2>2. sweep' = [sweep EXCEPT !.spawn = "asked", !.act = Head(sweep.todo),
                               !.todo = Tail(sweep.todo)]
    BY <1>3 DEF ExecuteApproved
  <2> QED
    BY <1>1, <1>3, <2>1, <2>2, Asking
<1> QED
  BY <1>2, <1>3

LEMMA SweepMakes ==
    ASSUME SweepingInv, SweepSpawns
    PROVE  SweepIs(sweep', sweep.pc, "made", sweep.act, sweep.cost, sweep.left,
                   Len(colonies) + 1, sweep.todo)
<1>1. sweep \in SweepState /\ Len(colonies) + 1 \in Nat /\ Colony = Len(colonies) + 1
  BY DEF SweepingInv, SweepInv, ColoniesInv, Colony
<1> QED
  BY <1>1, Making DEF SweepSpawns

LEMMA SweepBooked ==
    ASSUME SweepingInv, SweepBooks
    PROVE  \/ /\ sweep.pc = "dispatch"
              /\ SweepIs(sweep', "dispatch", "no", 0, 0, sweep.left - sweep.cost, 0, <<>>)
           \/ /\ sweep.pc = "continue"
              /\ SweepIs(sweep', "continued", "no", 0, 0, 0, 0, <<>>)
           \/ /\ sweep.pc = "approved"
              /\ SweepIs(sweep', "approved", "no", 0, 0, 0, 0, sweep.todo)
<1>1. /\ sweep \in SweepState /\ sweep.spawn = "made" /\ sweep.todo \in Seq(Id)
      /\ sweep.pc \in {"dispatch", "continue", "approved"}
      /\ sweep.pc # "approved" => sweep.todo = <<>>
  BY DEF SweepingInv, SweepInv, SweepState, SweepBooks
<1>2. CASE sweep.pc = "dispatch"
  <2>1. sweep.act = 0 /\ sweep.cost <= sweep.left
    BY <1>1, <1>2 DEF SweepingInv, SweepInv, ClockInv
  <2>2. sweep' = [sweep EXCEPT !.spawn = "no", !.cost = 0, !.colony = 0,
                               !.active = @ + 1, !.left = @ - sweep.cost]
    BY <1>2 DEF SweepBooks
  <2>3. SweepIs(sweep', sweep.pc, "no", sweep.act, 0, sweep.left - sweep.cost, 0, sweep.todo)
    BY <1>1, <2>1, <2>2, Booking
  <2> QED
    BY <1>1, <1>2, <2>1, <2>3
<1>3. CASE sweep.pc = "continue"
  <2>1. sweep' = [Idle EXCEPT !.todo = sweep.todo, !.pc = "continued"]
    BY <1>3 DEF SweepBooks
  <2> QED
    BY <1>1, <1>3, <2>1, Resting DEF Stage
<1>4. CASE sweep.pc = "approved"
  <2>1. sweep' = [Idle EXCEPT !.todo = sweep.todo, !.pc = "approved"]
    BY <1>4 DEF SweepBooks
  <2> QED
    BY <1>1, <1>4, <2>1, Resting DEF Stage
<1> QED
  BY <1>1, <1>2, <1>3, <1>4

LEMMA SweepFailed ==
    ASSUME SweepingInv, SweepFails
    PROVE  \/ \E pc \in {"idle", "review", "continued"} : SweepIs(sweep', pc, "no", 0, 0, 0, 0, <<>>)
           \/ /\ sweep.pc = "approved"
              /\ SweepIs(sweep', "approved", "no", 0, 0, 0, 0, sweep.todo)
<1>1. sweep \in SweepState /\ sweep.pc \in {"dispatch", "continue", "approved"} /\ sweep.todo \in Seq(Id)
  BY DEF SweepingInv, SweepInv, SweepState, SweepFails
<1>2. CASE sweep' \in {[Idle EXCEPT !.pc = "review"], [Idle EXCEPT !.pc = "continued"], Idle}
  <2>1. <<>> \in Seq(Id) /\ {"idle", "review", "continued"} \subseteq Stage
    BY DEF Stage
  <2> QED
    BY <1>2, <2>1, IdleIs, Resting
<1>3. CASE sweep.pc = "approved" /\ sweep' = [Idle EXCEPT !.pc = "approved", !.todo = sweep.todo]
  BY <1>1, <1>3, Resting DEF Stage
<1> QED
  BY <1>1, <1>2, <1>3 DEF SweepFails

LEMMA SweepKept ==
    ASSUME SweepingInv, AutonomyNext
    PROVE  SweepInv'
<1>1. /\ SweepInv /\ LedgerInv /\ ColoniesInv /\ history.approved \subseteq history'.approved /\ Grows
      /\ history.approved \subseteq Id
  BY LedgerMoved, LedgerStep, ColoniesStep DEF SweepingInv, LedgerInv
<1>2. ASSUME sweep' = sweep, colonies' = colonies
      PROVE  SweepInv'
  BY <1>1, <1>2, SweepStays DEF SweepInv
<1>3. ASSUME NEW level \in Level, StartSweep(level)
      PROVE  SweepInv'
  BY <1>3, SweepStarts, SweepRests DEF Stage
<1>4. ASSUME NEW level \in Level, Continue(level)
      PROVE  SweepInv'
  <2>1. PICK id \in Id :
           /\ Approved(id)
           /\ SweepIs(sweep', "continue", "asked", id, ContinueCost, sweep.left, sweep.colony, <<>>)
    BY <1>4, SweepContinues
  <2>2. id \in history'.approved
    BY <1>1, <2>1, ApprovedAccepted
  <2> QED
    BY <2>1, <2>2 DEF SweepInv, SweepIs
<1>5. ASSUME EndDispatch \/ EndProposals
      PROVE  SweepInv'
  <2>1. \E pc \in Stage : sweep' = [Idle EXCEPT !.pc = pc]
    BY <1>5 DEF EndDispatch, EndProposals, Stage
  <2>2. <<>> \in Seq(Id)
    OBVIOUS
  <2> QED
    BY <2>1, <2>2, Resting, SweepRests
<1>6. ASSUME EndContinue
      PROVE  SweepInv'
  <2>1. PICK todo \in Seq(Id) :
           /\ \A i \in 1..Len(todo) : Approved(todo[i])
           /\ \A i, j \in 1..Len(todo) : todo[i] = todo[j] => i = j
           /\ SweepIs(sweep', "approved", "no", 0, 0, 0, 0, todo)
    BY <1>6, SweepLists
  <2>2. \A i \in 1..Len(todo) : todo[i] \in history'.approved
    BY <1>1, <2>1, ApprovedAccepted
  <2> QED
    BY <2>1, <2>2 DEF SweepInv, SweepIs
<1>7. ASSUME ExecuteApproved
      PROVE  SweepInv'
  <2>1. CASE SweepIs(sweep', "idle", "no", 0, 0, 0, 0, <<>>)
    BY <2>1, SweepRests DEF Stage
  <2>2. CASE /\ sweep.todo # <<>>
             /\ SweepIs(sweep', "approved", "asked", Head(sweep.todo), 0, sweep.left, sweep.colony,
                        Tail(sweep.todo))
    <3> DEFINE t == sweep.todo
    <3>1. /\ t \in Seq(Id) /\ \A i \in 1..Len(t) : t[i] \in history.approved
          /\ \A i, j \in 1..Len(t) : t[i] = t[j] => i = j
      BY <1>1 DEF SweepInv, SweepState
    <3>2. t # <<>>
      BY <2>2
    <3> HIDE DEF t
    <3>3. /\ Head(t) = t[1] /\ 1 \in 1..Len(t) /\ Len(Tail(t)) = Len(t) - 1 /\ Len(t) \in Nat
          /\ \A i \in 1..Len(Tail(t)) : i + 1 \in 1..Len(t) /\ Tail(t)[i] = t[i + 1]
      BY <3>1, <3>2
    <3>4. /\ Head(t) \in history.approved
          /\ \A i \in 1..Len(Tail(t)) : Tail(t)[i] \in history.approved /\ Tail(t)[i] # Head(t)
      BY <3>1, <3>3
    <3>5. ASSUME NEW i \in 1..Len(Tail(t)), NEW j \in 1..Len(Tail(t)), Tail(t)[i] = Tail(t)[j]
          PROVE  i = j
      <4>1. i + 1 = j + 1
        BY <3>1, <3>3, <3>5
      <4> QED
        BY <4>1
    <3>6. SweepIs(sweep', "approved", "asked", Head(t), 0, sweep.left, sweep.colony, Tail(t))
      BY <2>2 DEF t
    <3> QED
      BY <1>1, <3>4, <3>5, <3>6 DEF SweepInv, SweepIs
  <2> QED
    BY <1>7, <2>1, <2>2, SweepTakes
<1>8. ASSUME SweepSpawns
      PROVE  SweepInv'
  <2>1. SweepIs(sweep', sweep.pc, "made", sweep.act, sweep.cost, sweep.left,
                Len(colonies) + 1, sweep.todo)
    BY <1>8, SweepMakes
  <2>2. /\ Len(colonies') = Len(colonies) + 1 /\ Len(colonies) \in Nat
        /\ colonies'[Len(colonies) + 1].status = "spawned" /\ sweep.spawn = "asked"
    <3>1. sweep.act \in {0} \cup Id /\ sweep.cost \in Nat
      BY <1>1 DEF SweepInv, SweepState
    <3> QED
      BY <1>1, <1>8, <3>1, Spawning DEF SweepSpawns
  <2> QED
    BY <1>1, <2>1, <2>2 DEF SweepInv, SweepIs
<1>9. ASSUME SweepBooks
      PROVE  SweepInv'
  BY <1>1, <1>9, SweepBooked, SweepRests, SweepGoesOn DEF Stage
<1>10. ASSUME SweepFails
       PROVE  SweepInv'
  BY <1>1, <1>10, SweepFailed, SweepRests, SweepGoesOn DEF Stage
<1>11. ASSUME NEW cost \in Costs, NEW optedIn \in BOOLEAN,
              NEW blast \in {"proceed", "notify", "escalate"}, Insight(cost, optedIn, blast)
       PROVE  SweepInv'
  <2>1. CASE sweep' = sweep
    BY <1>2, <1>11, <2>1 DEF Insight
  <2>2. CASE sweep' # sweep
    <3>1. SweepIs(sweep', "dispatch", "asked", 0, cost, sweep.left, sweep.colony, <<>>)
      BY <1>11, <2>2, SweepAsks
    <3> QED
      BY <3>1 DEF SweepInv, SweepIs
  <2> QED
    BY <2>1, <2>2
<1>12. ASSUME NEW kind \in Kind, Propose(kind)
       PROVE  SweepInv'
  BY <1>2, <1>12 DEF Propose
<1>13. ASSUME NEW h \in asked, HandlerSpawns(h)
       PROVE  SweepInv'
  <2>1. h.act \in Id /\ 0 \in Nat
    BY DEF SweepingInv, DeskInv
  <2>2. \A c \in 1..Len(colonies) : colonies'[c] = colonies[c]
    BY <1>1, <1>13, <2>1, Spawning DEF HandlerSpawns
  <2> QED
    BY <1>1, <1>13, <2>2, SweepStays DEF HandlerSpawns, SweepInv
<1>14. ASSUME NEW h \in asked, HandlerBooks(h) \/ HandlerFails(h)
       PROVE  SweepInv'
  BY <1>2, <1>14 DEF HandlerBooks, HandlerFails
<1>15. ASSUME NEW id \in Id, Approve(id) \/ Reject(id) \/ Review(id) \/ ReviewEnds(id)
       PROVE  SweepInv'
  BY <1>2, <1>15 DEF Approve, Reject, Review, ReviewEnds
<1>16. ASSUME NEW c \in DOMAIN colonies, NEW actual \in Costs, ColonyEnds(c, actual)
       PROVE  SweepInv'
  <2>1. c \in 1..Len(colonies) /\ colonies[c].status = "tasked"
    BY <1>1, <1>16 DEF ColoniesInv, ColonyEnds
  <2>2. \A d \in 1..Len(colonies) : d # c => colonies'[d] = colonies[d]
    BY <1>1, <1>16, <2>1, Ending DEF ColonyEnds
  <2> QED
    BY <1>1, <1>16, <2>1, <2>2, SweepStays DEF ColonyEnds, SweepInv
<1>17. ASSUME NewDay
       PROVE  SweepInv'
  BY <1>2, <1>17 DEF NewDay
<1>18. ASSUME Crash
       PROVE  SweepInv'
  BY <1>18, IdleIs, SweepRests DEF Crash, Stage
<1> QED
  BY <1>3, <1>4, <1>5, <1>6, <1>7, <1>8, <1>9, <1>10, <1>11, <1>12, <1>13, <1>14, <1>15,
     <1>16, <1>17, <1>18 DEF AutonomyNext, SweepStep, HandlerStep

-----------------------------------------------------------------------------
(* Runs.                                                                    *)

(* An action becomes approved by its approval only.                         *)
LEMMA ApprovedBefore ==
    ASSUME LedgerInv, LedgerMove, NEW id, Approved(id)'
    PROVE  Approved(id) \/ Approve(id)
<1>1. PICK i \in 1..Len(ledger') : ledger'[i].id = id /\ ledger'[i].status = "approved"
  BY DEF Approved
<1>2. CASE UNCHANGED <<ledger, nextId>>
  BY <1>1, <1>2 DEF Approved
<1>3. ASSUME NEW kind \in Kind, NEW status \in {"pending_review", "self_rejected"},
             AppendAction(kind, status)
      PROVE  Approved(id)
  <2> DEFINE e == [id |-> nextId, kind |-> kind, status |-> status]
  <2>1. /\ ledger \in Seq(Action) /\ ledger' = Append(ledger, e) /\ e.status # "approved"
    BY <1>3 DEF AppendAction, LedgerInv
  <2> HIDE DEF e
  <2>2. /\ Len(ledger) \in Nat /\ Len(ledger') = Len(ledger) + 1
        /\ ledger'[Len(ledger) + 1] = e
        /\ \A j \in 1..Len(ledger) : ledger'[j] = ledger[j]
    BY <2>1
  <2>3. i \in 1..Len(ledger)
    BY <1>1, <2>1, <2>2
  <2> QED
    BY <1>1, <2>2, <2>3 DEF Approved
<1>4. ASSUME NEW x, NEW status \in {"rejected", "executed", "failed"},
             ledger' = UpdateAction(x, status)
      PROVE  Approved(id)
  <2>1. status \in Status /\ status # "approved"
    BY DEF Status
  <2>2. /\ Len(ledger') = Len(ledger)
        /\ \A j \in 1..Len(ledger) :
              /\ ledger'[j].id = ledger[j].id
              /\ ledger'[j].status = IF ledger[j].id = x THEN status ELSE ledger[j].status
    BY <1>4, <2>1, Rewritten
  <2> QED
    BY <1>1, <2>1, <2>2 DEF Approved
<1>5. CASE ledger' = Compacted
  <2>1. PICK k \in 1..Len(ledger) : ledger'[i] = ledger[k]
    BY <1>1, <1>5, CompactedKeeps
  <2>2. ledger[k].id = id /\ ledger[k].status = "approved"
    BY <1>1, <2>1
  <2> QED
    BY <2>2 DEF Approved
<1>6. ASSUME NEW x \in Id, Approve(x), x # id
      PROVE  Approved(id)
  <2>1. ledger' = UpdateAction(x, "approved") /\ "approved" \in Status
    BY <1>6 DEF Approve, Status
  <2>2. /\ Len(ledger') = Len(ledger)
        /\ \A j \in 1..Len(ledger) :
              /\ ledger'[j].id = ledger[j].id
              /\ ledger'[j].status = IF ledger[j].id = x THEN "approved" ELSE ledger[j].status
    BY <2>1, Rewritten
  <2> QED
    BY <1>1, <1>6, <2>2 DEF Approved
<1> QED
  BY <1>2, <1>3, <1>4, <1>5, <1>6 DEF LedgerMove

LEMMA NoLonger ==
    ASSUME LedgerInv, NEW id, NEW status \in {"executed", "failed"},
           \/ ledger' = UpdateAction(id, status)
           \/ ledger' = ledger /\ ~Allows(id, status)
    PROVE  ~Approved(id)'
<1>1. CASE ledger' = UpdateAction(id, status)
  <2>1. status \in Status /\ status # "approved"
    BY DEF Status
  <2>2. /\ Len(ledger') = Len(ledger)
        /\ \A j \in 1..Len(ledger) :
              /\ ledger'[j].id = ledger[j].id
              /\ ledger'[j].status = IF ledger[j].id = id THEN status ELSE ledger[j].status
    BY <1>1, <2>1, Rewritten
  <2> QED
    BY <2>1, <2>2 DEF Approved
<1>2. CASE ledger' = ledger /\ ~Allows(id, status)
  <2> SUFFICES ASSUME NEW i \in 1..Len(ledger),
                      ledger[i].id = id, ledger[i].status = "approved"
               PROVE  FALSE
    BY <1>2 DEF Approved
  <2>1. status \in Transitions["approved"]
    BY DEF Transitions, Status
  <2> QED
    BY <1>2, <2>1, TheRecord DEF Allows
<1> QED
  BY <1>1, <1>2

Bound(id) == Cardinality(RunsOf(id)) + One(MayHandle(id)) + One(MaySweep(id)) <= 2 + crashes

LEMMA RunsFinite ==
    ASSUME ColoniesInv, NEW id
    PROVE  /\ IsFiniteSet(RunsOf(id)) /\ Cardinality(RunsOf(id)) \in Nat
           /\ Len(colonies) + 1 \notin RunsOf(id)
<1>1. Len(colonies) \in Nat
  BY DEF ColoniesInv
<1>2. IsFiniteSet(1..Len(colonies)) /\ RunsOf(id) \subseteq 1..Len(colonies)
  BY <1>1, FS_Interval DEF RunsOf
<1>3. IsFiniteSet(RunsOf(id))
  BY <1>2, FS_Subset
<1> QED
  BY <1>1, <1>2, <1>3, FS_CardinalityType

LEMMA RunsSame ==
    ASSUME Len(colonies') = Len(colonies), NEW id,
           \A c \in 1..Len(colonies) : colonies'[c].act = colonies[c].act
    PROVE  RunsOf(id)' = RunsOf(id)
BY DEF RunsOf

LEMMA RunsMore ==
    ASSUME ColoniesInv, NEW act \in {0} \cup Id, NEW cost \in Nat, SpawnColony(act, cost), NEW id
    PROVE  /\ act # id => RunsOf(id)' = RunsOf(id)
           /\ act = id => Cardinality(RunsOf(id)') = Cardinality(RunsOf(id)) + 1
<1>1. /\ Len(colonies) \in Nat /\ Len(colonies') = Len(colonies) + 1
      /\ colonies'[Len(colonies) + 1].act = act
      /\ \A c \in 1..Len(colonies) : colonies'[c] = colonies[c]
  BY Spawning
<1>2. \A c \in 1..Len(colonies') : c \in 1..Len(colonies) \/ c = Len(colonies) + 1
  BY <1>1
<1>3. Len(colonies) + 1 \in 1..Len(colonies') /\ \A c \in 1..Len(colonies) : c \in 1..Len(colonies')
  BY <1>1
<1>4. act # id => RunsOf(id)' = RunsOf(id)
  BY <1>1, <1>2, <1>3 DEF RunsOf
<1>5. act = id => RunsOf(id)' = RunsOf(id) \cup {Len(colonies) + 1}
  BY <1>1, <1>2, <1>3 DEF RunsOf
<1>6. Cardinality(RunsOf(id) \cup {Len(colonies) + 1}) = Cardinality(RunsOf(id)) + 1
  BY RunsFinite, FS_AddElement
<1> QED
  BY <1>4, <1>5, <1>6

LEMMA RunsFrame ==
    ASSUME ColoniesInv, crashes \in Nat, crashes' = crashes, NEW id, Bound(id),
           RunsOf(id)' = RunsOf(id), MayHandle(id)' => MayHandle(id),
           MaySweep(id)' => MaySweep(id)
    PROVE  Bound(id)'
<1>1. Cardinality(RunsOf(id)) \in Nat
  BY RunsFinite
<1> QED
  BY <1>1 DEF Bound, One

LEMMA RunsStep ==
    ASSUME SweepingInv, AutonomyNext
    PROVE  RunsInv'
<1>1. /\ LedgerInv /\ ColoniesInv /\ SweepInv /\ DeskInv /\ RunsInv /\ LedgerMove
      /\ crashes \in Nat /\ sweep \in SweepState
  BY LedgerMoved DEF SweepingInv, ClockInv, SweepInv
<1> SUFFICES ASSUME NEW id \in Id
             PROVE  Bound(id)'
  BY DEF RunsInv, Bound
<1>2. Bound(id) /\ id # 0
  BY <1>1, IdFacts DEF RunsInv, Bound
<1>3. Approved(id)' => Approved(id) \/ Approve(id)
  BY <1>1, ApprovedBefore
<1>4. ASSUME UNCHANGED <<colonies, crashes>>, asked' \subseteq asked,
             MaySweep(id)' => MaySweep(id)
      PROVE  Bound(id)'
  BY <1>1, <1>2, <1>4, RunsFrame, RunsSame DEF MayHandle
<1>5. ASSUME UNCHANGED <<sweep, colonies, crashes>>, asked' \subseteq asked,
             Approved(id)' => Approved(id)
      PROVE  Bound(id)'
  <2>1. MaySweep(id)' => MaySweep(id)
    BY <1>5 DEF MaySweep
  <2> QED
    BY <1>4, <1>5, <2>1
<1>6. ASSUME UNCHANGED <<colonies, crashes>>, asked' \subseteq asked, sweep.spawn = "no",
             Approved(id)' => Approved(id), sweep'.spawn = "no", sweep'.todo = <<>>
      PROVE  Bound(id)'
  <2>1. MaySweep(id)' => MaySweep(id)
    BY <1>6 DEF MaySweep
  <2> QED
    BY <1>4, <1>6, <2>1
<1>7. ASSUME NEW level \in Level, StartSweep(level)
      PROVE  Bound(id)'
  <2>1. /\ UNCHANGED <<colonies, crashes, asked, ledger>> /\ sweep.pc = "idle"
    BY <1>7 DEF StartSweep, Desk, Clock
  <2>2. sweep'.spawn = "no" /\ sweep'.todo = <<>> /\ sweep.spawn = "no"
    BY <1>1, <1>7, <2>1, SweepStarts DEF SweepIs, SweepInv, SweepState
  <2>3. Approved(id)' => Approved(id)
    BY <2>1 DEF Approved
  <2> QED
    BY <1>6, <2>1, <2>2, <2>3
<1>8. ASSUME NEW level \in Level, Continue(level)
      PROVE  Bound(id)'
  <2>1. PICK x \in Id :
           /\ Approved(x)
           /\ SweepIs(sweep', "continue", "asked", x, ContinueCost, sweep.left, sweep.colony, <<>>)
    BY <1>8, SweepContinues
  <2>2. UNCHANGED <<colonies, crashes, asked, ledger>> /\ sweep.spawn = "no"
    BY <1>8 DEF Continue, Desk, Clock
  <2>3. Approved(id)' => Approved(id)
    BY <2>2 DEF Approved
  <2>4. MaySweep(id)' => MaySweep(id)
    BY <2>1, <2>2, <2>3 DEF MaySweep, SweepIs
  <2> QED
    BY <1>4, <2>2, <2>4
<1>9. ASSUME EndDispatch \/ EndProposals
      PROVE  Bound(id)'
  <2>1. /\ UNCHANGED <<colonies, crashes, asked, ledger>> /\ sweep.spawn = "no"
        /\ \E pc \in Stage : sweep' = [Idle EXCEPT !.pc = pc]
    BY <1>1, <1>9 DEF EndDispatch, EndProposals, Desk, Clock, Stage, SweepInv, SweepState
  <2>2. sweep'.spawn = "no" /\ sweep'.todo = <<>>
    <3>1. PICK pc \in Stage : sweep' = [Idle EXCEPT !.pc = pc]
      BY <2>1
    <3>2. <<>> \in Seq(Id)
      OBVIOUS
    <3>3. SweepIs(sweep', pc, "no", 0, 0, 0, 0, <<>>)
      BY <3>1, <3>2, Resting
    <3> QED
      BY <3>3 DEF SweepIs
  <2>3. Approved(id)' => Approved(id)
    BY <2>1 DEF Approved
  <2> QED
    BY <1>6, <2>1, <2>2, <2>3
<1>10. ASSUME EndContinue
       PROVE  Bound(id)'
  <2>1. PICK todo \in Seq(Id) :
           /\ \A i \in 1..Len(todo) : Approved(todo[i])
           /\ SweepIs(sweep', "approved", "no", 0, 0, 0, 0, todo)
    BY <1>10, SweepLists
  <2>2. UNCHANGED <<colonies, crashes, asked>> /\ sweep.spawn = "no" /\ ~Approve(id)
    BY <1>1, <1>10, <2>1 DEF EndContinue, Desk, Clock, Approve, SweepIs
  <2>3. MaySweep(id)' => MaySweep(id)
    BY <1>3, <2>1, <2>2 DEF MaySweep, SweepIs
  <2> QED
    BY <1>4, <2>2, <2>3
<1>11. ASSUME ExecuteApproved
       PROVE  Bound(id)'
  <2>1. UNCHANGED <<colonies, crashes, asked, ledger>> /\ sweep.spawn = "no"
    BY <1>11 DEF ExecuteApproved, Desk, Clock
  <2>2. Approved(id)' => Approved(id)
    BY <2>1 DEF Approved
  <2>3. CASE SweepIs(sweep', "idle", "no", 0, 0, 0, 0, <<>>)
    BY <1>6, <2>1, <2>2, <2>3 DEF SweepIs
  <2>4. CASE /\ sweep.todo # <<>>
             /\ SweepIs(sweep', "approved", "asked", Head(sweep.todo), 0, sweep.left, sweep.colony,
                        Tail(sweep.todo))
    <3> DEFINE t == sweep.todo
    <3>1. t \in Seq(Id) /\ t # <<>>
      BY <1>1, <2>4 DEF SweepState
    <3>2. sweep'.act = Head(t) /\ sweep'.todo = Tail(t) /\ sweep'.spawn = "asked"
      BY <2>4 DEF SweepIs
    <3> HIDE DEF t
    <3>3. /\ Head(t) = t[1] /\ 1 \in 1..Len(t)
          /\ \A i \in 1..Len(Tail(t)) : i + 1 \in 1..Len(t) /\ Tail(t)[i] = t[i + 1]
      BY <3>1
    <3>4. MaySweep(id)' => Approved(id) \/ \E i \in 1..Len(t) : t[i] = id
      BY <2>2, <3>2, <3>3 DEF MaySweep
    <3>5. MaySweep(id)' => MaySweep(id)
      BY <2>1, <3>4 DEF MaySweep, t
    <3> QED
      BY <1>4, <2>1, <3>5
  <2> QED
    BY <1>11, <2>3, <2>4, SweepTakes
<1>12. ASSUME SweepSpawns
       PROVE  Bound(id)'
  <2>1. SweepIs(sweep', sweep.pc, "made", sweep.act, sweep.cost, sweep.left,
                Len(colonies) + 1, sweep.todo)
    BY <1>12, SweepMakes
  <2>2. /\ UNCHANGED <<crashes, asked, ledger>> /\ sweep.spawn = "asked"
        /\ SpawnColony(sweep.act, sweep.cost)
        /\ sweep.act \in {0} \cup Id /\ sweep.cost \in Nat
    BY <1>1, <1>12 DEF SweepSpawns, Desk, Clock, SweepState
  <2>3. Approved(id)' <=> Approved(id)
    BY <2>2 DEF Approved
  <2>4. MayHandle(id)' <=> MayHandle(id)
    BY <2>2 DEF MayHandle
  <2>5. CASE sweep.act # id
    <3>1. MaySweep(id)' => MaySweep(id)
      BY <2>1, <2>2, <2>3, <2>5 DEF MaySweep, SweepIs
    <3>2. RunsOf(id)' = RunsOf(id)
      BY <1>1, <2>2, <2>5, RunsMore
    <3> QED
      BY <1>1, <1>2, <2>2, <2>4, <3>1, <3>2, RunsFrame
  <2>6. CASE sweep.act = id
    <3>1. MaySweep(id) /\ ~MaySweep(id)'
      BY <1>1, <2>1, <2>2, <2>6 DEF MaySweep, SweepIs, SweepInv
    <3>2. Cardinality(RunsOf(id)') = Cardinality(RunsOf(id)) + 1 /\ Cardinality(RunsOf(id)) \in Nat
      BY <1>1, <2>2, <2>6, RunsMore, RunsFinite
    <3> QED
      BY <1>1, <1>2, <2>2, <2>4, <3>1, <3>2 DEF Bound, One
  <2> QED
    BY <2>5, <2>6
<1>13. ASSUME SweepBooks
       PROVE  Bound(id)'
  <2>1. UNCHANGED <<colonies, crashes, asked>> /\ ~Approve(id) /\ sweep.spawn = "made"
    <3>1. ~Approve(id)
      BY <1>13, SweepBooked DEF SweepBooks, Approve, SweepIs
    <3> QED
      BY <1>13, <3>1 DEF SweepBooks, Desk, Clock
  <2>2. CASE sweep.pc = "dispatch"
    <3>1. SweepIs(sweep', "dispatch", "no", 0, 0, sweep.left - sweep.cost, 0, <<>>)
      BY <1>13, <2>2, SweepBooked
    <3>2. sweep.act = 0
      BY <1>1, <2>2 DEF SweepInv
    <3>3. MaySweep(id)' => MaySweep(id)
      BY <1>2, <1>3, <2>1, <3>1, <3>2 DEF MaySweep, SweepIs
    <3> QED
      BY <1>4, <2>1, <3>3
  <2>3. CASE sweep.pc # "dispatch"
    <3>1. sweep'.spawn = "no" /\ (sweep'.todo = <<>> \/ sweep'.todo = sweep.todo)
      BY <1>13, <2>3, SweepBooked DEF SweepIs
    <3>2. sweep.act = id => ledger' = UpdateAction(id, "executed")
      BY <1>13, <2>3 DEF SweepBooks, Executed
    <3>3. sweep.act = id => ~Approved(id)'
      BY <1>1, <3>2, NoLonger
    <3>4. MaySweep(id)' => MaySweep(id)
      BY <1>3, <2>1, <3>1, <3>3 DEF MaySweep
    <3> QED
      BY <1>4, <2>1, <3>4
  <2> QED
    BY <2>2, <2>3
<1>14. ASSUME SweepFails
       PROVE  Bound(id)'
  <2>1. UNCHANGED <<colonies, crashes, asked>> /\ ~Approve(id) /\ sweep.spawn # "no"
    <3>1. ~Approve(id)
      BY <1>1, <1>14, SweepFailed DEF SweepFails, Approve, SweepIs
    <3> QED
      BY <1>14, <3>1 DEF SweepFails, Desk, Clock
  <2>2. sweep'.spawn = "no" /\ (sweep'.todo = <<>> \/ sweep'.todo = sweep.todo)
    BY <1>14, SweepFailed DEF SweepIs
  <2>3. sweep.act = id => ~Approved(id)'
    <3>1. sweep.pc = "dispatch" => sweep.act = 0
      BY <1>1 DEF SweepInv
    <3>2. sweep.act = id => \/ ledger' = UpdateAction(id, "failed")
                            \/ ledger' = ledger /\ ~Allows(id, "failed")
      BY <1>2, <1>14, <3>1 DEF SweepFails, Failed
    <3> QED
      BY <1>1, <3>2, NoLonger
  <2>4. MaySweep(id)' => MaySweep(id)
    BY <1>3, <2>1, <2>2, <2>3 DEF MaySweep
  <2> QED
    BY <1>4, <2>1, <2>4
<1>15. ASSUME NEW cost \in Costs, NEW optedIn \in BOOLEAN,
              NEW blast \in {"proceed", "notify", "escalate"}, Insight(cost, optedIn, blast)
       PROVE  Bound(id)'
  <2>1. /\ UNCHANGED <<colonies, crashes, asked, history>> /\ sweep.spawn = "no"
    BY <1>15 DEF Insight, Desk, Clock
  <2>2. Approved(id)' => Approved(id)
    <3>1. ~Approve(id)
      <4>1. history \in Memory /\ history' = history
        BY <2>1 DEF SweepingInv, MoneyInv
      <4> QED
        BY <1>1, <4>1, LedgerApproved DEF Approve, Memory
    <3> QED
      BY <1>3, <3>1
  <2>3. CASE sweep' = sweep
    BY <1>5, <2>1, <2>2, <2>3
  <2>4. CASE sweep' # sweep
    <3>1. SweepIs(sweep', "dispatch", "asked", 0, cost, sweep.left, sweep.colony, <<>>)
      BY <1>15, <2>4, SweepAsks
    <3>2. MaySweep(id)' => MaySweep(id)
      BY <1>2, <2>1, <2>2, <3>1 DEF MaySweep, SweepIs
    <3> QED
      BY <1>4, <2>1, <3>2
  <2> QED
    BY <2>3, <2>4
<1>16. ASSUME UNCHANGED <<sweep, colonies, crashes, history>>, asked' \subseteq asked
       PROVE  Bound(id)'
  <2>1. ~Approve(id)
    <3>1. history \in Memory /\ history' = history
      BY <1>16 DEF SweepingInv, MoneyInv
    <3> QED
      BY <1>1, <3>1, LedgerApproved DEF Approve, Memory
  <2> QED
    BY <1>3, <1>5, <1>16, <2>1
<1>17. ASSUME NEW kind \in Kind, Propose(kind)
       PROVE  Bound(id)'
  BY <1>16, <1>17 DEF Propose, Desk, Clock
<1>18. ASSUME NEW h \in asked, HandlerSpawns(h)
       PROVE  Bound(id)'
  <2> DEFINE g == [h EXCEPT !.colony = Colony]
  <2>1. /\ UNCHANGED <<crashes, ledger, sweep>> /\ SpawnColony(h.act, 0) /\ h.colony = 0
        /\ asked' = (asked \ {h}) \cup {g}
    BY <1>18 DEF HandlerSpawns, Clock
  <2>2. h \in [act : Id, colony : Nat] /\ h.act \in {0} \cup Id /\ 0 \in Nat
    BY <1>1 DEF DeskInv
  <2>3. Colony # 0
    BY <1>1 DEF Colony, ColoniesInv
  <2>4. g.act = h.act /\ g.colony # 0
    BY <2>2, <2>3
  <2> HIDE DEF g
  <2>5. Approved(id)' <=> Approved(id)
    BY <2>1 DEF Approved
  <2>6. MaySweep(id)' <=> MaySweep(id)
    BY <2>1, <2>5 DEF MaySweep
  <2>7. MayHandle(id)' => MayHandle(id) /\ h # [act |-> id, colony |-> 0]
    BY <2>1, <2>4 DEF MayHandle
  <2>8. CASE h.act # id
    <3>1. RunsOf(id)' = RunsOf(id)
      BY <1>1, <2>1, <2>2, <2>8, RunsMore
    <3> QED
      BY <1>1, <1>2, <2>1, <2>6, <2>7, <3>1, RunsFrame
  <2>9. CASE h.act = id
    <3>1. h = [act |-> id, colony |-> 0]
      BY <2>1, <2>2, <2>9
    <3>2. MayHandle(id) /\ ~MayHandle(id)'
      BY <2>7, <3>1 DEF MayHandle
    <3>3. Cardinality(RunsOf(id)') = Cardinality(RunsOf(id)) + 1 /\ Cardinality(RunsOf(id)) \in Nat
      BY <1>1, <2>1, <2>2, <2>9, RunsMore, RunsFinite
    <3> QED
      BY <1>1, <1>2, <2>1, <2>6, <3>2, <3>3 DEF Bound, One
  <2> QED
    BY <2>8, <2>9
<1>19. ASSUME NEW h \in asked, HandlerBooks(h) \/ HandlerFails(h)
       PROVE  Bound(id)'
  <2>1. UNCHANGED <<sweep, colonies, crashes, history>> /\ asked' \subseteq asked
    BY <1>19 DEF HandlerBooks, HandlerFails, Clock
  <2> QED
    BY <1>16, <2>1
<1>20. ASSUME NEW x \in Id, Approve(x)
       PROVE  Bound(id)'
  <2>1. /\ UNCHANGED <<sweep, colonies, crashes>>
        /\ asked' \subseteq asked \cup {[act |-> x, colony |-> 0]}
        /\ x \notin history.approved
    BY <1>1, <1>20, LedgerApproved DEF Approve, Clock
  <2>2. RunsOf(id)' = RunsOf(id)
    BY <2>1, RunsSame
  <2>3. CASE x = id
    <3>1. RunsOf(id) = {}
      BY <1>1, <1>2, <2>1, <2>3 DEF RunsOf, ColoniesInv
    <3>2. Cardinality(RunsOf(id)') = 0
      BY <2>2, <3>1, FS_EmptySet
    <3> QED
      BY <1>1, <2>1, <3>2 DEF Bound, One
  <2>4. CASE x # id
    <3>1. Approved(id)' => Approved(id)
      <4> SUFFICES ASSUME Approved(id)'
                   PROVE  Approved(id)
        OBVIOUS
      <4>1. ledger' = UpdateAction(x, "approved") /\ "approved" \in Status
        BY <1>20 DEF Approve, Status
      <4>2. /\ Len(ledger') = Len(ledger)
            /\ \A j \in 1..Len(ledger) :
                  /\ ledger'[j].id = ledger[j].id
                  /\ ledger'[j].status = IF ledger[j].id = x THEN "approved" ELSE ledger[j].status
        BY <1>1, <4>1, Rewritten
      <4> QED
        BY <2>4, <4>2 DEF Approved
    <3>2. MaySweep(id)' => MaySweep(id)
      BY <2>1, <3>1 DEF MaySweep
    <3>3. MayHandle(id)' => MayHandle(id)
      <4>1. [act |-> id, colony |-> 0] # [act |-> x, colony |-> 0]
        BY <2>4
      <4> QED
        BY <2>1, <4>1 DEF MayHandle
    <3> QED
      BY <1>1, <1>2, <2>1, <2>2, <3>2, <3>3, RunsFrame
  <2> QED
    BY <2>3, <2>4
<1>21. ASSUME NEW x \in Id, Reject(x) \/ Review(x) \/ ReviewEnds(x)
       PROVE  Bound(id)'
  <2>1. UNCHANGED <<sweep, colonies, crashes, history>> /\ asked' \subseteq asked
    BY <1>21 DEF Reject, Review, ReviewEnds, Clock, Desk
  <2> QED
    BY <1>16, <2>1
<1>22. ASSUME NEW c \in DOMAIN colonies, NEW actual \in Costs, ColonyEnds(c, actual)
       PROVE  Bound(id)'
  <2>1. UNCHANGED <<sweep, ledger, asked, crashes>>
    BY <1>22 DEF ColonyEnds, Desk, Clock
  <2>2. RunsOf(id)' = RunsOf(id)
    <3>1. c \in 1..Len(colonies)
      BY <1>1 DEF ColoniesInv
    <3> QED
      BY <1>1, <1>22, <3>1, Ending, RunsSame DEF ColonyEnds
  <2>3. MaySweep(id)' => MaySweep(id)
    BY <2>1 DEF MaySweep, Approved
  <2>4. MayHandle(id)' => MayHandle(id)
    BY <2>1 DEF MayHandle
  <2> QED
    BY <1>1, <1>2, <2>1, <2>2, <2>3, <2>4, RunsFrame
<1>23. ASSUME NewDay
       PROVE  Bound(id)'
  <2>1. UNCHANGED <<sweep, ledger, asked, crashes, colonies>>
    BY <1>23 DEF NewDay, Desk
  <2>2. Approved(id)' => Approved(id)
    BY <2>1 DEF Approved
  <2> QED
    BY <1>5, <2>1, <2>2
<1>24. ASSUME Crash
       PROVE  Bound(id)'
  <2>1. crashes' = crashes + 1 /\ asked' = {} /\ sweep' = Idle /\ ledger' = ledger
    BY <1>24 DEF Crash
  <2>2. RunsOf(id)' = RunsOf(id)
    BY <1>1, <1>24, Surviving, RunsSame DEF Crash
  <2>3. ~MayHandle(id)'
    BY <2>1 DEF MayHandle
  <2>4. Cardinality(RunsOf(id)) \in Nat
    BY <1>1, RunsFinite
  <2> QED
    BY <1>1, <1>2, <2>1, <2>2, <2>3, <2>4 DEF Bound, One
<1> QED
  BY <1>7, <1>8, <1>9, <1>10, <1>11, <1>12, <1>13, <1>14, <1>15, <1>17, <1>18, <1>19,
     <1>20, <1>21, <1>22, <1>23, <1>24 DEF AutonomyNext, SweepStep, HandlerStep

-----------------------------------------------------------------------------
(* The clock and the money.                                                 *)

LEMMA Amounts ==
    ASSUME SweepInv, ClockInv, MoneyInv
    PROVE  /\ {Saved, Unbooked, Ahead, Budget, spend, day, sweep.cost, sweep.left,
               history.charged, history.forgotten} \subseteq Nat
           /\ history.unbriefed \in BOOLEAN
BY AutonomyAssumption
   DEF SweepInv, SweepState, ClockInv, MoneyInv, Memory, Saved, Unbooked, Ahead

ClockMoney == ClockInv /\ MoneyInv

SameMoney == /\ history'.charged = history.charged /\ history'.forgotten = history.forgotten
             /\ history'.unbriefed = history.unbriefed

Counts == UNCHANGED <<spend, lastReset, persisted, estimates, day, crashes>>

StillSpawned == /\ estimates' \in SUBSET (1..Len(colonies'))
                /\ \A c \in estimates' : colonies'[c].status = "spawned"

LEMMA MoneyStays ==
    ASSUME ClockMoney, Counts, SameMoney, history' \in Memory, StillSpawned, sweep' = sweep
    PROVE  ClockMoney'
<1>1. Saved' = Saved /\ Unbooked' = Unbooked /\ Ahead' = Ahead
  BY DEF Saved, Unbooked, Ahead, Counts
<1>2. ClockInv'
  BY <1>1 DEF ClockMoney, ClockInv, Counts, StillSpawned
<1>3. MoneyInv'
  BY <1>1 DEF ClockMoney, MoneyInv, Counts, SameMoney
<1> QED
  BY <1>2, <1>3 DEF ClockMoney

LEMMA MoneyRests ==
    ASSUME SweepInv, ClockMoney, Counts, SameMoney, history' \in Memory, StillSpawned,
           sweep.spawn # "made", sweep'.spawn = "no", sweep'.pc # "dispatch",
           sweep.pc # "idle"
    PROVE  ClockMoney'
<1>1. Saved' = Saved /\ Unbooked' = 0 /\ Unbooked = 0 /\ Ahead' = 0
  BY DEF Saved, Unbooked, Ahead, Counts
<1>2. {Saved, Ahead, Budget, history.charged, history.forgotten} \subseteq Nat
  BY Amounts DEF ClockMoney
<1>3. ClockInv'
  BY <1>1, <1>2 DEF ClockMoney, ClockInv, Counts, StillSpawned
<1>4. MoneyInv'
  <2>1. ~history'.unbriefed => Saved' <= spend'
    BY <1>1 DEF ClockMoney, MoneyInv, Counts, SameMoney
  <2>2. ~history'.unbriefed => history'.charged <= Saved' + Unbooked' + history'.forgotten
    BY <1>1 DEF ClockMoney, MoneyInv, SameMoney
  <2>3. ~history'.unbriefed => history'.charged + Ahead' <= Budget + history'.forgotten
    BY <1>1, <1>2 DEF ClockMoney, MoneyInv, SameMoney
  <2> QED
    BY <2>1, <2>2, <2>3 DEF MoneyInv
<1> QED
  BY <1>3, <1>4 DEF ClockMoney

LEMMA MoneyAsked ==
    ASSUME SweepInv, ClockMoney, Counts, history' = history, StillSpawned,
           sweep.spawn = "no", sweep'.spawn = "asked", sweep'.pc = sweep.pc,
           sweep'.left = sweep.left, NEW cost \in Nat, sweep'.cost = cost, cost <= Budget,
           sweep.pc = "dispatch" => cost <= sweep.left,
           ~history.unbriefed => history.charged + cost <= Budget + history.forgotten
    PROVE  ClockMoney'
<1>1. Saved' = Saved /\ Unbooked' = 0 /\ Unbooked = 0 /\ Ahead' = cost
  BY DEF Saved, Unbooked, Ahead, Counts
<1>2. ClockInv'
  BY <1>1 DEF ClockMoney, ClockInv, Counts, StillSpawned
<1>3. MoneyInv'
  <2>1. history' \in Memory
    BY DEF ClockMoney, MoneyInv
  <2>2. ~history'.unbriefed /\ sweep'.pc # "idle" => Saved' <= spend'
    BY <1>1 DEF ClockMoney, MoneyInv, Counts
  <2>3. ~history'.unbriefed => history'.charged <= Saved' + Unbooked' + history'.forgotten
    BY <1>1 DEF ClockMoney, MoneyInv
  <2>4. ~history'.unbriefed => history'.charged + Ahead' <= Budget + history'.forgotten
    BY <1>1
  <2>5. ~history'.unbriefed /\ sweep'.pc = "dispatch" =>
           history'.charged + sweep'.left <= Budget + history'.forgotten + Unbooked'
    BY <1>1 DEF ClockMoney, MoneyInv
  <2> QED
    BY <2>1, <2>2, <2>3, <2>4, <2>5 DEF MoneyInv
<1> QED
  BY <1>2, <1>3 DEF ClockMoney

LEMMA StillThere ==
    ASSUME ClockInv, UNCHANGED <<colonies, estimates>>
    PROVE  StillSpawned
BY DEF ClockInv, StillSpawned

(* The sweep reads what the day has cost; the briefing of the other half    *)
(* raised before it did.                                                    *)
LEMMA MoneyStarts ==
    ASSUME SweepingInv, NEW level \in Level, StartSweep(level)
    PROVE  ClockMoney'
<1>1. /\ SweepInv /\ ClockInv /\ MoneyInv /\ history \in Memory
      /\ sweep.pc = "idle" /\ UNCHANGED <<persisted, colonies, estimates, day, crashes>>
  BY DEF SweepingInv, StartSweep, Clock, MoneyInv
<1>2. /\ {Saved, Unbooked, Ahead, Budget, spend, day, history.charged, history.forgotten} \subseteq Nat
      /\ Saved' = Saved /\ sweep.spawn = "no" /\ StillSpawned
  BY <1>1, Amounts, StillThere DEF Saved, SweepInv, SweepState
<1>3. PICK pc \in {"dispatch", "review"}, left \in Nat :
         SweepIs(sweep', pc, "no", 0, 0, left, 0, <<>>)
  BY SweepStarts
<1>4. /\ sweep'.pc = pc /\ sweep'.left = left /\ sweep'.spawn = "no"
      /\ Unbooked' = 0 /\ Ahead' = 0 /\ Unbooked = 0 /\ Ahead = 0
  BY <1>2, <1>3 DEF SweepIs, Unbooked, Ahead
<1>5. CASE sweep' = [Idle EXCEPT !.pc = "review"]
             /\ history' = [history EXCEPT !.unbriefed = TRUE] /\ UNCHANGED <<spend, lastReset>>
  <2>1. history' \in Memory /\ history'.unbriefed /\ pc = "review"
    <3>1. sweep'.pc = "review"
      BY <1>5 DEF Idle
    <3> QED
      BY <1>1, <1>4, <1>5, <3>1 DEF Memory
  <2>2. ClockInv'
    BY <1>1, <1>2, <1>4, <1>5, <2>1 DEF ClockInv, StillSpawned
  <2> QED
    BY <2>1, <2>2 DEF ClockMoney, MoneyInv
<1>6. CASE lastReset' = day /\ spend' = AfterReset /\ UNCHANGED history
  <2>1. spend' \in Nat /\ Saved <= spend'
    BY <1>1, <1>2, <1>6 DEF AfterReset, Saved, ClockInv
  <2>2. pc = "dispatch" => left = IF Budget > spend' THEN Budget - spend' ELSE 0
    BY <1>4, <1>6, SweepStarts
  <2>3. pc = "dispatch" => left <= Budget
    BY <1>2, <2>1, <2>2
  <2>4. ClockInv'
    BY <1>1, <1>2, <1>4, <1>6, <2>1, <2>3 DEF ClockInv, StillSpawned
  <2>5. ASSUME ~history.unbriefed
        PROVE  /\ history.charged <= Saved + history.forgotten
               /\ history.charged <= Budget + history.forgotten
               /\ pc = "dispatch" => history.charged + left <= Budget + history.forgotten
    <3>1. /\ history.charged <= Saved + history.forgotten
          /\ history.charged <= Budget + history.forgotten
      BY <1>1, <1>2, <1>4, <2>5 DEF MoneyInv
    <3> QED
      BY <1>2, <2>1, <2>2, <3>1
  <2>6. MoneyInv'
    BY <1>1, <1>2, <1>4, <1>6, <2>1, <2>5 DEF MoneyInv
  <2> QED
    BY <2>4, <2>6 DEF ClockMoney
<1> QED
  BY <1>5, <1>6 DEF StartSweep

LEMMA MoneySpawned ==
    ASSUME SweepingInv, AutonomyNext, SweepSpawns
    PROVE  ClockMoney'
<1>1. /\ SweepInv /\ ColoniesInv /\ ClockInv /\ MoneyInv /\ history \in Memory /\ Grows
      /\ sweep.spawn = "asked" /\ Counts /\ sweep.act \in {0} \cup Id
      /\ sweep.pc # "idle"
  BY ColoniesStep DEF SweepingInv, SweepSpawns, Spending, Clock, Counts, MoneyInv, SweepInv, SweepState
<1>2. /\ {Saved, Unbooked, Ahead, Budget, spend, day, sweep.cost, sweep.left,
          history.charged, history.forgotten} \subseteq Nat
      /\ Saved' = Saved
  BY <1>1, Amounts DEF Saved, Counts
<1>3. /\ sweep'.pc = sweep.pc /\ sweep'.spawn = "made" /\ sweep'.cost = sweep.cost
      /\ sweep'.left = sweep.left
  BY SweepMakes DEF SweepIs
<1>4. Unbooked' = sweep.cost /\ Ahead' = 0 /\ Unbooked = 0 /\ Ahead = sweep.cost
  BY <1>1, <1>3 DEF Unbooked, Ahead
<1>5. /\ history' \in Memory /\ history'.charged = history.charged + sweep.cost
      /\ history'.forgotten = history.forgotten /\ history'.unbriefed = history.unbriefed
  BY <1>1, <1>2, Remembering DEF SweepSpawns
<1>6. StillSpawned
  <2>1. \A c \in 1..Len(colonies) : colonies'[c] = colonies[c]
    BY <1>1, <1>2, Spawning DEF SweepSpawns
  <2> QED
    BY <1>1, <2>1 DEF ClockInv, StillSpawned, Counts, Grows
<1>7. ClockInv'
  BY <1>1, <1>2, <1>3, <1>4, <1>6 DEF ClockInv, Counts, StillSpawned
<1>8. MoneyInv'
  <2>1. ~history'.unbriefed => Saved' <= spend'
    BY <1>1, <1>2, <1>5 DEF MoneyInv, Counts
  <2>2. ~history'.unbriefed => history'.charged <= Saved' + Unbooked' + history'.forgotten
    BY <1>1, <1>2, <1>4, <1>5 DEF MoneyInv
  <2>3. ~history'.unbriefed => history'.charged + Ahead' <= Budget + history'.forgotten
    BY <1>1, <1>2, <1>4, <1>5 DEF MoneyInv
  <2>4. ~history'.unbriefed /\ sweep'.pc = "dispatch" =>
           history'.charged + sweep'.left <= Budget + history'.forgotten + Unbooked'
    BY <1>1, <1>2, <1>3, <1>4, <1>5 DEF MoneyInv
  <2> QED
    BY <1>5, <2>1, <2>2, <2>3, <2>4 DEF MoneyInv
<1> QED
  BY <1>7, <1>8 DEF ClockMoney

LEMMA MoneyBooked ==
    ASSUME SweepingInv, SweepBooks
    PROVE  ClockMoney'
<1>1. /\ SweepInv /\ ClockInv /\ MoneyInv /\ history \in Memory /\ colonies' = colonies
      /\ sweep.spawn = "made" /\ UNCHANGED <<history, lastReset, day, crashes>>
      /\ sweep.pc # "idle" /\ Charge(sweep.cost, sweep.colony)
  BY DEF SweepingInv, SweepBooks, Clock, MoneyInv, SweepInv
<1>2. /\ {Saved, Unbooked, Ahead, Budget, spend, day, sweep.cost, sweep.left,
          history.charged, history.forgotten} \subseteq Nat
      /\ Unbooked = sweep.cost /\ Ahead = 0
  BY <1>1, Amounts DEF Unbooked, Ahead
<1>3. sweep'.spawn = "no" /\ Unbooked' = 0 /\ Ahead' = 0
  BY SweepBooked DEF SweepIs, Unbooked, Ahead
<1>4. sweep'.pc = "dispatch" => /\ sweep.pc = "dispatch" /\ sweep.cost <= sweep.left
                               /\ sweep'.left = sweep.left - sweep.cost
  BY <1>1, SweepBooked DEF SweepIs, ClockInv
<1>5. /\ spend' \in Nat /\ persisted' \in [date : Nat, spend : Nat] /\ persisted'.date <= day
      /\ StillSpawned /\ spend' = spend + sweep.cost
      /\ Saved + sweep.cost <= Saved' \/ history.unbriefed
      /\ Saved <= spend => Saved' <= spend'
  <2>1. CASE sweep.cost = 0
    <3>1. UNCHANGED <<spend, persisted, estimates>>
      BY <1>1, <2>1 DEF Charge
    <3> QED
      BY <1>1, <1>2, <2>1, <3>1, StillThere DEF ClockInv, Saved
  <2>2. CASE sweep.cost # 0
    <3>1. /\ spend' = spend + sweep.cost /\ persisted' = [date |-> day, spend |-> spend']
          /\ estimates' = estimates \cup {sweep.colony}
      BY <1>1, <2>2 DEF Charge
    <3>2. spend' \in Nat /\ Saved' = spend'
      BY <1>1, <1>2, <3>1 DEF Saved
    <3>3. Saved + sweep.cost <= Saved' \/ history.unbriefed
      BY <1>1, <1>2, <3>1, <3>2 DEF MoneyInv
    <3>4. StillSpawned
      BY <1>1, <3>1 DEF StillSpawned, SweepInv, ClockInv
    <3> QED
      BY <1>2, <3>1, <3>2, <3>3, <3>4
  <2> QED
    BY <2>1, <2>2
<1>6. ClockInv'
  <2>1. sweep'.pc = "dispatch" => sweep'.left <= Budget
    BY <1>1, <1>2, <1>4 DEF ClockInv
  <2>2. lastReset' = day' => Saved' <= spend'
    BY <1>1, <1>5 DEF ClockInv
  <2> QED
    BY <1>1, <1>2, <1>3, <1>5, <2>1, <2>2 DEF ClockInv, StillSpawned
<1>7. MoneyInv'
  <2>0. Saved' \in Nat
    BY <1>1, <1>5 DEF Saved
  <2>1. ~history'.unbriefed => Saved' <= spend'
    BY <1>1, <1>5 DEF MoneyInv
  <2>2. ~history'.unbriefed => history'.charged <= Saved' + Unbooked' + history'.forgotten
    <3>1. ~history.unbriefed => history.charged <= Saved + sweep.cost + history.forgotten
      BY <1>1, <1>2 DEF MoneyInv
    <3> QED
      BY <1>1, <1>2, <1>3, <1>5, <2>0, <3>1
  <2>3. ~history'.unbriefed => history'.charged + Ahead' <= Budget + history'.forgotten
    BY <1>1, <1>2, <1>3 DEF MoneyInv
  <2>4. ~history'.unbriefed /\ sweep'.pc = "dispatch" =>
           history'.charged + sweep'.left <= Budget + history'.forgotten + Unbooked'
    BY <1>1, <1>2, <1>3, <1>4 DEF MoneyInv
  <2> QED
    BY <1>1, <2>1, <2>2, <2>3, <2>4 DEF MoneyInv
<1> QED
  BY <1>6, <1>7 DEF ClockMoney

LEMMA MoneyFailed ==
    ASSUME SweepingInv, SweepFails
    PROVE  ClockMoney'
<1>1. /\ SweepInv /\ ClockInv /\ MoneyInv /\ history \in Memory /\ colonies' = colonies
      /\ Counts /\ sweep.pc # "idle" /\ StillSpawned /\ ClockMoney
      /\ IF sweep.spawn = "made" THEN Forget(sweep.cost) ELSE UNCHANGED history
  BY StillThere
  DEF SweepingInv, SweepFails, Clock, Spending, MoneyInv, SweepInv, Counts, ClockMoney
<1>2. {Saved, Unbooked, Ahead, Budget, spend, day, sweep.cost,
       history.charged, history.forgotten} \subseteq Nat
  BY <1>1, Amounts
<1>3. sweep'.spawn = "no" /\ sweep'.pc # "dispatch"
  BY SweepFailed DEF SweepIs
<1>4. CASE sweep.spawn # "made"
  BY <1>1, <1>3, <1>4, MoneyRests DEF SameMoney
<1>5. CASE sweep.spawn = "made"
  <2>1. /\ Saved' = Saved /\ Unbooked' = 0 /\ Unbooked = sweep.cost /\ Ahead' = 0 /\ Ahead = 0
    BY <1>1, <1>3, <1>5 DEF Saved, Unbooked, Ahead, Counts
  <2>2. /\ history' \in Memory /\ history'.charged = history.charged
        /\ history'.forgotten = history.forgotten + sweep.cost
        /\ history'.unbriefed = history.unbriefed
    <3>1. sweep.cost \in Nat /\ history' = [history EXCEPT !.forgotten = @ + sweep.cost]
      BY <1>1, <1>2, <1>5 DEF Forget
    <3> QED
      BY <1>1, <3>1 DEF Memory
  <2>3. ClockInv'
    BY <1>1, <1>2, <1>3, <2>1 DEF ClockInv, Counts, StillSpawned
  <2>4. MoneyInv'
    BY <1>1, <1>2, <1>3, <2>1, <2>2 DEF MoneyInv, Counts
  <2> QED
    BY <2>3, <2>4 DEF ClockMoney
<1> QED
  BY <1>4, <1>5

LEMMA MoneyNewDay ==
    ASSUME SweepingInv, NewDay
    PROVE  ClockMoney'
<1>1. /\ SweepInv /\ ClockInv /\ MoneyInv /\ history \in Memory
      /\ UNCHANGED <<colonies, sweep, spend, lastReset, persisted, estimates, crashes>>
      /\ day' = day + 1
  BY DEF SweepingInv, NewDay, Spending, MoneyInv
<1>2. {Saved, Unbooked, Ahead, Budget, spend, day, sweep.left} \subseteq Nat
  BY <1>1, Amounts
<1>3. /\ Saved' = 0 /\ Unbooked' = Unbooked /\ Ahead' = Ahead /\ StillSpawned
  BY <1>1, <1>2, StillThere DEF Saved, Unbooked, Ahead, ClockInv
<1>4. history' \in Memory /\ history'.charged = 0 /\ history'.forgotten = 0
  <2>1. 0 \in Nat /\ history' = [history EXCEPT !.charged = 0, !.forgotten = 0, !.unbriefed = FALSE]
    BY DEF NewDay
  <2> QED
    BY <1>1, <2>1, Remembering
<1>5. ClockInv'
  BY <1>1, <1>2, <1>3 DEF ClockInv, StillSpawned
<1>6. MoneyInv'
  BY <1>1, <1>2, <1>3, <1>4 DEF MoneyInv, ClockInv
<1> QED
  BY <1>5, <1>6 DEF ClockMoney

LEMMA MoneyCrashes ==
    ASSUME SweepingInv, Crash
    PROVE  ClockMoney'
<1>1. /\ SweepInv /\ ClockInv /\ MoneyInv /\ history \in Memory
      /\ sweep' = Idle /\ spend' = 0 /\ lastReset' = 0 /\ estimates' = {}
      /\ UNCHANGED <<persisted, day>> /\ crashes' = crashes + 1
      /\ IF sweep.spawn = "made" THEN Forget(sweep.cost) ELSE UNCHANGED history
  BY DEF SweepingInv, Crash, MoneyInv
<1>2. {Saved, Unbooked, Ahead, Budget, day, sweep.cost,
       history.charged, history.forgotten} \subseteq Nat
  BY <1>1, Amounts
<1>3. sweep'.pc = "idle" /\ Saved' = Saved /\ Unbooked' = 0 /\ Ahead' = 0
  BY <1>1 DEF Idle, Saved, Unbooked, Ahead
<1>4. ClockInv'
  BY <1>1, <1>2, <1>3 DEF ClockInv
<1>5. /\ history' \in Memory /\ history'.charged = history.charged
      /\ history'.forgotten = history.forgotten + Unbooked
      /\ history'.unbriefed = history.unbriefed
  <2>1. CASE sweep.spawn = "made"
    <3>1. /\ sweep.cost \in Nat /\ history' = [history EXCEPT !.forgotten = @ + sweep.cost]
          /\ Unbooked = sweep.cost
      BY <1>1, <1>2, <2>1 DEF Forget, Unbooked
    <3> QED
      BY <1>1, <3>1 DEF Memory
  <2>2. CASE sweep.spawn # "made"
    BY <1>1, <1>2, <2>2 DEF Unbooked
  <2> QED
    BY <2>1, <2>2
<1>6. MoneyInv'
  BY <1>1, <1>2, <1>3, <1>5 DEF MoneyInv
<1> QED
  BY <1>4, <1>6 DEF ClockMoney

LEMMA MoneyStep ==
    ASSUME SweepingInv, AutonomyNext
    PROVE  ClockMoney'
<1>1. /\ SweepInv /\ ClockInv /\ MoneyInv /\ ClockMoney /\ ColoniesInv /\ Grows
      /\ history \in Memory /\ sweep \in SweepState
  BY ColoniesStep DEF SweepingInv, MoneyInv, ClockMoney, SweepInv
<1>2. {Saved, Unbooked, Ahead, Budget, spend, day, sweep.cost, sweep.left,
       history.charged, history.forgotten} \subseteq Nat
  BY <1>1, Amounts
<1>3. ASSUME Counts, colonies' = colonies, sweep' = sweep, history' = history
      PROVE  ClockMoney'
  BY <1>1, <1>3, StillThere, MoneyStays DEF SameMoney, Counts
<1>4. ASSUME Counts, colonies' = colonies, history' = history,
             sweep.spawn = "no", sweep.pc # "idle", sweep'.spawn = "no", sweep'.pc # "dispatch"
      PROVE  ClockMoney'
  BY <1>1, <1>4, StillThere, MoneyRests DEF SameMoney, Counts
<1>5. ASSUME NEW level \in Level, StartSweep(level)
      PROVE  ClockMoney'
  BY <1>5, MoneyStarts
<1>6. ASSUME NEW level \in Level, Continue(level)
      PROVE  ClockMoney'
  <2>1. PICK id \in Id :
           SweepIs(sweep', "continue", "asked", id, ContinueCost, sweep.left, sweep.colony, <<>>)
    BY <1>6, SweepContinues
  <2>2. /\ Counts /\ colonies' = colonies /\ history' = history /\ ContinueCost \in Nat
        /\ sweep.pc = "continue" /\ sweep.spawn = "no" /\ spend + ContinueCost <= Budget
    BY <1>6, AutonomyAssumption DEF Continue, Counts, Spending, Clock
  <2>3. /\ ContinueCost <= Budget
        /\ ~history.unbriefed => history.charged + ContinueCost <= Budget + history.forgotten
    BY <1>1, <1>2, <2>2 DEF MoneyInv, Unbooked
  <2>4. StillSpawned
    BY <1>1, <2>2, StillThere DEF Counts
  <2> QED
    BY <1>1, <2>1, <2>2, <2>3, <2>4, MoneyAsked DEF SweepIs
<1>7. ASSUME EndDispatch \/ EndProposals
      PROVE  ClockMoney'
  <2>1. /\ Counts /\ colonies' = colonies /\ history' = history /\ sweep.pc # "idle"
        /\ sweep.spawn = "no"
    BY <1>1, <1>7 DEF EndDispatch, EndProposals, Counts, Spending, Clock, SweepInv, SweepState
  <2>2. PICK pc \in {"review", "continue"} : sweep' = [Idle EXCEPT !.pc = pc]
    BY <1>7 DEF EndDispatch, EndProposals
  <2>3. SweepIs(sweep', pc, "no", 0, 0, 0, 0, <<>>)
    <3>1. <<>> \in Seq(Id) /\ pc \in Stage
      BY DEF Stage
    <3> QED
      BY <2>2, <3>1, Resting
  <2> QED
    BY <1>4, <2>1, <2>3 DEF SweepIs
<1>8. ASSUME EndContinue
      PROVE  ClockMoney'
  <2>1. /\ Counts /\ colonies' = colonies /\ history' = history /\ sweep.pc # "idle"
        /\ sweep.spawn = "no"
    BY <1>8 DEF EndContinue, Counts, Spending, Clock
  <2>2. PICK todo : SweepIs(sweep', "approved", "no", 0, 0, 0, 0, todo)
    BY <1>8, SweepLists
  <2> QED
    BY <1>4, <2>1, <2>2 DEF SweepIs
<1>9. ASSUME ExecuteApproved
      PROVE  ClockMoney'
  <2>1. /\ Counts /\ colonies' = colonies /\ history' = history /\ sweep.pc = "approved"
        /\ sweep.spawn = "no"
    BY <1>9 DEF ExecuteApproved, Counts, Spending, Clock
  <2>2. CASE SweepIs(sweep', "idle", "no", 0, 0, 0, 0, <<>>)
    BY <1>4, <2>1, <2>2 DEF SweepIs
  <2>3. CASE SweepIs(sweep', "approved", "asked", Head(sweep.todo), 0, sweep.left, sweep.colony,
                     Tail(sweep.todo))
    <3>1. /\ sweep'.spawn = "asked" /\ sweep'.pc = "approved" /\ sweep'.left = sweep.left
          /\ sweep'.cost = 0 /\ 0 \in Nat
      BY <2>3 DEF SweepIs
    <3>2. /\ 0 <= Budget
          /\ ~history.unbriefed => history.charged + 0 <= Budget + history.forgotten
      BY <1>1, <1>2, <2>1 DEF MoneyInv, Ahead
    <3>3. StillSpawned
      BY <1>1, <2>1, StillThere DEF Counts
    <3> QED
      BY <1>1, <2>1, <3>1, <3>2, <3>3, MoneyAsked
  <2> QED
    BY <1>9, <2>2, <2>3, SweepTakes
<1>10. ASSUME SweepSpawns
       PROVE  ClockMoney'
  BY <1>10, MoneySpawned
<1>11. ASSUME SweepBooks
       PROVE  ClockMoney'
  BY <1>11, MoneyBooked
<1>12. ASSUME SweepFails
       PROVE  ClockMoney'
  BY <1>12, MoneyFailed
<1>13. ASSUME NEW cost \in Costs, NEW optedIn \in BOOLEAN,
              NEW blast \in {"proceed", "notify", "escalate"}, Insight(cost, optedIn, blast)
       PROVE  ClockMoney'
  <2>1. Counts /\ colonies' = colonies /\ history' = history
    BY <1>13 DEF Insight, Counts, Spending, Clock
  <2>2. CASE sweep' = sweep
    BY <1>3, <2>1, <2>2
  <2>3. CASE sweep' # sweep
    <3>1. /\ sweep.pc = "dispatch" /\ sweep.spawn = "no" /\ cost \in Nat /\ cost <= sweep.left
          /\ SweepIs(sweep', "dispatch", "asked", 0, cost, sweep.left, sweep.colony, <<>>)
      BY <1>13, <2>3, SweepAsks
    <3>2. /\ cost <= Budget
          /\ ~history.unbriefed => history.charged + cost <= Budget + history.forgotten
      <4>1. Unbooked = 0 /\ sweep.left <= Budget
        BY <1>1, <3>1 DEF ClockInv, Unbooked
      <4>2. ~history.unbriefed => history.charged + sweep.left <= Budget + history.forgotten + Unbooked
        BY <1>1, <3>1 DEF MoneyInv
      <4>3. {cost, sweep.left, Budget, history.charged, history.forgotten} \subseteq Nat
        BY <1>1, <3>1, Amounts
      <4> QED
        BY <3>1, <4>1, <4>2, <4>3
    <3>3. StillSpawned
      BY <1>1, <2>1, StillThere DEF Counts
    <3> QED
      BY <1>1, <2>1, <3>1, <3>2, <3>3, MoneyAsked DEF SweepIs
  <2> QED
    BY <2>2, <2>3
<1>14. ASSUME NEW kind \in Kind, Propose(kind)
       PROVE  ClockMoney'
  BY <1>3, <1>14 DEF Propose, Counts, Spending, Clock
<1>15. ASSUME NEW h \in asked, HandlerSpawns(h)
       PROVE  ClockMoney'
  <2>1. Counts /\ history' = history /\ sweep' = sweep /\ SpawnColony(h.act, 0)
    BY <1>15 DEF HandlerSpawns, Counts, Spending, Clock
  <2>2. h.act \in {0} \cup Id /\ 0 \in Nat
    BY DEF SweepingInv, DeskInv
  <2>3. \A c \in 1..Len(colonies) : colonies'[c] = colonies[c]
    BY <1>1, <2>1, <2>2, Spawning
  <2>4. StillSpawned
    BY <1>1, <2>1, <2>3 DEF ClockInv, StillSpawned, Counts, Grows
  <2> QED
    BY <1>1, <2>1, <2>4, MoneyStays DEF SameMoney
<1>16. ASSUME NEW h \in asked, HandlerBooks(h) \/ HandlerFails(h)
       PROVE  ClockMoney'
  BY <1>3, <1>16 DEF HandlerBooks, HandlerFails, Counts, Spending, Clock
<1>17. ASSUME NEW id \in Id, Approve(id)
       PROVE  ClockMoney'
  <2>1. Counts /\ colonies' = colonies /\ sweep' = sweep
    BY <1>17 DEF Approve, Counts, Spending, Clock
  <2>2. history' \in Memory /\ SameMoney
    BY <1>1, <1>17 DEF Approve, Memory, SameMoney
  <2>3. StillSpawned
    BY <1>1, <2>1, StillThere DEF Counts
  <2> QED
    BY <1>1, <2>1, <2>2, <2>3, MoneyStays
<1>18. ASSUME NEW id \in Id, Reject(id) \/ Review(id) \/ ReviewEnds(id)
       PROVE  ClockMoney'
  BY <1>3, <1>18 DEF Reject, Review, ReviewEnds, Counts, Spending, Clock
<1>19. ASSUME NEW c \in DOMAIN colonies, NEW actual \in Costs, ColonyEnds(c, actual)
       PROVE  ClockMoney'
  <2>1. c \in 1..Len(colonies) /\ colonies[c].status = "tasked" /\ c \notin estimates
    BY <1>1, <1>19 DEF ColoniesInv, ColonyEnds, ClockInv
  <2>2. Counts /\ history' = history /\ sweep' = sweep
    BY <1>19, <2>1 DEF ColonyEnds, Reconcile, Counts, Clock
  <2>3. Len(colonies') = Len(colonies) /\ \A d \in 1..Len(colonies) : d # c => colonies'[d] = colonies[d]
    BY <1>1, <1>19, <2>1, Ending DEF ColonyEnds
  <2>4. StillSpawned
    BY <1>1, <2>1, <2>2, <2>3 DEF ClockInv, StillSpawned, Counts
  <2> QED
    BY <1>1, <2>2, <2>4, MoneyStays DEF SameMoney
<1>20. ASSUME NewDay
       PROVE  ClockMoney'
  BY <1>20, MoneyNewDay
<1>21. ASSUME Crash
       PROVE  ClockMoney'
  BY <1>21, MoneyCrashes
<1> QED
  BY <1>5, <1>6, <1>7, <1>8, <1>9, <1>10, <1>11, <1>12, <1>13, <1>14, <1>15, <1>16, <1>17,
     <1>18, <1>19, <1>20, <1>21 DEF AutonomyNext, SweepStep, HandlerStep

-----------------------------------------------------------------------------
(* The invariant of autonomous operations and what it is for.               *)

LEMMA SweepingInit == AutonomyInit => SweepingInv
<1> SUFFICES ASSUME AutonomyInit
             PROVE  SweepingInv
  OBVIOUS
<1> USE DEF AutonomyInit
<1>1. /\ SweepIs(sweep, "idle", "no", 0, 0, 0, 0, <<>>) /\ Budget \in Nat /\ MaxActions \in Nat
      /\ ledger = <<>> /\ colonies = <<>> /\ asked = {} /\ Len(<<>>) = 0
  BY IdleIs, AutonomyAssumption
<1>2. history \in Memory /\ history.approved = {} /\ history.charged = 0 /\ history.forgotten = 0
  BY DEF Memory
<1>3. /\ sweep \in SweepState /\ sweep.pc = "idle" /\ sweep.spawn = "no"
      /\ sweep.act = 0 /\ sweep.todo = <<>>
  BY <1>1 DEF SweepIs
<1> HIDE DEF AutonomyInit
<1>4. LedgerInv
  BY <1>1, <1>2 DEF LedgerInv, AutonomyInit
<1>5. DeskInv
  BY <1>1 DEF DeskInv, AutonomyInit
<1>6. ColoniesInv
  BY <1>1 DEF ColoniesInv
<1>7. SweepInv
  BY <1>1, <1>3 DEF SweepInv
<1>8. RunsInv
  <2> SUFFICES ASSUME NEW id \in Id
               PROVE  Bound(id)
    BY DEF RunsInv, Bound
  <2>1. RunsOf(id) = {} /\ ~MayHandle(id) /\ ~MaySweep(id)
    BY <1>1, <1>3 DEF RunsOf, MayHandle, MaySweep, Approved
  <2>2. Cardinality(RunsOf(id)) = 0 /\ crashes = 0
    BY <2>1, FS_EmptySet DEF AutonomyInit
  <2> QED
    BY <2>1, <2>2 DEF Bound, One
<1>9. Saved = 0 /\ Unbooked = 0 /\ Ahead = 0
  BY <1>3 DEF Saved, Unbooked, Ahead, AutonomyInit
<1>10. ClockInv
  BY <1>1, <1>3, <1>9 DEF ClockInv, AutonomyInit
<1>11. MoneyInv
  BY <1>1, <1>2, <1>3, <1>9 DEF MoneyInv
<1> QED
  BY <1>4, <1>5, <1>6, <1>7, <1>8, <1>10, <1>11 DEF SweepingInv

LEMMA SweepingStutters ==
    ASSUME SweepingInv, UNCHANGED autonomyVars
    PROVE  SweepingInv'
<1> USE DEF autonomyVars
<1>1. LedgerInv'
  BY DEF SweepingInv, LedgerInv
<1>2. DeskInv'
  BY DEF SweepingInv, DeskInv
<1>3. ColoniesInv'
  BY DEF SweepingInv, ColoniesInv
<1>4. SweepInv'
  BY DEF SweepingInv, SweepInv
<1>5. RunsInv'
  <2>1. \A id \in Id : RunsOf(id)' = RunsOf(id)
    BY DEF RunsOf
  <2>2. \A id \in Id : /\ One(MayHandle(id))' = One(MayHandle(id))
                       /\ One(MaySweep(id))' = One(MaySweep(id))
    BY DEF One, MayHandle, MaySweep, Approved
  <2> QED
    BY <2>1, <2>2 DEF SweepingInv, RunsInv
<1>6. ClockInv'
  BY DEF SweepingInv, ClockInv, Saved, Ahead
<1>7. MoneyInv'
  BY DEF SweepingInv, MoneyInv, Saved, Unbooked, Ahead
<1> QED
  BY <1>1, <1>2, <1>3, <1>4, <1>5, <1>6, <1>7 DEF SweepingInv

LEMMA SweepingStep ==
    ASSUME SweepingInv, AutonomyNext
    PROVE  SweepingInv'
<1>1. LedgerInv'
  BY LedgerMoved, LedgerStep DEF SweepingInv
<1>2. DeskInv' /\ ColoniesInv' /\ SweepInv' /\ RunsInv'
  BY DeskStep, ColoniesStep, SweepKept, RunsStep
<1>3. ClockInv' /\ MoneyInv'
  BY MoneyStep DEF ClockMoney
<1> QED
  BY <1>1, <1>2, <1>3 DEF SweepingInv

LEMMA SweepingInvariant == AutonomySpec => []SweepingInv
<1>1. SweepingInv /\ [AutonomyNext]_autonomyVars => SweepingInv'
  BY SweepingStep, SweepingStutters
<1> QED
  BY <1>1, SweepingInit, PTL DEF AutonomySpec

(* The variables of the sweep, the ledger and the dispatcher keep their     *)
(* types, and a colony that a sweep or a handler made exists.               *)
THEOREM AutonomyTypeCorrect == AutonomySpec => []AutonomyTypeOK
<1>1. SweepingInv => AutonomyTypeOK
  <2> SUFFICES ASSUME SweepingInv
               PROVE  AutonomyTypeOK
    OBVIOUS
  <2>1. /\ ledger \in Seq(Action) /\ DOMAIN ledger = 1..Len(ledger)
        /\ \A i, j \in 1..Len(ledger) : ledger[i].id = ledger[j].id => i = j
        /\ nextId \in 1..(MaxActions + 1)
    BY DEF SweepingInv, LedgerInv
  <2>2. DOMAIN colonies = 1..Len(colonies) /\ Len(colonies) \in Nat
    BY DEF SweepingInv, ColoniesInv
  <2>3. /\ sweep.spawn \in {"no", "asked", "made"}
        /\ sweep.spawn = "made" => sweep.colony \in DOMAIN colonies
    BY <2>2 DEF SweepingInv, SweepInv, SweepState
  <2>4. /\ \A h \in asked : h.act \in Id /\ h.colony \in {0} \cup DOMAIN colonies
        /\ reviews \subseteq Id
    BY <2>2 DEF SweepingInv, DeskInv
  <2>5. {spend, lastReset, day, crashes} \subseteq Nat /\ estimates \subseteq DOMAIN colonies
    BY <2>2 DEF SweepingInv, ClockInv
  <2> QED
    BY <2>1, <2>3, <2>4, <2>5 DEF AutonomyTypeOK
<1> QED
  BY <1>1, SweepingInvariant, PTL

(* daily_maintenance_budget: for any costs, sweeps, crashes and days, what  *)
(* the sweeps of a day charge is within the budget, but for the spawns that *)
(* were never booked and the sweeps whose briefing raised                   *)
(* (self_maintenance.py, _reset_daily_budget_if_needed and its callers).    *)
THEOREM BudgetHolds == AutonomySpec => []DailyCap
<1>1. SweepingInv => DailyCap
  <2> SUFFICES ASSUME SweepingInv, ~history.unbriefed
               PROVE  history.charged <= Budget + history.forgotten
    BY DEF DailyCap
  <2>1. /\ {Ahead, Budget, history.charged, history.forgotten} \subseteq Nat
        /\ history.charged + Ahead <= Budget + history.forgotten
    BY Amounts DEF SweepingInv, MoneyInv
  <2> QED
    BY <2>1
<1> QED
  BY <1>1, SweepingInvariant, PTL

(* Whatever runs a proposed action, a handler, an idle continuation or the  *)
(* stale list of step 7, was approved and is not rejected.                  *)
THEOREM SpawnsAreApproved == AutonomySpec => []SpawnedByApproval
<1>1. SweepingInv => SpawnedByApproval
  <2> SUFFICES ASSUME SweepingInv, NEW c \in DOMAIN colonies, colonies[c].act # 0
               PROVE  /\ colonies[c].act \in history.approved
                      /\ colonies[c].act \notin Having("rejected")
    BY DEF SpawnedByApproval
  <2>1. LedgerInv /\ colonies[c].act \in history.approved
    BY DEF SweepingInv, ColoniesInv
  <2>2. ASSUME colonies[c].act \in Having("rejected")
        PROVE  FALSE
    <3>1. PICK i \in 1..Len(ledger) :
             ledger[i].id = colonies[c].act /\ ledger[i].status = "rejected"
      BY <2>1, <2>2, RecordOf DEF Having
    <3> QED
      BY <2>1, <3>1 DEF LedgerInv, Accepted
  <2> QED
    BY <2>1, <2>2
<1> QED
  BY <1>1, SweepingInvariant, PTL

(* An approval is run by its handler and by the sweep at most once each in  *)
(* the life of a process, and once more for a crash between a spawn and its *)
(* booking.                                                                 *)
THEOREM ApprovalsRunTwice == AutonomySpec => []RunsPerApproval
<1>1. SweepingInv => RunsPerApproval
  <2> SUFFICES ASSUME SweepingInv, NEW id \in Id
               PROVE  Cardinality({c \in DOMAIN colonies : colonies[c].act = id}) <= 2 + crashes
    BY DEF RunsPerApproval
  <2>1. ColoniesInv /\ crashes \in Nat /\ Bound(id)
    BY DEF SweepingInv, RunsInv, Bound, ClockInv
  <2>2. Cardinality(RunsOf(id)) \in Nat
    BY <2>1, RunsFinite
  <2>3. {c \in DOMAIN colonies : colonies[c].act = id} = RunsOf(id)
    BY <2>1 DEF RunsOf, ColoniesInv
  <2> QED
    BY <2>1, <2>2, <2>3 DEF Bound, One
<1> QED
  BY <1>1, SweepingInvariant, PTL

(* What is approved runs, and nothing else does, a bounded number of times. *)
THEOREM RunsAreApproved == AutonomySpec => []RunsAsApproved
<1>1. SpawnedByApproval /\ RunsPerApproval => RunsAsApproved
  BY DEF RunsAsApproved
<1> QED
  BY <1>1, SpawnsAreApproved, ApprovalsRunTwice, PTL

(* The ledger's life cycle, whoever rewrites the file: a pending action     *)
(* moves by the operator's decision only, an approved one to its end, and   *)
(* compaction archives nothing that is pending (action_queue.py             *)
(* _VALID_TRANSITIONS, compact_action_log).                                 *)
THEOREM LedgerMovesOn == AutonomySpec => LedgerMoves
<1> DEFINE Good(i) ==
         \/ \E j \in DOMAIN ledger' :
               /\ ledger'[j].id = ledger[i].id
               /\ Settles(ledger[i].status, ledger'[j].status)
         \/ /\ \A j \in DOMAIN ledger' : ledger'[j].id # ledger[i].id
            /\ ledger[i].status # "pending_review"
<1>1. ASSUME SweepingInv, AutonomyNext, NEW i \in DOMAIN ledger
      PROVE  Good(i)
  <2>1. /\ LedgerInv /\ LedgerInv' /\ LedgerMove
    BY <1>1, LedgerMoved, LedgerStep DEF SweepingInv
  <2>2. /\ DOMAIN ledger = 1..Len(ledger) /\ DOMAIN ledger' = 1..Len(ledger')
        /\ ledger[i] \in Action /\ i \in 1..Len(ledger)
    BY <1>1, <2>1 DEF LedgerInv
  <2>3. ledger[i].status \in Status
    BY <2>2 DEF Action
  <2>4. ASSUME NEW j \in 1..Len(ledger'), ledger'[j] = ledger[i]
        PROVE  Good(i)
    BY <2>2, <2>4 DEF Settles
  <2>5. CASE UNCHANGED <<ledger, nextId>>
    BY <2>2, <2>4, <2>5
  <2>6. ASSUME NEW kind \in Kind, NEW status \in {"pending_review", "self_rejected"},
               AppendAction(kind, status)
        PROVE  Good(i)
    <3> DEFINE e == [id |-> nextId, kind |-> kind, status |-> status]
    <3>1. ledger \in Seq(Action) /\ ledger' = Append(ledger, e)
      BY <2>1, <2>6 DEF AppendAction, LedgerInv
    <3> HIDE DEF e
    <3>2. i \in 1..Len(ledger') /\ ledger'[i] = ledger[i]
      BY <2>2, <3>1
    <3> QED
      BY <2>4, <3>2
  <2>7. ASSUME NEW x, NEW status \in {"approved", "rejected", "executed", "failed"},
               Allows(x, status), ledger' = UpdateAction(x, status)
        PROVE  Good(i)
    <3>1. status \in Status
      BY DEF Status
    <3>2. /\ Len(ledger') = Len(ledger) /\ ledger'[i].id = ledger[i].id
          /\ ledger'[i].status = IF ledger[i].id = x THEN status ELSE ledger[i].status
      <4>1. /\ Len(ledger') = Len(ledger)
            /\ \A j \in 1..Len(ledger) :
                 /\ ledger'[j].id = ledger[j].id
                 /\ ledger'[j].status = IF ledger[j].id = x THEN status ELSE ledger[j].status
        BY <2>1, <2>7, <3>1, Rewritten
      <4> QED
        BY <2>2, <4>1
    <3>3. ledger[i].id = x => status \in Transitions[ledger[i].status]
      BY <2>1, <2>2, <2>7, TheRecord DEF Allows
    <3>4. Settles(ledger[i].status, ledger'[i].status)
      BY <2>3, <3>2, <3>3 DEF Transitions, Status, Settles
    <3> QED
      BY <2>2, <3>2, <3>4
  <2>8. CASE ledger' = Compacted
    <3>1. CASE \E j \in 1..Len(Compacted) : Compacted[j] = ledger[i]
      BY <2>4, <2>8, <3>1
    <3>2. CASE ~\E j \in 1..Len(Compacted) : Compacted[j] = ledger[i]
      <4>1. ledger[i].status # "pending_review"
        BY <2>1, <2>2, <3>2, CompactedKeeps
      <4>2. ASSUME NEW j \in 1..Len(ledger'), ledger'[j].id = ledger[i].id
            PROVE  FALSE
        <5>1. PICK k \in 1..Len(ledger) : ledger'[j] = ledger[k]
          BY <2>1, <2>8, CompactedKeeps
        <5>2. k = i
          BY <2>1, <2>2, <4>2, <5>1 DEF LedgerInv
        <5> QED
          BY <2>8, <3>2, <5>1, <5>2
      <4> QED
        BY <2>2, <4>1, <4>2
    <3> QED
      BY <3>1, <3>2
  <2> HIDE DEF Good
  <2> QED
    BY <2>1, <2>5, <2>6, <2>7, <2>8 DEF LedgerMove, Approve
<1>2. SweepingInv /\ [AutonomyNext]_autonomyVars =>
         [\A i \in DOMAIN ledger : Good(i)]_autonomyVars
  <2> HIDE DEF Good
  <2> QED
    BY <1>1
<1> QED
  BY <1>2, SweepingInvariant, PTL DEF AutonomySpec, LedgerMoves

-----------------------------------------------------------------------------
(* The streams.                                                             *)

Standings == {"running", "service"} \cup TerminalEvents
Phases == Live \cup {"unused", "settled", "over", "forgotten"}
Put == {fanned[i] : i \in DOMAIN fanned}
Busy(e) == emission[e].at # "none"

(* A row is on its way by one emitter, is applied once and then put once.   *)
EmissionInv ==
    /\ \A e \in Emitter : Busy(e) => emission[e].row \in EventRow
    /\ \A e, f \in Emitter :
          (Busy(e) /\ Busy(f) /\ emission[e].row = emission[f].row) => e = f
    /\ \A e \in Emitter : emission[e].at = "append" => emission[e].row \notin applied
    /\ \A e \in Emitter : emission[e].at = "fanout" =>
          emission[e].row \in applied /\ emission[e].row \notin Put
    /\ Put \subseteq applied /\ raised \subseteq applied

(* A terminal row that was applied left its mark.                           *)
StandingInv ==
    /\ standing \in held
    /\ \A row \in applied : events[row] \in TerminalEvents =>
          events[row] \in held /\ ~Running
    /\ \A i \in EventRow : events[i] = "service" =>
          {"service", "completed"} \subseteq held /\ ~Running
    /\ standing = "service" => "completed" \in held

(* A stream's queue, its counter and what was told.                         *)
StreamInv(s) ==
    /\ s \in queues <=> phase[s] \in Live \cup {"forgotten"}
    /\ phase[s] \in {"unused", "settled", "over"} => queue[s] = <<>>
    /\ phase[s] # "ending" => idle[s] < MaxIdle
    /\ phase[s] = "settled" => ~Running
    /\ Waits(s) \subseteq Put /\ tail[s].lost \subseteq Put
    /\ told[s] # "nothing" => told[s] \in held /\ ~Running

(* StreamIsTail of one stream.                                              *)
TailInv(s) ==
    phase[s] \in Live =>
        /\ tail[s].shown \o queue[s] = Kept(PutSince(s), Nat \ tail[s].lost)
        /\ \A i \in DOMAIN fanned :
              fanned[i] \in tail[s].lost => i > tail[s].since + Cap
        /\ applied \ tail[s].knew \subseteq
              Taken(s) \cup Waits(s) \cup tail[s].lost \cup raised \cup FanningOut

StreamsInv ==
    /\ StreamsTypeOK /\ EmissionInv /\ StandingInv
    /\ \A s \in Stream : StreamInv(s) /\ TailInv(s)

(* What emitters do before they reach the queues.                           *)
LEMMA TailStays ==
    ASSUME NEW s \in Stream, TailInv(s), UNCHANGED <<fanned, phase, queue, tail>>,
           applied' \subseteq applied \cup FanningOut',
           raised \cup FanningOut \subseteq raised' \cup FanningOut'
    PROVE  TailInv(s)'
<1>1. /\ PutSince(s)' = PutSince(s) /\ Taken(s)' = Taken(s) /\ Waits(s)' = Waits(s)
      /\ phase'[s] = phase[s] /\ queue'[s] = queue[s] /\ tail'[s] = tail[s]
      /\ fanned' = fanned
  BY DEF PutSince, Taken, Waits
<1>2. ASSUME phase[s] \in Live
      PROVE  (applied \ tail[s].knew \subseteq
                Taken(s) \cup Waits(s) \cup tail[s].lost \cup raised \cup FanningOut)'
  <2>1. applied \ tail[s].knew \subseteq
           Taken(s) \cup Waits(s) \cup tail[s].lost \cup raised \cup FanningOut
    BY <1>2 DEF TailInv
  <2> QED
    BY <1>1, <2>1
<1> QED
  BY <1>1, <1>2 DEF TailInv

(* An emission begins.                                                      *)
LEMMA EmitStep ==
    ASSUME StreamsInv, NEW e \in Emitter, NEW kind \in EventKind, EmitEvent(e, kind)
    PROVE  StreamsInv'
<1> DEFINE n == Len(events)
<1>1. /\ events \in Seq(EventKind) /\ n \in Nat /\ MaxEvents \in Nat
      /\ EventRow = 1..n
  BY StreamsAssumption DEF StreamsInv, StreamsTypeOK, EventRow
<1>2. /\ events' \in Seq(EventKind) /\ Len(events') = n + 1 /\ events'[n + 1] = kind
      /\ \A i \in 1..n : events'[i] = events[i]
      /\ n + 1 <= MaxEvents
  BY <1>1, AppendProperties DEF EmitEvent
<1>3. EventRow' = 1..(n + 1) /\ EventRow \subseteq EventRow'
  BY <1>1, <1>2 DEF EventRow
<1>4. /\ emission[e] = Quiescent
      /\ emission' = [emission EXCEPT ![e] = [at |-> "append", row |-> n + 1]]
      /\ standing' = StatusWritten(kind, standing) /\ held' = held \cup {standing'}
      /\ kind = "service" => standing = "completed"
      /\ UNCHANGED <<applied, fanned, raised, queues, phase, via, queue, idle, told, tail>>
  BY DEF EmitEvent, MayEmit, streamVars
<1>5. /\ emission \in [Emitter -> [at : {"none", "append", "fanout"}, row : 0..n]]
      /\ applied \subseteq 1..n /\ raised \subseteq 1..n /\ fanned \in Seq(1..n)
  BY <1>1 DEF StreamsInv, StreamsTypeOK
<1>6. /\ emission'[e] = [at |-> "append", row |-> n + 1]
      /\ \A f \in Emitter : f # e => emission'[f] = emission[f]
      /\ emission[e].at = "none" /\ emission'[e].at = "append" /\ emission'[e].row = n + 1
  BY <1>4, <1>5 DEF Quiescent
<1>7. Put' = Put /\ Put \subseteq 1..n
  BY <1>4, <1>5 DEF Put
<1>8. /\ standing' \in held' /\ held \subseteq held'
      /\ standing' \in Standings /\ (~Running => ~Running')
      /\ kind = "service" => {"service", "completed"} \subseteq held' /\ ~Running'
      /\ kind # "service" => standing' = standing
      /\ standing' = "service" => "completed" \in held'
  BY <1>4 DEF StatusWritten, Running, StreamsInv, StreamsTypeOK, StandingInv, Standings
<1>9. StreamsTypeOK'
  <2>1. emission' \in [Emitter -> [at : {"none", "append", "fanout"}, row : 0..(n + 1)]]
    BY <1>1, <1>4, <1>5
  <2>2. held' \subseteq Standings
    BY <1>4, <1>8 DEF StreamsInv, StreamsTypeOK, Standings
  <2>3. \A s \in Stream : queue[s] \in Seq(1..(n + 1))
    BY <1>1 DEF StreamsInv, StreamsTypeOK
  <2>4. ASSUME NEW s \in Stream
        PROVE  tail[s] \in [since : 0..Len(fanned), knew : SUBSET (1..(n + 1)),
                            shown : Seq(1..(n + 1)), lost : SUBSET (1..(n + 1))]
    <3>1. tail[s] \in [since : 0..Len(fanned), knew : SUBSET (1..n),
                       shown : Seq(1..n), lost : SUBSET (1..n)]
      BY <1>1 DEF StreamsInv, StreamsTypeOK
    <3>2. Seq(1..n) \subseteq Seq(1..(n + 1)) /\ 1..n \subseteq 1..(n + 1)
      BY <1>1
    <3> QED
      BY <3>1, <3>2
  <2>5. fanned \in Seq(1..(n + 1))
    BY <1>1, <1>5
  <2>6. /\ queue' = queue /\ tail' = tail /\ fanned' = fanned /\ applied' = applied
        /\ raised' = raised
    BY <1>4
  <2>7. queue' \in [Stream -> Seq(EventRow')]
    BY <1>3, <2>3, <2>6 DEF StreamsInv, StreamsTypeOK
  <2>8. tail' \in [Stream -> [since : 0..Len(fanned'), knew : SUBSET EventRow',
                              shown : Seq(EventRow'), lost : SUBSET EventRow']]
    <3> DEFINE T == [since : 0..Len(fanned), knew : SUBSET (1..(n + 1)),
                     shown : Seq(1..(n + 1)), lost : SUBSET (1..(n + 1))]
    <3>1. tail = [s \in Stream |-> tail[s]]
      BY DEF StreamsInv, StreamsTypeOK
    <3>2. \A s \in Stream : tail[s] \in T
      BY <2>4
    <3> HIDE DEF T
    <3>3. tail \in [Stream -> T]
      BY <3>1, <3>2
    <3> QED
      BY <1>3, <2>6, <3>3 DEF T
  <2> QED
    BY <1>1, <1>2, <1>3, <1>4, <1>5, <1>8, <2>1, <2>2, <2>5, <2>6, <2>7, <2>8
       DEF StreamsInv, StreamsTypeOK, Standings, Live
<1>10. EmissionInv'
  <2>1. \A f \in Emitter : Busy(f) => emission[f].row \in 1..n
    BY <1>1 DEF StreamsInv, EmissionInv
  <2>2. n + 1 \notin 1..n /\ n + 1 \in EventRow' /\ n + 1 \notin applied
    BY <1>1, <1>3, <1>5
  <2>3. \A f \in Emitter : Busy(f)' => emission'[f].row \in EventRow'
    BY <1>3, <1>6, <2>1, <2>2, <1>1 DEF Busy
  <2>4. ASSUME NEW f \in Emitter, NEW g \in Emitter, Busy(f)', Busy(g)',
               emission'[f].row = emission'[g].row
        PROVE  f = g
    <3>1. CASE f = e /\ g # e
      BY <1>6, <2>1, <2>2, <2>4, <3>1 DEF Busy
    <3>2. CASE g = e /\ f # e
      BY <1>6, <2>1, <2>2, <2>4, <3>2 DEF Busy
    <3>3. CASE f # e /\ g # e
      BY <1>6, <2>4, <3>3 DEF Busy, StreamsInv, EmissionInv
    <3> QED
      BY <3>1, <3>2, <3>3
  <2>5. \A f \in Emitter : emission'[f].at = "append" => emission'[f].row \notin applied'
    BY <1>4, <1>6, <2>2 DEF StreamsInv, EmissionInv
  <2>6. \A f \in Emitter : emission'[f].at = "fanout" =>
           emission'[f].row \in applied' /\ emission'[f].row \notin Put'
    BY <1>4, <1>6, <1>7 DEF StreamsInv, EmissionInv
  <2>7. Put' \subseteq applied' /\ raised' \subseteq applied'
    BY <1>4, <1>7 DEF StreamsInv, EmissionInv
  <2> QED
    BY <2>3, <2>4, <2>5, <2>6, <2>7 DEF EmissionInv
<1>11. StandingInv'
  <2>1. \A row \in applied : events'[row] = events[row]
    BY <1>2, <1>5
  <2>2. \A row \in applied : events[row] \in TerminalEvents =>
           events[row] \in held /\ ~Running
    BY DEF StreamsInv, StandingInv
  <2>3. \A i \in 1..n : events[i] = "service" =>
           {"service", "completed"} \subseteq held /\ ~Running
    BY <1>1 DEF StreamsInv, StandingInv
  <2>4. \A i \in 1..(n + 1) : events'[i] = "service" =>
           {"service", "completed"} \subseteq held' /\ ~Running'
    <3> SUFFICES ASSUME NEW i \in 1..(n + 1), events'[i] = "service"
                 PROVE  {"service", "completed"} \subseteq held' /\ ~Running'
      OBVIOUS
    <3>1. CASE i \in 1..n
      BY <1>2, <1>8, <2>3, <3>1
    <3>2. CASE i = n + 1
      BY <1>2, <1>8, <3>2
    <3> QED
      BY <1>1, <3>1, <3>2
  <2> QED
    BY <1>3, <1>4, <1>8, <2>1, <2>2, <2>4 DEF StandingInv
<1>12. ASSUME NEW s \in Stream
       PROVE  StreamInv(s)'
  <2>1. StreamInv(s)
    BY DEF StreamsInv
  <2> QED
    BY <1>4, <1>7, <1>8, <2>1 DEF StreamInv, Waits
<1>13. FanningOut' = FanningOut
  BY <1>6 DEF FanningOut
<1>14. ASSUME NEW s \in Stream
       PROVE  TailInv(s)'
  <2>1. TailInv(s)
    BY DEF StreamsInv
  <2> QED
    BY <1>4, <1>13, <2>1, TailStays
<1> QED
  BY <1>9, <1>10, <1>11, <1>12, <1>14 DEF StreamsInv

(* A row is applied.                                                        *)
LEMMA ApplyStep ==
    ASSUME StreamsInv, NEW e \in Emitter, ApplyEvent(e)
    PROVE  StreamsInv'
<1> DEFINE row == emission[e].row
<1>1. /\ emission[e].at = "append"
      /\ emission' = [emission EXCEPT ![e].at = "fanout"]
      /\ standing' = StatusApplied(events[row], standing)
      /\ held' = held \cup {standing'} /\ applied' = applied \cup {row}
      /\ UNCHANGED <<events, fanned, raised, queues, phase, via, queue, idle, told, tail>>
  BY DEF ApplyEvent, streamVars
<1>2. /\ emission \in [Emitter -> [at : {"none", "append", "fanout"},
                                   row : 0..Len(events)]]
      /\ events \in Seq(EventKind) /\ EventRow' = EventRow
  BY <1>1 DEF StreamsInv, StreamsTypeOK, EventRow
<1>3. Busy(e) /\ row \in EventRow /\ row \notin applied
  BY <1>1 DEF Busy, StreamsInv, EmissionInv
<1>4. /\ emission'[e].at = "fanout" /\ emission'[e].row = row
      /\ \A f \in Emitter : f # e => emission'[f] = emission[f]
      /\ \A f \in Emitter : emission'[f].row = emission[f].row /\ (Busy(f)' <=> Busy(f))
  BY <1>1, <1>2 DEF Busy
<1>5. events[row] \in EventKind
  BY <1>2, <1>3 DEF EventRow
<1> HIDE DEF row
<1>6. Put' = Put /\ Put \subseteq applied /\ row \notin Put
  BY <1>1, <1>3 DEF Put, StreamsInv, EmissionInv
<1>7. /\ standing' \in held' /\ held \subseteq held' /\ standing' \in Standings
      /\ (~Running => ~Running')
      /\ events[row] \in TerminalEvents => events[row] \in held' /\ ~Running'
      /\ standing' = "service" => "completed" \in held'
  <2>1. CASE events[row] = "work"
    BY <1>1, <2>1 DEF StatusApplied, Running, StreamsInv, StreamsTypeOK, StandingInv,
       Standings, TerminalEvents, Verdicts
  <2>2. CASE events[row] # "work"
    <3>1. standing' = events[row] /\ events[row] \in TerminalEvents \cup {"service"}
      BY <1>1, <1>5, <2>2 DEF StatusApplied, EventKind
    <3>2. events[row] = "service" => "completed" \in held
      BY <1>3 DEF StreamsInv, StandingInv
    <3> QED
      BY <1>1, <3>1, <3>2 DEF Running, Standings, TerminalEvents, Verdicts
  <2> QED
    BY <2>1, <2>2
<1>8. StreamsTypeOK'
  <2>1. emission' \in [Emitter -> [at : {"none", "append", "fanout"},
                                   row : 0..Len(events)]]
    BY <1>1, <1>2
  <2>2. applied' \subseteq EventRow /\ held' \subseteq Standings
    BY <1>1, <1>3, <1>7 DEF StreamsInv, StreamsTypeOK, Standings
  <2> QED
    BY <1>1, <1>2, <1>7, <2>1, <2>2 DEF StreamsInv, StreamsTypeOK, Standings, Live
<1>9. EmissionInv'
  <2>1. \A f \in Emitter : Busy(f)' => emission'[f].row \in EventRow'
    BY <1>2, <1>4 DEF StreamsInv, EmissionInv
  <2>2. \A f, g \in Emitter :
           (Busy(f)' /\ Busy(g)' /\ emission'[f].row = emission'[g].row) => f = g
    BY <1>4 DEF StreamsInv, EmissionInv
  <2>3. ASSUME NEW f \in Emitter, emission'[f].at = "append"
        PROVE  emission'[f].row \notin applied'
    <3>1. f # e /\ emission[f].at = "append" /\ Busy(f)
      BY <1>4, <2>3 DEF Busy
    <3>2. emission[f].row \notin applied /\ emission[f].row # row
      BY <1>3, <3>1 DEF StreamsInv, EmissionInv, row
    <3> QED
      BY <1>1, <1>4, <3>2
  <2>4. ASSUME NEW f \in Emitter, emission'[f].at = "fanout"
        PROVE  emission'[f].row \in applied' /\ emission'[f].row \notin Put'
    <3>1. CASE f = e
      BY <1>1, <1>4, <1>6, <3>1
    <3>2. CASE f # e
      BY <1>1, <1>4, <1>6, <2>4, <3>2 DEF StreamsInv, EmissionInv
    <3> QED
      BY <3>1, <3>2
  <2>5. Put' \subseteq applied' /\ raised' \subseteq applied'
    BY <1>1, <1>6 DEF StreamsInv, EmissionInv
  <2> QED
    BY <2>1, <2>2, <2>3, <2>4, <2>5 DEF EmissionInv
<1>10. StandingInv'
  BY <1>1, <1>2, <1>7 DEF StreamsInv, StandingInv
<1>11. ASSUME NEW s \in Stream
       PROVE  StreamInv(s)'
  <2>1. StreamInv(s)
    BY DEF StreamsInv
  <2> QED
    BY <1>1, <1>6, <1>7, <2>1 DEF StreamInv, Waits
<1>12. row \in FanningOut' /\ FanningOut \subseteq FanningOut'
  <2>1. row \in FanningOut'
    BY <1>4 DEF FanningOut
  <2>2. ASSUME NEW f \in Emitter, emission[f].at = "fanout"
        PROVE  emission[f].row \in FanningOut'
    <3>1. f # e
      BY <1>1, <2>2
    <3>2. emission'[f].at = "fanout" /\ emission'[f].row = emission[f].row
      BY <1>4, <2>2, <3>1
    <3> QED
      BY <3>2 DEF FanningOut
  <2> QED
    BY <2>1, <2>2 DEF FanningOut
<1>13. ASSUME NEW s \in Stream
       PROVE  TailInv(s)'
  <2>1. TailInv(s)
    BY DEF StreamsInv
  <2> QED
    BY <1>1, <1>12, <2>1, TailStays
<1> QED
  BY <1>8, <1>9, <1>10, <1>11, <1>13 DEF StreamsInv

(* An emission breaks.                                                      *)
LEMMA BreakStep ==
    ASSUME StreamsInv, NEW e \in Emitter, EmissionBreaks(e)
    PROVE  StreamsInv'
<1> DEFINE row == emission[e].row
<1>1. /\ emission[e].at # "none"
      /\ emission' = [emission EXCEPT ![e] = Quiescent]
      /\ raised' = raised \cup (applied \cap {row})
      /\ UNCHANGED <<events, standing, applied, fanned, held,
                     queues, phase, via, queue, idle, told, tail>>
  BY DEF EmissionBreaks, streamVars
<1>2. /\ emission \in [Emitter -> [at : {"none", "append", "fanout"},
                                   row : 0..Len(events)]]
      /\ EventRow' = EventRow /\ Put' = Put /\ (Running' <=> Running)
  BY <1>1 DEF StreamsInv, StreamsTypeOK, EventRow, Put, Running
<1>3. /\ emission'[e].at = "none" /\ ~Busy(e)'
      /\ \A f \in Emitter : f # e => emission'[f] = emission[f] /\ (Busy(f)' <=> Busy(f))
  BY <1>1, <1>2 DEF Busy, Quiescent
<1> HIDE DEF row
<1>4. StreamsTypeOK'
  <2>1. emission' \in [Emitter -> [at : {"none", "append", "fanout"},
                                   row : 0..Len(events)]]
    BY <1>1, <1>2 DEF Quiescent, StreamsInv, StreamsTypeOK
  <2>2. raised' \subseteq EventRow
    BY <1>1 DEF StreamsInv, StreamsTypeOK
  <2> QED
    BY <1>1, <1>2, <2>1, <2>2 DEF StreamsInv, StreamsTypeOK, Live
<1>5. EmissionInv'
  BY <1>1, <1>2, <1>3 DEF StreamsInv, EmissionInv, Busy
<1>6. StandingInv'
  BY <1>1, <1>2 DEF StreamsInv, StandingInv
<1>7. ASSUME NEW s \in Stream
      PROVE  StreamInv(s)'
  BY <1>1, <1>2 DEF StreamsInv, StreamInv, Waits
<1>8. FanningOut \subseteq FanningOut' \cup raised'
  <2> SUFFICES ASSUME NEW f \in Emitter, emission[f].at = "fanout"
               PROVE  emission[f].row \in FanningOut' \cup raised'
    BY DEF FanningOut
  <2>1. CASE f = e
    BY <1>1, <2>1 DEF StreamsInv, EmissionInv, row
  <2>2. CASE f # e
    BY <1>3, <2>2 DEF FanningOut
  <2> QED
    BY <2>1, <2>2
<1>9. ASSUME NEW s \in Stream
      PROVE  TailInv(s)'
  <2>1. TailInv(s)
    BY DEF StreamsInv
  <2>2. raised \subseteq raised'
    BY <1>1
  <2> QED
    BY <1>1, <1>8, <2>1, <2>2, TailStays
<1> QED
  BY <1>4, <1>5, <1>6, <1>7, <1>9 DEF StreamsInv

(* A row is put into the queues, and a full one refuses it.                 *)
LEMMA FanOutStep ==
    ASSUME StreamsInv, NEW e \in Emitter, FanOutEvent(e)
    PROVE  StreamsInv'
<1> DEFINE row == emission[e].row
           n == Len(fanned)
<1>1. /\ emission[e].at = "fanout"
      /\ emission' = [emission EXCEPT ![e] = Quiescent]
      /\ fanned' = Append(fanned, row)
      /\ queue' = [s \in Stream |-> IF s \in queues /\ ~Full(s)
                                    THEN Append(queue[s], row) ELSE queue[s]]
      /\ tail' = [s \in Stream |-> IF s \in queues /\ Full(s)
                                   THEN [tail[s] EXCEPT !.lost = @ \cup {row}]
                                   ELSE tail[s]]
      /\ UNCHANGED <<events, standing, applied, raised, held,
                     queues, phase, via, idle, told>>
  BY DEF FanOutEvent
<1>2. /\ emission \in [Emitter -> [at : {"none", "append", "fanout"},
                                   row : 0..Len(events)]]
      /\ EventRow' = EventRow /\ (Running' <=> Running)
      /\ fanned \in Seq(EventRow) /\ n \in Nat
      /\ Cap \in Nat \ {0} /\ EventRow \subseteq Nat
  BY <1>1, StreamsAssumption DEF StreamsInv, StreamsTypeOK, EventRow, Running
<1>3. Busy(e) /\ row \in EventRow /\ row \in applied /\ row \notin Put
  BY <1>1 DEF Busy, StreamsInv, EmissionInv
<1>4. /\ emission'[e].at = "none" /\ ~Busy(e)'
      /\ \A f \in Emitter : f # e => emission'[f] = emission[f] /\ (Busy(f)' <=> Busy(f))
  BY <1>1, <1>2 DEF Busy, Quiescent
<1>5. \A f \in Emitter : (f # e /\ Busy(f)) => emission[f].row # row
  BY <1>3 DEF StreamsInv, EmissionInv
<1> HIDE DEF row
<1>6. /\ fanned' \in Seq(EventRow) /\ Len(fanned') = n + 1
      /\ \A i \in 1..n : fanned'[i] = fanned[i]
      /\ fanned'[n + 1] = row
      /\ DOMAIN fanned = 1..n /\ DOMAIN fanned' = 1..(n + 1)
  BY <1>1, <1>2, <1>3, AppendProperties
<1>7. Put' = Put \cup {row}
  <2>1. /\ Put = {fanned[i] : i \in 1..n}
        /\ Put' = {fanned'[i] : i \in 1..(n + 1)}
    BY <1>6 DEF Put
  <2>2. 1..(n + 1) = 1..n \cup {n + 1}
    BY <1>2
  <2> QED
    BY <1>6, <2>1, <2>2
<1>8. ASSUME NEW s \in Stream
      PROVE  /\ queue[s] \in Seq(EventRow) /\ Len(queue[s]) <= Cap
             /\ queue'[s] = IF s \in queues /\ ~Full(s) THEN Append(queue[s], row)
                            ELSE queue[s]
             /\ tail'[s] = IF s \in queues /\ Full(s)
                           THEN [tail[s] EXCEPT !.lost = @ \cup {row}] ELSE tail[s]
             /\ tail[s] \in [since : 0..n, knew : SUBSET EventRow,
                             shown : Seq(EventRow), lost : SUBSET EventRow]
             /\ StreamInv(s) /\ TailInv(s)
  BY <1>1, <1>2 DEF StreamsInv, StreamsTypeOK
<1>9. ASSUME NEW s \in Stream
      PROVE  /\ queue'[s] \in Seq(EventRow) /\ Len(queue'[s]) <= Cap
             /\ tail'[s] \in [since : 0..(n + 1), knew : SUBSET EventRow,
                              shown : Seq(EventRow), lost : SUBSET EventRow]
             /\ tail'[s].since = tail[s].since /\ tail'[s].knew = tail[s].knew
             /\ tail'[s].shown = tail[s].shown
             /\ tail'[s].lost = IF s \in queues /\ Full(s) THEN tail[s].lost \cup {row}
                                ELSE tail[s].lost
             /\ Waits(s)' = IF s \in queues /\ ~Full(s) THEN Waits(s) \cup {row}
                            ELSE Waits(s)
  <2>a. queue[s] \in Seq(EventRow) /\ Len(queue[s]) <= Cap
    BY <1>8
  <2>b. /\ queue'[s] = IF s \in queues /\ ~Full(s) THEN Append(queue[s], row)
                       ELSE queue[s]
        /\ tail'[s] = IF s \in queues /\ Full(s)
                      THEN [tail[s] EXCEPT !.lost = @ \cup {row}] ELSE tail[s]
    BY <1>8
  <2>c. tail[s] \in [since : 0..n, knew : SUBSET EventRow,
                    shown : Seq(EventRow), lost : SUBSET EventRow]
    BY <1>8
  <2>1. tail[s].since \in 0..(n + 1) /\ Len(queue[s]) \in Nat
    BY <1>2, <2>a, <2>c
  <2>2. CASE s \in queues /\ Full(s)
    BY <1>3, <2>a, <2>b, <2>c, <2>1, <2>2 DEF Waits
  <2>3. CASE s \in queues /\ ~Full(s)
    <3>1. /\ queue'[s] = Append(queue[s], row) /\ tail'[s] = tail[s]
          /\ Len(queue[s]) < Cap
      BY <1>2, <2>a, <2>b, <2>1, <2>3 DEF Full
    <3>2. /\ Append(queue[s], row) \in Seq(EventRow)
          /\ Len(Append(queue[s], row)) = Len(queue[s]) + 1
          /\ \A i \in 1..Len(queue[s]) : Append(queue[s], row)[i] = queue[s][i]
          /\ Append(queue[s], row)[Len(queue[s]) + 1] = row
      BY <1>3, <2>a, AppendProperties
    <3>3. /\ DOMAIN queue[s] = 1..Len(queue[s])
          /\ DOMAIN queue'[s] = 1..(Len(queue[s]) + 1)
      BY <2>a, <3>1, <3>2
    <3>4. Waits(s)' = Waits(s) \cup {row}
      BY <2>1, <3>1, <3>2, <3>3 DEF Waits
    <3>5. Len(queue'[s]) <= Cap
      BY <1>2, <2>1, <3>1, <3>2
    <3>6. tail[s] \in [since : 0..(n + 1), knew : SUBSET EventRow,
                       shown : Seq(EventRow), lost : SUBSET EventRow]
      BY <2>c, <2>1
    <3> QED
      BY <2>3, <3>1, <3>2, <3>4, <3>5, <3>6
  <2>4. CASE s \notin queues
    BY <2>a, <2>b, <2>c, <2>1, <2>4 DEF Waits
  <2> QED
    BY <2>2, <2>3, <2>4
<1>10. StreamsTypeOK'
  <2>1. emission' \in [Emitter -> [at : {"none", "append", "fanout"},
                                   row : 0..Len(events)]]
    BY <1>1, <1>2 DEF Quiescent, StreamsInv, StreamsTypeOK
  <2>2. queue' \in [Stream -> Seq(EventRow)]
    BY <1>1, <1>9
  <2>3. tail' \in [Stream -> [since : 0..(n + 1), knew : SUBSET EventRow,
                              shown : Seq(EventRow), lost : SUBSET EventRow]]
    <3> DEFINE T == [since : 0..(n + 1), knew : SUBSET EventRow,
                     shown : Seq(EventRow), lost : SUBSET EventRow]
    <3>1. \A s \in Stream : tail'[s] \in T
      BY <1>9
    <3> HIDE DEF T
    <3>2. tail' = [s \in Stream |-> tail'[s]]
      BY <1>1
    <3>3. tail' \in [Stream -> T]
      BY <3>1, <3>2
    <3> QED
      BY <3>3 DEF T
  <2> QED
    BY <1>1, <1>2, <1>6, <1>9, <2>1, <2>2, <2>3 DEF StreamsInv, StreamsTypeOK, Live
<1>11. EmissionInv'
  <2>1. Put' \subseteq applied' /\ raised' \subseteq applied'
    BY <1>1, <1>3, <1>7 DEF StreamsInv, EmissionInv
  <2>2. ASSUME NEW f \in Emitter, emission'[f].at = "fanout"
        PROVE  emission'[f].row \in applied' /\ emission'[f].row \notin Put'
    <3>1. f # e
      BY <1>4, <2>2
    <3>2. emission'[f] = emission[f] /\ Busy(f)
      BY <1>4, <2>2, <3>1 DEF Busy
    <3> QED
      BY <1>1, <1>5, <1>7, <2>2, <3>1, <3>2 DEF StreamsInv, EmissionInv
  <2> QED
    BY <1>1, <1>2, <1>4, <2>1, <2>2 DEF StreamsInv, EmissionInv, Busy
<1>12. StandingInv'
  BY <1>1, <1>2 DEF StreamsInv, StandingInv
<1>13. ASSUME NEW s \in Stream
       PROVE  StreamInv(s)'
  <2>1. phase[s] \in {"unused", "settled", "over"} => queue'[s] = <<>>
    BY <1>8 DEF StreamInv, Live
  <2>2. Waits(s)' \subseteq Put' /\ tail'[s].lost \subseteq Put'
    <3>1. Waits(s) \subseteq Put /\ tail[s].lost \subseteq Put
      BY <1>8 DEF StreamInv
    <3>2. Waits(s)' \subseteq Waits(s) \cup {row}
      BY <1>9
    <3>3. tail'[s].lost \subseteq tail[s].lost \cup {row}
      BY <1>9
    <3> QED
      BY <1>7, <3>1, <3>2, <3>3
  <2> QED
    BY <1>1, <1>2, <1>8, <2>1, <2>2 DEF StreamInv
<1>14. FanningOut \subseteq FanningOut' \cup {row}
  <2> SUFFICES ASSUME NEW f \in Emitter, emission[f].at = "fanout"
               PROVE  emission[f].row \in FanningOut' \cup {row}
    BY DEF FanningOut
  <2>1. CASE f = e
    BY <2>1 DEF row
  <2>2. CASE f # e
    BY <1>4, <2>2 DEF FanningOut
  <2> QED
    BY <2>1, <2>2
<1>15. ASSUME NEW s \in Stream
       PROVE  TailInv(s)'
  <2> SUFFICES ASSUME phase[s] \in Live
               PROVE  /\ (tail[s].shown \o queue[s] =
                             Kept(PutSince(s), Nat \ tail[s].lost))'
                      /\ \A i \in DOMAIN fanned' :
                            fanned'[i] \in tail'[s].lost => i > tail'[s].since + Cap
                      /\ (applied \ tail[s].knew \subseteq
                             Taken(s) \cup Waits(s) \cup tail[s].lost
                                \cup raised \cup FanningOut)'
    BY <1>1 DEF TailInv
  <2> DEFINE k == tail[s].since
             sh == tail[s].shown
             lost == tail[s].lost
             P == PutSince(s)
             q == queue[s]
  <2>1. s \in queues /\ lost \subseteq Put
    BY <1>8 DEF StreamInv
  <2>2. /\ sh \o q = Kept(P, Nat \ lost)
        /\ \A i \in 1..n : fanned[i] \in lost => i > k + Cap
        /\ applied \ tail[s].knew \subseteq
              Taken(s) \cup Waits(s) \cup lost \cup raised \cup FanningOut
    BY <1>6, <1>8 DEF TailInv
  <2>3. /\ k \in 0..n /\ sh \in Seq(EventRow) /\ q \in Seq(EventRow)
        /\ lost \subseteq EventRow
    BY <1>8
  <2>4. /\ P \in Seq(EventRow) /\ Len(P) = n - k
        /\ \A i \in 1..(n - k) : P[i] = fanned[i + k]
        /\ SubSeq(Append(fanned, row), k + 1, n + 1) = Append(P, row)
    <3>1. fanned \in Seq(EventRow) /\ k \in 0..Len(fanned) /\ row \in EventRow
      BY <1>2, <1>3, <2>3
    <3>2. P = SubSeq(fanned, k + 1, Len(fanned))
      BY DEF PutSince
    <3> HIDE DEF k, P
    <3>3. /\ SubSeq(fanned, k + 1, Len(fanned)) \in Seq(EventRow)
          /\ Len(SubSeq(fanned, k + 1, Len(fanned))) = Len(fanned) - k
          /\ \A i \in 1..(Len(fanned) - k) :
                SubSeq(fanned, k + 1, Len(fanned))[i] = fanned[i + k]
          /\ SubSeq(Append(fanned, row), k + 1, Len(fanned) + 1) =
                Append(SubSeq(fanned, k + 1, Len(fanned)), row)
      BY ONLY <3>1, SubSeqAppend
    <3> QED
      BY ONLY <3>2, <3>3
  <2>5. PutSince(s)' = Append(P, row)
    BY <1>1, <1>6, <1>9, <2>4 DEF PutSince
  <2>6. row \notin lost /\ row \in Nat
    BY <1>2, <1>3, <2>1
  <2>7. \A i \in 1..Len(P) : P[i] # row
    <3> SUFFICES ASSUME NEW i \in 1..(n - k), P[i] = row
                 PROVE  FALSE
      BY <2>4
    <3>1. i + k \in 1..n
      BY <1>2, <2>3
    <3>2. fanned[i + k] = row
      BY <2>4
    <3> QED
      BY <1>3, <1>6, <3>1, <3>2 DEF Put
  <2> HIDE DEF k, sh, lost, P, q
  <2>8. Taken(s)' = Taken(s)
    BY <1>9 DEF Taken
  <2>9. CASE ~Full(s)
    <3>1. /\ queue'[s] = Append(q, row) /\ tail'[s].lost = lost
          /\ tail'[s].since = k /\ tail'[s].shown = sh
      BY <1>8, <1>9, <2>1, <2>9 DEF k, sh, lost, q
    <3>2. Kept(Append(P, row), Nat \ lost) = Append(Kept(P, Nat \ lost), row)
      <4>1. row \in Nat \ lost
        BY <2>6
      <4>2. P \in Seq(EventRow) /\ row \in EventRow
        BY <1>3, <2>4
      <4> QED
        BY ONLY <4>1, <4>2, KeptAppend
    <3>3. sh \o Append(q, row) = Append(sh \o q, row)
      <4>1. /\ Append(q, row) = q \o <<row>>
            /\ Append(sh \o q, row) = (sh \o q) \o <<row>>
        BY <1>3, <2>3, AppendIsConcat, ConcatProperties
      <4>2. sh \o (q \o <<row>>) = (sh \o q) \o <<row>>
        BY <1>3, <2>3, ConcatAssociative
      <4> QED
        BY <4>1, <4>2
    <3>4. tail'[s].shown \o queue'[s] = Kept(PutSince(s)', Nat \ tail'[s].lost)
      BY <2>2, <2>5, <3>1, <3>2, <3>3
    <3>5. \A i \in DOMAIN fanned' :
             fanned'[i] \in tail'[s].lost => i > tail'[s].since + Cap
      <4> SUFFICES ASSUME NEW i \in 1..(n + 1), fanned'[i] \in lost
                   PROVE  i > k + Cap
        BY <1>6, <3>1
      <4>1. i # n + 1
        BY <1>6, <2>6
      <4>2. i \in 1..n
        BY <1>2, <4>1
      <4> QED
        BY <1>6, <2>2, <4>2
    <3>6. Waits(s)' = Waits(s) \cup {row}
      BY <1>9, <2>1, <2>9
    <3>7. (applied \ tail[s].knew \subseteq
              Taken(s) \cup Waits(s) \cup tail[s].lost \cup raised \cup FanningOut)'
      BY <1>1, <1>9, <1>14, <2>2, <2>8, <3>1, <3>6
    <3> QED
      BY <3>4, <3>5, <3>7
  <2>10. CASE Full(s)
    <3>1. /\ queue'[s] = q /\ tail'[s].lost = lost \cup {row}
          /\ tail'[s].since = k /\ tail'[s].shown = sh /\ Len(q) >= Cap
      BY <1>8, <1>9, <2>1, <2>10 DEF k, sh, lost, q, Full
    <3>2. Kept(Append(P, row), Nat \ (lost \cup {row})) = Kept(P, Nat \ (lost \cup {row}))
      BY <1>3, <2>4, KeptAppend
    <3>3. Kept(P, Nat \ (lost \cup {row})) = Kept(P, Nat \ lost)
      <4>1. \A i \in 1..Len(P) :
               P[i] \in Nat \ (lost \cup {row}) <=> P[i] \in Nat \ lost
        BY <2>7
      <4> QED
        BY <2>4, <4>1, KeptSame
    <3>4. tail'[s].shown \o queue'[s] = Kept(PutSince(s)', Nat \ tail'[s].lost)
      BY <2>2, <2>5, <3>1, <3>2, <3>3
    <3>5. n + 1 > k + Cap
      <4>1. Len(sh \o q) = Len(sh) + Len(q) /\ Len(sh) \in Nat /\ Len(q) \in Nat
        BY <2>3, ConcatProperties
      <4>2. Len(Kept(P, Nat \ lost)) <= Len(P)
        BY <2>4, KeptType
      <4>3. Len(sh) + Len(q) <= n - k
        BY <2>2, <2>4, <4>1, <4>2
      <4> QED
        BY <1>2, <2>3, <3>1, <4>1, <4>3 DEF k
    <3>6. \A i \in DOMAIN fanned' :
             fanned'[i] \in tail'[s].lost => i > tail'[s].since + Cap
      <4> SUFFICES ASSUME NEW i \in 1..(n + 1), fanned'[i] \in lost \cup {row}
                   PROVE  i > k + Cap
        BY <1>6, <3>1
      <4>1. CASE i = n + 1
        BY <3>5, <4>1
      <4>2. CASE i \in 1..n
        <5>1. fanned'[i] = fanned[i] /\ fanned[i] # row
          BY <1>3, <1>6, <4>2 DEF Put
        <5> QED
          BY <2>2, <4>2, <5>1
      <4> QED
        BY <1>2, <4>1, <4>2
    <3>7. (applied \ tail[s].knew \subseteq
              Taken(s) \cup Waits(s) \cup tail[s].lost \cup raised \cup FanningOut)'
      <4>1. Waits(s)' = Waits(s)
        BY <1>9, <2>10
      <4> QED
        BY <1>1, <1>9, <1>14, <2>2, <2>8, <3>1, <4>1
    <3> QED
      BY <3>4, <3>6, <3>7
  <2> QED
    BY <2>9, <2>10
<1> QED
  BY <1>10, <1>11, <1>12, <1>13, <1>15 DEF StreamsInv

(* What a stream does to itself leaves the others as they are.              *)
LEMMA StreamStep ==
    ASSUME StreamsInv, NEW s \in Stream, UNCHANGED colonyVars,
           queues' \subseteq Stream,
           \A t \in Stream : t # s => (t \in queues' <=> t \in queues),
           phase' \in [Stream -> Phases],
           \A t \in Stream : t # s => phase'[t] = phase[t],
           via' \in [Stream -> {"none", "agui", "a2a"}],
           queue' \in [Stream -> Seq(EventRow)],
           \A t \in Stream : t # s => queue'[t] = queue[t],
           Len(queue'[s]) <= Cap,
           idle' \in [Stream -> 0..MaxIdle],
           \A t \in Stream : t # s => idle'[t] = idle[t],
           told' \in [Stream -> {"nothing", "service"} \cup TerminalEvents],
           \A t \in Stream : t # s => told'[t] = told[t],
           tail' \in [Stream -> [since : 0..Len(fanned), knew : SUBSET EventRow,
                                 shown : Seq(EventRow), lost : SUBSET EventRow]],
           \A t \in Stream : t # s => tail'[t] = tail[t],
           StreamInv(s)', TailInv(s)'
    PROVE  StreamsInv'
<1>1. UNCHANGED <<events, standing, emission, applied, fanned, raised, held>>
  BY DEF colonyVars
<1>2. EventRow' = EventRow /\ (Running' <=> Running) /\ Put' = Put
      /\ FanningOut' = FanningOut
  BY <1>1 DEF EventRow, Running, Put, FanningOut
<1>3. StreamsTypeOK'
  <2>1. \A t \in Stream : Len(queue'[t]) <= Cap
    BY DEF StreamsInv, StreamsTypeOK
  <2>2. /\ queue' \in [Stream -> Seq(EventRow')]
        /\ tail' \in [Stream -> [since : 0..Len(fanned'), knew : SUBSET EventRow',
                                 shown : Seq(EventRow'), lost : SUBSET EventRow']]
    BY <1>1, <1>2
  <2>3. /\ events \in Seq(EventKind) /\ Len(events) <= MaxEvents
        /\ standing \in {"running", "service"} \cup TerminalEvents
        /\ emission \in [Emitter -> [at : {"none", "append", "fanout"},
                                     row : 0..Len(events)]]
        /\ applied \subseteq EventRow /\ raised \subseteq EventRow
        /\ fanned \in Seq(EventRow)
        /\ held \subseteq {"running", "service"} \cup TerminalEvents
    BY DEF StreamsInv, StreamsTypeOK
  <2> QED
    BY <1>1, <1>2, <2>1, <2>2, <2>3 DEF StreamsTypeOK, Phases
<1>4. EmissionInv' /\ StandingInv'
  BY <1>1, <1>2 DEF StreamsInv, EmissionInv, StandingInv, Busy
<1>5. ASSUME NEW t \in Stream, t # s
      PROVE  StreamInv(t)' /\ TailInv(t)'
  <2>1. /\ StreamInv(t) /\ TailInv(t)
        /\ phase'[t] = phase[t] /\ queue'[t] = queue[t] /\ idle'[t] = idle[t]
        /\ told'[t] = told[t] /\ tail'[t] = tail[t] /\ (t \in queues' <=> t \in queues)
    BY <1>5 DEF StreamsInv
  <2>2. Waits(t)' = Waits(t) /\ Taken(t)' = Taken(t) /\ PutSince(t)' = PutSince(t)
    BY <1>1, <2>1 DEF Waits, Taken, PutSince
  <2>3. StreamInv(t)'
    BY <1>1, <1>2, <2>1, <2>2 DEF StreamInv
  <2>4. TailInv(t)'
    BY <1>1, <1>2, <2>1, <2>2 DEF TailInv
  <2> QED
    BY <2>3, <2>4
<1> QED
  BY <1>3, <1>4, <1>5 DEF StreamsInv

(* What the invariant says of the types of one stream.                      *)
LEMMA StreamTypes ==
    ASSUME StreamsInv
    PROVE  /\ queues \subseteq Stream /\ phase \in [Stream -> Phases]
           /\ via \in [Stream -> {"none", "agui", "a2a"}]
           /\ queue \in [Stream -> Seq(EventRow)]
           /\ \A s \in Stream : Len(queue[s]) <= Cap
           /\ idle \in [Stream -> 0..MaxIdle]
           /\ told \in [Stream -> {"nothing", "service"} \cup TerminalEvents]
           /\ tail \in [Stream -> [since : 0..Len(fanned), knew : SUBSET EventRow,
                                   shown : Seq(EventRow), lost : SUBSET EventRow]]
           /\ Cap \in Nat \ {0} /\ MaxIdle \in Nat \ {0}
           /\ applied \subseteq EventRow /\ fanned \in Seq(EventRow)
           /\ EventRow \subseteq Nat
  BY StreamsAssumption DEF StreamsInv, StreamsTypeOK, Phases, EventRow

(* A stream subscribes: nothing was put since.                              *)
LEMMA SubscribeStep ==
    ASSUME StreamsInv, NEW s \in Stream, phase[s] = "unused", SubscribeColony(s),
           phase' = [phase EXCEPT ![s] = "attached"],
           via' \in [Stream -> {"none", "agui", "a2a"}],
           UNCHANGED <<colonyVars, queue, idle, told>>
    PROVE  StreamsInv'
<1> DEFINE new == [since |-> Len(fanned), knew |-> applied, shown |-> <<>>, lost |-> {}]
<1>1. /\ UNCHANGED <<events, standing, emission, applied, fanned, raised, held>>
      /\ UNCHANGED <<queue, idle, told>> /\ UNCHANGED colonyVars
      /\ queues' = queues \cup {s}
  BY DEF colonyVars, SubscribeColony
<1>2. tail' = [tail EXCEPT ![s] = new]
  BY DEF SubscribeColony
<1>3. Len(fanned) \in Nat /\ <<>> \in Seq(EventRow)
  BY StreamTypes
<1>4. new \in [since : 0..Len(fanned), knew : SUBSET EventRow,
               shown : Seq(EventRow), lost : SUBSET EventRow]
  BY <1>3, StreamTypes
<1>5. tail' \in [Stream -> [since : 0..Len(fanned), knew : SUBSET EventRow,
                            shown : Seq(EventRow), lost : SUBSET EventRow]]
  <2> DEFINE T == [since : 0..Len(fanned), knew : SUBSET EventRow,
                   shown : Seq(EventRow), lost : SUBSET EventRow]
  <2>1. new \in T /\ tail \in [Stream -> T]
    BY <1>4, StreamTypes
  <2> HIDE DEF T, new
  <2>2. tail' \in [Stream -> T]
    BY <1>2, <2>1
  <2> QED
    BY <2>2 DEF T
<1>6. tail'[s] = new /\ phase'[s] = "attached" /\ s \in queues'
  BY <1>1, <1>2, StreamTypes
<1>7. StreamInv(s) /\ queue[s] = <<>>
  BY DEF StreamsInv, StreamInv
<1>8. StreamInv(s)'
  <2>1. Waits(s)' = {}
    BY <1>1, <1>7 DEF Waits
  <2>2. Running' <=> Running
    BY <1>1 DEF Running
  <2> QED
    BY <1>1, <1>6, <1>7, <2>1, <2>2 DEF StreamInv, Live
<1>9. TailInv(s)'
  <2>1. PutSince(s)' = <<>>
    <3>1. PutSince(s)' = SubSeq(fanned, Len(fanned) + 1, Len(fanned))
      BY <1>1, <1>6 DEF PutSince
    <3>2. Len(fanned) < Len(fanned) + 1
      BY <1>3
    <3> QED
      BY <3>1, <3>2, <1>3, SubSeqEmpty, StreamTypes
  <2>2. Kept(<<>>, Nat \ {}) = <<>> /\ <<>> \o <<>> = <<>>
    BY KeptEmpty
  <2> QED
    BY <1>1, <1>6, <1>7, <2>1, <2>2 DEF TailInv
<1>10. phase' \in [Stream -> Phases]
  BY StreamTypes DEF Phases, Live
<1> QED
  BY <1>1, <1>2, <1>5, <1>8, <1>9, <1>10, StreamStep, StreamTypes

LEMMA AguiStep ==
    ASSUME StreamsInv, NEW s \in Stream, HandleAguiRun(s)
    PROVE  StreamsInv'
<1>1. via' \in [Stream -> {"none", "agui", "a2a"}]
  BY StreamTypes DEF HandleAguiRun
<1> QED
  BY <1>1, SubscribeStep DEF HandleAguiRun

LEMMA AttachStep ==
    ASSUME StreamsInv, NEW s \in Stream, AttachTaskEvents(s)
    PROVE  StreamsInv'
<1>1. via' \in [Stream -> {"none", "agui", "a2a"}]
  BY StreamTypes DEF AttachTaskEvents
<1>2. CASE Running
  BY <1>1, <1>2, SubscribeStep DEF AttachTaskEvents
<1>3. CASE ~Running
  <2>1. /\ phase[s] = "unused" /\ phase' = [phase EXCEPT ![s] = "settled"]
        /\ UNCHANGED <<queues, tail, queue, idle, told>> /\ UNCHANGED colonyVars
        /\ UNCHANGED <<events, standing, emission, applied, fanned, raised, held>>
    BY <1>3 DEF AttachTaskEvents, colonyVars
  <2>2. phase' \in [Stream -> Phases] /\ phase'[s] = "settled"
    BY <2>1, StreamTypes DEF Phases
  <2>3. Running' <=> Running
    BY <2>1 DEF Running
  <2>4. StreamInv(s) /\ Waits(s)' = Waits(s) /\ Put' = Put
    BY <2>1 DEF StreamsInv, Waits, Put
  <2>5. StreamInv(s)'
    BY <1>3, <2>1, <2>2, <2>3, <2>4 DEF StreamInv, Live
  <2>6. TailInv(s)'
    BY <2>2 DEF TailInv, Live
  <2> QED
    BY <1>1, <2>1, <2>2, <2>5, <2>6, StreamStep, StreamTypes
<1> QED
  BY <1>2, <1>3

(* A stream without a subscription tells the status.                        *)
LEMMA ReportedHeld ==
    ASSUME StreamsInv, NEW s \in Stream, ~Running
    PROVE  /\ Reported(s) \in held
           /\ Reported(s) \in {"service"} \cup TerminalEvents
<1>1. /\ standing \in held /\ standing \in Standings /\ standing # "running"
      /\ standing = "service" => "completed" \in held
  BY DEF StreamsInv, StreamsTypeOK, StandingInv, Standings, Running
<1> QED
  BY <1>1 DEF Reported, Standings, TerminalEvents, Verdicts

LEMMA TerminalStep ==
    ASSUME StreamsInv, NEW s \in Stream, TerminalGenerator(s)
    PROVE  StreamsInv'
<1>1. /\ phase[s] = "settled" /\ phase' = [phase EXCEPT ![s] = "over"]
      /\ told' = [told EXCEPT ![s] = Reported(s)]
      /\ UNCHANGED colonyVars /\ UNCHANGED <<queues, via, queue, idle, tail>>
      /\ UNCHANGED <<events, standing, emission, applied, fanned, raised, held>>
  BY DEF TerminalGenerator, colonyVars
<1>2. StreamInv(s) /\ ~Running
  BY <1>1 DEF StreamsInv, StreamInv
<1>3. /\ Reported(s) \in held /\ Reported(s) \in {"service"} \cup TerminalEvents
  BY <1>2, ReportedHeld
<1>4. /\ told' \in [Stream -> {"nothing", "service"} \cup TerminalEvents]
      /\ told'[s] \in held
      /\ phase' \in [Stream -> Phases] /\ phase'[s] = "over"
  BY <1>1, <1>3, StreamTypes DEF Phases
<1>5. StreamInv(s)'
  <2>1. Waits(s)' = Waits(s) /\ Put' = Put /\ ~Running'
    BY <1>1, <1>2 DEF Waits, Put, Running
  <2> QED
    BY <1>1, <1>2, <1>4, <2>1 DEF StreamInv, Live
<1>6. TailInv(s)'
  BY <1>4 DEF TailInv, Live
<1> QED
  BY <1>1, <1>4, <1>5, <1>6, StreamStep, StreamTypes

(* A step that changes what a live stream awaits, and its idle count.       *)
LEMMA LiveStep ==
    ASSUME StreamsInv, NEW s \in Stream, phase[s] \in Live,
           NEW p \in Live, phase' = [phase EXCEPT ![s] = p],
           NEW i \in 0..MaxIdle, idle' = [idle EXCEPT ![s] = i],
           p # "ending" => i < MaxIdle,
           NEW v \in {"nothing", "service"} \cup TerminalEvents,
           told' = [told EXCEPT ![s] = v], v # "nothing" => v \in held /\ ~Running,
           UNCHANGED <<colonyVars, queues, via, queue, tail>>
    PROVE  StreamsInv'
<1>1. /\ UNCHANGED colonyVars /\ UNCHANGED <<queues, via, queue, tail>>
      /\ UNCHANGED <<events, standing, emission, applied, fanned, raised, held>>
  BY DEF colonyVars
<1>2. /\ told' \in [Stream -> {"nothing", "service"} \cup TerminalEvents]
      /\ phase' \in [Stream -> Phases] /\ idle' \in [Stream -> 0..MaxIdle]
      /\ told'[s] = v /\ phase'[s] = p /\ idle'[s] = i
  BY StreamTypes DEF Phases
<1>3. /\ Waits(s)' = Waits(s) /\ Put' = Put /\ (Running' <=> Running)
      /\ Taken(s)' = Taken(s) /\ PutSince(s)' = PutSince(s) /\ FanningOut' = FanningOut
  BY <1>1 DEF Waits, Put, Running, Taken, PutSince, FanningOut
<1>4. StreamInv(s) /\ TailInv(s)
  BY DEF StreamsInv
<1>5. StreamInv(s)'
  BY <1>1, <1>2, <1>3, <1>4 DEF StreamInv, Live
<1>6. TailInv(s)'
  BY <1>1, <1>2, <1>3, <1>4 DEF TailInv
<1>7. \A t \in Stream : t # s =>
         phase'[t] = phase[t] /\ idle'[t] = idle[t] /\ told'[t] = told[t]
  BY <1>2
<1> QED
  BY <1>1, <1>2, <1>5, <1>6, <1>7, StreamStep, StreamTypes

LEMMA BeginStep ==
    ASSUME StreamsInv, NEW s \in Stream, Begin(s)
    PROVE  StreamsInv'
<1>1. /\ phase[s] = "attached" /\ phase' = [phase EXCEPT ![s] = "sending"]
      /\ idle' = [idle EXCEPT ![s] = idle[s]] /\ told' = [told EXCEPT ![s] = told[s]]
      /\ UNCHANGED <<colonyVars, queues, via, queue, tail>>
  BY StreamTypes DEF Begin
<1>2. /\ idle[s] \in 0..MaxIdle /\ idle[s] < MaxIdle
      /\ told[s] \in {"nothing", "service"} \cup TerminalEvents
      /\ told[s] # "nothing" => told[s] \in held /\ ~Running
  BY <1>1, StreamTypes DEF StreamsInv, StreamInv
<1> QED
  BY <1>1, <1>2, LiveStep DEF Live

LEMMA WaitStep ==
    ASSUME StreamsInv, NEW s \in Stream, phase[s] = "sending",
           phase' = [phase EXCEPT ![s] = "waiting"],
           UNCHANGED <<colonyVars, queues, via, queue, idle, told, tail>>
    PROVE  StreamsInv'
<1>1. /\ idle' = [idle EXCEPT ![s] = idle[s]] /\ told' = [told EXCEPT ![s] = told[s]]
      /\ UNCHANGED <<colonyVars, queues, via, queue, tail>>
  BY StreamTypes
<1>2. /\ idle[s] \in 0..MaxIdle /\ idle[s] < MaxIdle
      /\ told[s] \in {"nothing", "service"} \cup TerminalEvents
      /\ told[s] # "nothing" => told[s] \in held /\ ~Running
  BY StreamTypes DEF StreamsInv, StreamInv
<1> QED
  BY <1>1, <1>2, LiveStep DEF Live

LEMMA TimeoutStep ==
    ASSUME StreamsInv, NEW s \in Stream, Timeout(s)
    PROVE  StreamsInv'
<1> DEFINE i == idle[s] + 1
<1>1. /\ phase[s] = "waiting" /\ idle' = [idle EXCEPT ![s] = i] /\ idle'[s] = i
      /\ UNCHANGED <<colonyVars, queues, via, queue, tail>>
  BY StreamTypes DEF Timeout
<1>2. idle[s] \in 0..MaxIdle /\ idle[s] < MaxIdle /\ MaxIdle \in Nat
  BY <1>1, StreamTypes DEF StreamsInv, StreamInv
<1>3. i \in 0..MaxIdle
  BY <1>2
<1> HIDE DEF i
<1>4. CASE ~Running
  <2>1. told' = [told EXCEPT ![s] = Reported(s)] /\ phase' = [phase EXCEPT ![s] = "ending"]
    BY <1>4 DEF Timeout
  <2> QED
    BY <1>1, <1>3, <1>4, <2>1, ReportedHeld, LiveStep DEF Live
<1>5. CASE Running
  <2> DEFINE p == IF i >= MaxIdle THEN "ending" ELSE "sending"
  <2>1. phase' = [phase EXCEPT ![s] = p] /\ told' = [told EXCEPT ![s] = told[s]]
    BY <1>1, <1>5, StreamTypes DEF Timeout
  <2>2. p \in Live /\ (p # "ending" => i < MaxIdle)
    BY <1>2, <1>3 DEF Live
  <2>3. /\ told[s] \in {"nothing", "service"} \cup TerminalEvents
        /\ told[s] # "nothing" => told[s] \in held /\ ~Running
    BY StreamTypes DEF StreamsInv, StreamInv
  <2> HIDE DEF p
  <2> QED
    BY <1>1, <1>3, <2>1, <2>2, <2>3, LiveStep DEF Live
<1> QED
  BY <1>4, <1>5

(* A stream takes the first row of its queue.                               *)
LEMMA ReceiveStep ==
    ASSUME StreamsInv, NEW s \in Stream, phase[s] \in {"sending", "waiting"}, Receive(s)
    PROVE  StreamsInv'
<1> DEFINE q == queue[s]
           sh == tail[s].shown
           row == Head(q)
           terminal == events[row] \in TerminalEvents
           v == IF terminal THEN events[row] ELSE told[s]
           p == IF terminal THEN "ending" ELSE "sending"
           rest == Tail(q)
<1>1. /\ q # <<>> /\ queue' = [queue EXCEPT ![s] = rest]
      /\ tail' = [tail EXCEPT ![s].shown = Append(sh, row)]
      /\ idle' = [idle EXCEPT ![s] = 0]
      /\ told' = [told EXCEPT ![s] = v] /\ phase' = [phase EXCEPT ![s] = p]
      /\ UNCHANGED colonyVars /\ UNCHANGED <<queues, via>>
      /\ UNCHANGED <<events, standing, emission, applied, fanned, raised, held>>
  BY StreamTypes DEF Receive, colonyVars
<1>2. /\ q \in Seq(EventRow) /\ Len(q) <= Cap /\ sh \in Seq(EventRow)
      /\ tail[s] \in [since : 0..Len(fanned), knew : SUBSET EventRow,
                      shown : Seq(EventRow), lost : SUBSET EventRow]
  BY StreamTypes
<1>3. /\ row \in EventRow /\ rest \in Seq(EventRow) /\ Len(rest) = Len(q) - 1
      /\ Len(q) \in Nat \ {0}
      /\ \A i \in 1..Len(rest) : rest[i] = q[i + 1]
      /\ q[1] = row
  BY <1>1, <1>2, HeadTailProperties
<1>4. Append(sh, row) \o rest = sh \o q
  BY <1>1, <1>2, HeadMoves
<1>5. /\ Append(sh, row) \in Seq(EventRow) /\ Len(Append(sh, row)) = Len(sh) + 1
      /\ Len(sh) \in Nat
      /\ \A i \in 1..Len(sh) : Append(sh, row)[i] = sh[i]
      /\ Append(sh, row)[Len(sh) + 1] = row
  BY <1>2, <1>3, AppendProperties
<1>6. DOMAIN q = 1..Len(q) /\ DOMAIN sh = 1..Len(sh) /\ DOMAIN rest = 1..Len(rest)
      /\ DOMAIN Append(sh, row) = 1..(Len(sh) + 1)
  BY <1>2, <1>3, <1>5
<1>7. /\ queue'[s] = rest /\ phase'[s] = p /\ told'[s] = v /\ idle'[s] = 0
      /\ tail'[s] = [tail[s] EXCEPT !.shown = Append(sh, row)]
  BY <1>1, StreamTypes
<1>8. /\ tail'[s] \in [since : 0..Len(fanned), knew : SUBSET EventRow,
                       shown : Seq(EventRow), lost : SUBSET EventRow]
      /\ tail'[s].since = tail[s].since /\ tail'[s].knew = tail[s].knew
      /\ tail'[s].lost = tail[s].lost /\ tail'[s].shown = Append(sh, row)
  BY <1>2, <1>5, <1>7
<1>9. StreamInv(s) /\ TailInv(s) /\ phase[s] \in Live
  BY DEF StreamsInv, Live
<1>10. row \in Waits(s) /\ row \in applied
  <2>1. row \in Waits(s)
    BY <1>3, <1>6 DEF Waits
  <2> HIDE DEF row
  <2> QED
    BY <2>1, <1>9 DEF StreamInv, StreamsInv, EmissionInv
<1>11. /\ v \in {"nothing", "service"} \cup TerminalEvents
       /\ v # "nothing" => v \in held /\ ~Running
       /\ p \in Live
  <2>1. told[s] \in {"nothing", "service"} \cup TerminalEvents
    BY StreamTypes
  <2>2. told[s] # "nothing" => told[s] \in held /\ ~Running
    BY <1>9 DEF StreamInv
  <2>3. terminal => events[row] \in held /\ ~Running
    BY <1>10 DEF StreamsInv, StandingInv
  <2> QED
    BY <2>1, <2>2, <2>3 DEF Live
<1> HIDE DEF q, sh, row, terminal, v, p, rest
<1>12. /\ Waits(s)' \subseteq Waits(s)
       /\ Taken(s) \cup Waits(s) \subseteq Taken(s)' \cup Waits(s)'
  <2>1. Waits(s) = {q[i] : i \in 1..Len(q)} /\ Waits(s)' = {rest[i] : i \in 1..Len(rest)}
    BY <1>6, <1>7 DEF Waits, q
  <2>2. /\ Taken(s) = {sh[i] : i \in 1..Len(sh)}
        /\ Taken(s)' = {Append(sh, row)[i] : i \in 1..(Len(sh) + 1)}
    BY <1>6, <1>8 DEF Taken, sh
  <2>3. \A i \in 1..Len(rest) : i + 1 \in 1..Len(q)
    BY <1>3
  <2>4. Waits(s)' \subseteq Waits(s)
    BY <1>3, <2>1, <2>3
  <2>5. row \in Taken(s)'
    BY <1>5, <2>2
  <2>6. Taken(s) \subseteq Taken(s)'
    <3> SUFFICES ASSUME NEW i \in 1..Len(sh) PROVE sh[i] \in Taken(s)'
      BY <2>2
    <3>1. i \in 1..(Len(sh) + 1) /\ Append(sh, row)[i] = sh[i]
      BY <1>5
    <3> QED
      BY <2>2, <3>1
  <2>7. Waits(s) \subseteq Taken(s)' \cup Waits(s)'
    <3> SUFFICES ASSUME NEW i \in 1..Len(q) PROVE q[i] \in Taken(s)' \cup Waits(s)'
      BY <2>1
    <3>1. CASE i = 1
      BY <1>3, <2>5, <3>1
    <3>2. CASE i # 1
      <4>1. i - 1 \in 1..Len(rest) /\ (i - 1) + 1 = i
        BY <1>3, <3>2
      <4>2. rest[i - 1] = q[i]
        BY <1>3, <4>1
      <4> QED
        BY <2>1, <4>1, <4>2
    <3> QED
      BY <3>1, <3>2
  <2> QED
    BY <2>4, <2>6, <2>7
<1>13. Put' = Put /\ (Running' <=> Running) /\ FanningOut' = FanningOut
       /\ PutSince(s)' = PutSince(s)
  BY <1>1, <1>8 DEF Put, Running, FanningOut, PutSince
<1>14. StreamInv(s)'
  <2>1. 0 < MaxIdle
    BY StreamTypes
  <2> QED
    BY <1>1, <1>7, <1>8, <1>9, <1>11, <1>12, <1>13, <2>1 DEF StreamInv, Live
<1>15. TailInv(s)'
  <2>1. tail'[s].shown \o queue'[s] = tail[s].shown \o queue[s]
    BY <1>4, <1>7, <1>8 DEF q, sh
  <2>2. /\ tail[s].shown \o queue[s] = Kept(PutSince(s), Nat \ tail[s].lost)
        /\ \A i \in DOMAIN fanned :
              fanned[i] \in tail[s].lost => i > tail[s].since + Cap
        /\ applied \ tail[s].knew \subseteq
              Taken(s) \cup Waits(s) \cup tail[s].lost \cup raised \cup FanningOut
    BY <1>9 DEF TailInv
  <2>3. (tail[s].shown \o queue[s] = Kept(PutSince(s), Nat \ tail[s].lost))'
    BY <1>8, <1>13, <2>1, <2>2
  <2>4. (applied \ tail[s].knew \subseteq
            Taken(s) \cup Waits(s) \cup tail[s].lost \cup raised \cup FanningOut)'
    BY <1>1, <1>8, <1>12, <1>13, <2>2
  <2> QED
    BY <1>1, <1>8, <2>2, <2>3, <2>4 DEF TailInv
<1>16. /\ queue' \in [Stream -> Seq(EventRow)] /\ Len(queue'[s]) <= Cap
       /\ idle' \in [Stream -> 0..MaxIdle] /\ phase' \in [Stream -> Phases]
       /\ told' \in [Stream -> {"nothing", "service"} \cup TerminalEvents]
  <2>1. Len(rest) <= Cap /\ 0 \in 0..MaxIdle /\ p \in Phases
    BY <1>2, <1>3, <1>11, StreamTypes DEF Phases
  <2> QED
    BY <1>1, <1>3, <1>7, <1>11, <2>1, StreamTypes
<1>17. tail' \in [Stream -> [since : 0..Len(fanned), knew : SUBSET EventRow,
                             shown : Seq(EventRow), lost : SUBSET EventRow]]
  <2> DEFINE T == [since : 0..Len(fanned), knew : SUBSET EventRow,
                   shown : Seq(EventRow), lost : SUBSET EventRow]
  <2>1. tail \in [Stream -> T] /\ tail'[s] \in T
    BY <1>8, StreamTypes
  <2> HIDE DEF T
  <2>2. tail' = [tail EXCEPT ![s] = tail'[s]]
    BY <1>1, <1>7, <2>1 DEF sh
  <2>3. tail' \in [Stream -> T]
    BY <2>1, <2>2
  <2> QED
    BY <2>3 DEF T
<1>18. \A t \in Stream : t # s =>
          /\ phase'[t] = phase[t] /\ queue'[t] = queue[t] /\ idle'[t] = idle[t]
          /\ told'[t] = told[t] /\ tail'[t] = tail[t]
  BY <1>1, StreamTypes
<1> QED
  BY <1>1, <1>14, <1>15, <1>16, <1>17, <1>18, StreamStep, StreamTypes

(* A stream goes, and its queue.                                            *)
LEMMA EndStep ==
    ASSUME StreamsInv, NEW s \in Stream, StreamEnds(s)
    PROVE  StreamsInv'
<1>1. /\ phase[s] \in Live /\ phase' = [phase EXCEPT ![s] = "over"]
      /\ queues' = queues \ {s} /\ queue' = [queue EXCEPT ![s] = <<>>]
      /\ idle' = [idle EXCEPT ![s] = 0] /\ tail' = [tail EXCEPT ![s] = NewTail]
      /\ UNCHANGED colonyVars /\ UNCHANGED <<via, told>>
      /\ UNCHANGED <<events, standing, emission, applied, fanned, raised, held>>
  BY DEF StreamEnds, UnsubscribeColony, colonyVars, Live
<1>2. Len(fanned) \in Nat /\ MaxIdle \in Nat \ {0} /\ Cap \in Nat
  BY StreamTypes
<1>3. NewTail \in [since : 0..Len(fanned), knew : SUBSET EventRow,
                   shown : Seq(EventRow), lost : SUBSET EventRow]
  BY <1>2 DEF NewTail
<1>4. tail' \in [Stream -> [since : 0..Len(fanned), knew : SUBSET EventRow,
                            shown : Seq(EventRow), lost : SUBSET EventRow]]
  <2> DEFINE T == [since : 0..Len(fanned), knew : SUBSET EventRow,
                   shown : Seq(EventRow), lost : SUBSET EventRow]
  <2>1. tail \in [Stream -> T] /\ NewTail \in T
    BY <1>3, StreamTypes
  <2> HIDE DEF T
  <2>2. tail' \in [Stream -> T]
    BY <1>1, <2>1
  <2> QED
    BY <2>2 DEF T
<1>5. /\ phase' \in [Stream -> Phases] /\ queue' \in [Stream -> Seq(EventRow)]
      /\ idle' \in [Stream -> 0..MaxIdle] /\ queues' \subseteq Stream
      /\ phase'[s] = "over" /\ queue'[s] = <<>> /\ idle'[s] = 0 /\ tail'[s] = NewTail
      /\ s \notin queues'
  <2>1. <<>> \in Seq(EventRow) /\ 0 \in 0..MaxIdle /\ "over" \in Phases
    BY <1>2 DEF Phases
  <2> QED
    BY <1>1, <2>1, StreamTypes
<1>6. StreamInv(s)'
  <2>1. StreamInv(s) /\ (Running' <=> Running)
    BY <1>1 DEF StreamsInv, Running
  <2>2. Waits(s)' = {} /\ tail'[s].lost = {}
    BY <1>5 DEF Waits, NewTail
  <2> QED
    BY <1>1, <1>2, <1>5, <2>1, <2>2 DEF StreamInv, Live
<1>7. TailInv(s)'
  BY <1>5 DEF TailInv, Live
<1>8. Len(queue'[s]) <= Cap
  BY <1>2, <1>5
<1>9. \A t \in Stream : t # s =>
         /\ phase'[t] = phase[t] /\ queue'[t] = queue[t] /\ idle'[t] = idle[t]
         /\ tail'[t] = tail[t] /\ (t \in queues' <=> t \in queues)
  BY <1>1, StreamTypes
<1> QED
  BY <1>1, <1>4, <1>5, <1>6, <1>7, <1>8, <1>9, StreamStep, StreamTypes

(* A client leaves before the generator began.                              *)
LEMMA LeaveStep ==
    ASSUME StreamsInv, NEW s \in Stream, LeavesEarly(s)
    PROVE  StreamsInv'
<1>1. /\ phase[s] \in {"attached", "settled"}
      /\ phase' = [phase EXCEPT ![s] = IF @ = "attached" THEN "forgotten" ELSE "over"]
      /\ UNCHANGED colonyVars /\ UNCHANGED <<queues, via, queue, idle, told, tail>>
      /\ UNCHANGED <<events, standing, emission, applied, fanned, raised, held>>
  BY DEF LeavesEarly, colonyVars
<1>2. /\ phase' \in [Stream -> Phases]
      /\ phase'[s] = IF phase[s] = "attached" THEN "forgotten" ELSE "over"
  BY <1>1, StreamTypes DEF Phases
<1>3. StreamInv(s)'
  <2>1. StreamInv(s) /\ (Running' <=> Running) /\ Waits(s)' = Waits(s) /\ Put' = Put
    BY <1>1 DEF StreamsInv, Running, Waits, Put
  <2> QED
    BY <1>1, <1>2, <2>1 DEF StreamInv, Live
<1>4. TailInv(s)'
  BY <1>2 DEF TailInv, Live
<1>5. \A t \in Stream : t # s => phase'[t] = phase[t]
  BY <1>1, StreamTypes
<1> QED
  BY <1>1, <1>2, <1>3, <1>4, <1>5, StreamStep, StreamTypes

LEMMA StreamsInitially ==
    StreamsInit => StreamsInv
<1> SUFFICES ASSUME StreamsInit PROVE StreamsInv
  OBVIOUS
<1>1. /\ events = <<>> /\ standing = "running" /\ queues = {}
      /\ emission = [e \in Emitter |-> Quiescent]
      /\ phase = [s \in Stream |-> "unused"] /\ via = [s \in Stream |-> "none"]
      /\ queue = [s \in Stream |-> <<>>] /\ idle = [s \in Stream |-> 0]
      /\ told = [s \in Stream |-> "nothing"] /\ tail = [s \in Stream |-> NewTail]
      /\ applied = {} /\ fanned = <<>> /\ raised = {} /\ held = {"running"}
  BY DEF StreamsInit
<1>2. /\ Len(events) = 0 /\ Len(fanned) = 0 /\ EventRow = {}
      /\ events \in Seq(EventKind) /\ fanned \in Seq(EventRow)
      /\ Cap \in Nat \ {0} /\ MaxIdle \in Nat \ {0} /\ MaxEvents \in Nat
  BY <1>1, StreamsAssumption DEF EventRow
<1>3. NewTail \in [since : 0..Len(fanned), knew : SUBSET EventRow,
                   shown : Seq(EventRow), lost : SUBSET EventRow]
  BY <1>2 DEF NewTail
<1>4. StreamsTypeOK
  <2>1. tail \in [Stream -> [since : 0..Len(fanned), knew : SUBSET EventRow,
                             shown : Seq(EventRow), lost : SUBSET EventRow]]
    <3> DEFINE T == [since : 0..Len(fanned), knew : SUBSET EventRow,
                     shown : Seq(EventRow), lost : SUBSET EventRow]
    <3>1. NewTail \in T
      BY <1>3
    <3> HIDE DEF T
    <3>2. tail \in [Stream -> T]
      BY <1>1, <3>1
    <3> QED
      BY <3>2 DEF T
  <2>2. emission \in [Emitter -> [at : {"none", "append", "fanout"}, row : 0..Len(events)]]
    BY <1>1, <1>2 DEF Quiescent
  <2>3. queue \in [Stream -> Seq(EventRow)] /\ \A s \in Stream : Len(queue[s]) <= Cap
    BY <1>1, <1>2
  <2>4. idle \in [Stream -> 0..MaxIdle]
    BY <1>1, <1>2
  <2> QED
    BY <1>1, <1>2, <2>1, <2>2, <2>3, <2>4 DEF StreamsTypeOK
<1>5. EmissionInv
  BY <1>1 DEF EmissionInv, Busy, Quiescent, Put
<1>6. StandingInv
  BY <1>1, <1>2 DEF StandingInv
<1>7. ASSUME NEW s \in Stream
      PROVE  StreamInv(s) /\ TailInv(s)
  <2>1. /\ phase[s] = "unused" /\ queue[s] = <<>> /\ idle[s] = 0
        /\ told[s] = "nothing" /\ tail[s].lost = {} /\ s \notin queues
    BY <1>1 DEF NewTail
  <2>2. Waits(s) = {}
    BY <2>1 DEF Waits
  <2> QED
    BY <1>2, <2>1, <2>2 DEF StreamInv, TailInv, Live
<1> QED
  BY <1>4, <1>5, <1>6, <1>7 DEF StreamsInv

LEMMA StreamsStay ==
    StreamsInv /\ UNCHANGED streamsVars => StreamsInv'
<1> SUFFICES ASSUME StreamsInv, UNCHANGED streamsVars PROVE StreamsInv'
  OBVIOUS
<1>1. /\ UNCHANGED <<events, standing, emission, applied, fanned, raised, held>>
      /\ UNCHANGED <<queues, phase, via, queue, idle, told, tail>>
  BY DEF streamsVars, colonyVars, streamVars
<1>2. StreamsTypeOK'
  BY <1>1 DEF StreamsInv, StreamsTypeOK, EventRow
<1>3. EmissionInv' /\ StandingInv'
  BY <1>1 DEF StreamsInv, EmissionInv, StandingInv, Busy, EventRow, Put, Running
<1>4. ASSUME NEW s \in Stream
      PROVE  StreamInv(s)' /\ TailInv(s)'
  <2>1. StreamInv(s) /\ TailInv(s)
    BY DEF StreamsInv
  <2> QED
    <3>1. /\ Waits(s)' = Waits(s) /\ Taken(s)' = Taken(s) /\ PutSince(s)' = PutSince(s)
          /\ Put' = Put /\ FanningOut' = FanningOut /\ (Running' <=> Running)
      BY <1>1 DEF Waits, Taken, Put, Running, PutSince, FanningOut
    <3>2. StreamInv(s)'
      BY <1>1, <2>1, <3>1 DEF StreamInv
    <3>3. TailInv(s)'
      BY <1>1, <2>1, <3>1 DEF TailInv
    <3> QED
      BY <3>2, <3>3
<1> QED
  BY <1>2, <1>3, <1>4 DEF StreamsInv

LEMMA StreamsStep ==
    StreamsInv /\ [StreamsNext]_streamsVars => StreamsInv'
<1> SUFFICES ASSUME StreamsInv, [StreamsNext]_streamsVars PROVE StreamsInv'
  OBVIOUS
<1>1. CASE \E e \in Emitter, kind \in EventKind : EmitEvent(e, kind)
  BY <1>1, EmitStep
<1>2. CASE \E e \in Emitter : ApplyEvent(e) \/ FanOutEvent(e) \/ EmissionBreaks(e)
  BY <1>2, ApplyStep, FanOutStep, BreakStep
<1>3. ASSUME NEW s \in Stream,
             \/ HandleAguiRun(s) \/ AttachTaskEvents(s) \/ TerminalGenerator(s)
             \/ Begin(s) \/ FrameSent(s) \/ QueueGet(s) \/ Timeout(s)
             \/ StreamEnds(s) \/ LeavesEarly(s)
      PROVE  StreamsInv'
  <2>1. CASE FrameSent(s)
    BY <2>1, ReceiveStep, WaitStep DEF FrameSent
  <2>2. CASE QueueGet(s)
    BY <2>2, ReceiveStep DEF QueueGet
  <2> QED
    BY <1>3, <2>1, <2>2, AguiStep, AttachStep, TerminalStep, BeginStep, TimeoutStep,
       EndStep, LeaveStep
<1>4. CASE UNCHANGED streamsVars
  BY <1>4, StreamsStay
<1> QED
  BY <1>1, <1>2, <1>3, <1>4 DEF StreamsNext

(* The invariant of the streams.                                            *)
LEMMA StreamsInvariant ==
    StreamsSpec => []StreamsInv
  BY StreamsInitially, StreamsStep, PTL DEF StreamsSpec

(* For every number of emitters, streams and rows, whatever the queues'     *)
(* size: the variables keep their types (ws_handler.py, agui_endpoint.py).  *)
THEOREM StreamsTypeCorrect ==
    StreamsSpec => []StreamsTypeOK
<1>1. StreamsInv => StreamsTypeOK
  BY DEF StreamsInv
<1> QED
  BY <1>1, StreamsInvariant, PTL

(* A live stream is the colony's fan-out since it subscribed, in its order, *)
(* but for the rows its full queue refused (fan_out_event,                  *)
(* subscribe_colony, event_generator).                                      *)
THEOREM StreamsAreTails ==
    StreamsSpec => []StreamIsTail
<1>1. StreamsInv => StreamIsTail
  BY DEF StreamsInv, TailInv, StreamIsTail
<1> QED
  BY <1>1, StreamsInvariant, PTL

(* A client is never told a finish the colony did not have, nor one it      *)
(* could still come back from (event_generator, attach_task_events).        *)
THEOREM FinishIsTrue ==
    StreamsSpec => []ToldAsHeld
<1>1. StreamsInv => ToldAsHeld
  BY DEF StreamsInv, StreamInv, ToldAsHeld
<1> QED
  BY <1>1, StreamsInvariant, PTL

(* The queues that are still subscribed are those of the live streams, and  *)
(* of clients that left before their generator's first step.                *)
THEOREM QueuesAreReleased ==
    StreamsSpec => []QueuesReleased
<1>1. StreamsInv => QueuesReleased
  BY DEF StreamsInv, StreamInv, QueuesReleased
<1> QED
  BY <1>1, StreamsInvariant, PTL

-----------------------------------------------------------------------------
(* The composition: each part behaves as it does alone.                     *)

LEMMA OutboundInits ==
    OutboundInit => Init /\ ForagerInit /\ StreamsInit /\ AutonomyInit
  BY DEF OutboundInit

LEMMA OutboundSteps ==
    [OutboundNext]_outboundVars =>
        /\ [Next]_vars /\ [ForagerNext]_foragerVars
        /\ [StreamsNext]_streamsVars /\ [AutonomyNext]_autonomyVars
<1> SUFFICES ASSUME [OutboundNext]_outboundVars
             PROVE  /\ [Next]_vars /\ [ForagerNext]_foragerVars
                    /\ [StreamsNext]_streamsVars /\ [AutonomyNext]_autonomyVars
  OBVIOUS
<1>1. CASE UNCHANGED outboundVars
  BY <1>1 DEF outboundVars
<1>2. CASE OutboundNext
  BY <1>2 DEF OutboundNext
<1> QED
  BY <1>1, <1>2

(* What holds of the router, the forager, the streams or the sweeps alone   *)
(* holds of the process that runs them (surface/app.py).                    *)
THEOREM OutboundIsItsParts ==
    OutboundSpec => Spec /\ ForagerSpec /\ StreamsSpec /\ AutonomySpec
  BY OutboundInits, OutboundSteps, PTL
     DEF OutboundSpec, Spec, ForagerSpec, StreamsSpec, AutonomySpec

(* The variables of the four keep their types.                              *)
THEOREM OutboundTypes == OutboundSpec => []Types
<1>1. TypeOK /\ ForagerTypeOK /\ StreamsTypeOK /\ AutonomyTypeOK => Types
  BY DEF Types
<1> QED
  BY <1>1, OutboundIsItsParts, RouterTypeCorrect, ForagerTypeCorrect,
     StreamsTypeCorrect, AutonomyTypeCorrect, PTL
=============================================================================
