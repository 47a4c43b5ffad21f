------------------------------ MODULE LLMRouter ------------------------------
(***************************************************************************)
(* Model routing: surface/runtime.py, LLMRouter and _ProviderCooldown, with *)
(* the adapters that surface/app.py registers.                              *)
(*                                                                          *)
(* A request picks a model (route), skips its provider while that is cooled *)
(* down, and walks the fallback chain when the provider fails or blocks.    *)
(* Requests run concurrently on one event loop and await only the adapter's *)
(* complete, so a step is what a request does between two adapter calls.    *)
(* Looking a provider up has a side effect: an expired cooldown is deleted, *)
(* and the provider's failures with it.                                     *)
(***************************************************************************)
EXTENDS Subsequences, FiniteSets

CONSTANTS Request,     \* completions that can be in flight at a time
          Provider, Model, NoModel,
          ProviderOf,  \* the part of a model's address before "/"
          Local,       \* providers whose name starts with "llama-cpp"
          Chain,       \* the fallback chain
          Cheapest,    \* _find_cheapest, or NoModel
          Defaults,    \* what the cascade of defaults resolves castes to
          Table,       \* the entries of the routing table
          Threshold, Window, CooldownTime, MaxRetries,
          MaxAsks,     \* bound: requests made in a behaviour
          MaxTime      \* bound: time that passes in a behaviour

ASSUME ConstantsAssumption ==
    /\ NoModel \notin Model
    /\ ProviderOf \in [Model -> Provider]
    /\ Local \subseteq Provider
    /\ Chain \in Seq(Model)
    /\ Cheapest \in Model \cup {NoModel}
    /\ Defaults \subseteq Model /\ Table \subseteq Model
    /\ Threshold \in Nat \ {0} /\ Window \in Nat \ {0}
    /\ CooldownTime \in Nat \ {0}
    /\ MaxRetries \in Nat /\ MaxAsks \in Nat /\ MaxTime \in Nat

VARIABLES
    now,      \* time.monotonic()
    adapters, \* providers that have an adapter
    keyed,    \* the adapters' keys are "provider:endpoint", not "provider"
    health,   \* per provider: its failure times and the end of its cooldown
    req,      \* per request: where it is
    asks,
    errors    \* history: when calls of a provider raised, Window back

vars == <<now, adapters, keyed, health, req, asks, errors>>

(* A request awaits its model's adapter or a fallback's; or it returned     *)
(* something or was cancelled ("done"); or it raised.                       *)
Awaiting == {"primary", "fallback"}
Ended    == {"done", "raised"}

ReqState == [pc : Awaiting \cup Ended,
             model : Model \cup {NoModel},  \* the model it was routed to
             pos : 0..Len(Chain),           \* the fallback it awaits
             retries : 0..MaxRetries,
             blocked : BOOLEAN,             \* it holds a blocked answer
             tried : SUBSET Model]          \* models an adapter was called for

Healthy == [fails |-> <<>>, until |-> 0]
Done == [pc |-> "done", model |-> NoModel, pos |-> 0, retries |-> 0,
         blocked |-> FALSE, tried |-> {}]

Init ==
    /\ now = 1
    /\ adapters \in SUBSET Provider
    /\ keyed \in BOOLEAN
    /\ health = [p \in Provider |-> Healthy]
    /\ req = [r \in Request |-> Done]
    /\ asks = 0
    /\ errors = [p \in Provider |-> <<>>]

-----------------------------------------------------------------------------
(* _ProviderCooldown.                                                       *)

(* Mutated: failures are never pruned.                                      *)
RecentAll(times) == times

(* The times that are inside the sliding window at time n.                  *)
Within(n) == {t \in Nat : t + Window > n}

(* The failures that are inside the sliding window.                         *)
Recent(times) == Kept(times, Within(now))

(* Mutated: local providers are cooled down as well.                        *)
ExemptNone(p) == FALSE

Exempt(p) == p \in Local

RecordFailure(h, p) ==
    LET fails == Recent(Append(h[p].fails, now)) IN
    IF Exempt(p) THEN h
    ELSE [h EXCEPT ![p] = [fails |-> fails,
                           until |-> IF Len(fails) >= Threshold
                                     THEN now + CooldownTime ELSE @.until]]

Cooled(h, p) == now < h[p].until

(* What is_cooled_down leaves behind when it is asked about providers ps.   *)
Examine(h, ps) ==
    [p \in Provider |-> IF p \in ps /\ h[p].until # 0 /\ ~Cooled(h, p)
                        THEN Healthy ELSE h[p]]

-----------------------------------------------------------------------------
(* "prefix in self._adapters": the adapters of app.py have keys             *)
(* provider:endpoint, which no bare prefix equals; _resolve looks for both. *)
BareKey(p) == p \in adapters /\ ~keyed

(* route: budget gate, then routing table, then adapter and cooldown; table *)
(* is NoModel where the table has no entry.                                 *)
Selected(default, table, low) ==
    IF low THEN IF Cheapest = NoModel THEN default ELSE Cheapest
    ELSE IF table = NoModel THEN default ELSE table

Routed(default, selected) ==
    IF selected # default
       /\ (~BareKey(ProviderOf[selected]) \/ Cooled(health, ProviderOf[selected]))
    THEN default ELSE selected

RouteExamines(default, selected) ==
    {p \in Provider : selected # default /\ p = ProviderOf[selected] /\ BareKey(p)}

-----------------------------------------------------------------------------
(* The fallback chain, walked by one request in one step until the next     *)
(* adapter call or the end.                                                 *)

(* Mutated: cooled-down fallbacks are tried too.                            *)
OpenCooled(h, q, i) == Chain[i] # q.model /\ BareKey(ProviderOf[Chain[i]])

Open(h, q, i) == /\ Chain[i] # q.model
                 /\ BareKey(ProviderOf[Chain[i]])
                 /\ ~Cooled(h, ProviderOf[Chain[i]])

(* Mutated: a retry is not counted.                                         *)
MayRetryUncounted(q) == q.pos < Len(Chain)

MayRetry(q) == q.retries < MaxRetries

Candidates(h, q) ==
    {i \in (q.pos + 1)..Len(Chain) : MayRetry(q) /\ Open(h, q, i)}

(* The entries it passes on its way are asked for their cooldown.           *)
Passed(h, q) ==
    {i \in (q.pos + 1)..Len(Chain) :
        /\ MayRetry(q)
        /\ Chain[i] # q.model /\ BareKey(ProviderOf[Chain[i]])
        /\ \A j \in Candidates(h, q) : i <= j}

Fallback(r, h, q) ==
    LET next == Candidates(h, q) IN
    /\ health' = Examine(h, {ProviderOf[Chain[i]] : i \in Passed(h, q)})
    /\ \/ \E i \in next :
             /\ \A j \in next : i <= j
             /\ req' = [req EXCEPT ![r] =
                          [q EXCEPT !.pc = "fallback", !.pos = i,
                                    !.retries = @ + 1,
                                    !.tried = @ \cup {Chain[i]}]]
       \/ /\ next = {}
          /\ req' = [req EXCEPT ![r] =
                       IF q.blocked THEN Done ELSE [q EXCEPT !.pc = "raised"]]

Quiet == UNCHANGED <<adapters, keyed>>
Raised(p) == errors' = [errors EXCEPT ![p] = Append(@, now)]

(* Mutated: the cooldown of the primary is ignored.                         *)
SkipsNever(h, p) == FALSE

Skips(h, p) == Cooled(h, p)

(* route and complete, up to the first adapter call.  A model whose         *)
(* provider has no adapter raises inside the try: a failure of the provider.*)
Ask(r, default, table, low) ==
    LET sel   == Selected(default, table, low)
        model == Routed(default, sel)
        p     == ProviderOf[model]
        seen  == Examine(health, RouteExamines(default, sel) \cup {p})
        q     == [Done EXCEPT !.pc = "primary", !.model = model] IN
    /\ req[r].pc \in Ended /\ asks < MaxAsks
    /\ asks' = asks + 1
    /\ \/ /\ Skips(health, p)
          /\ Fallback(r, seen, q)
          /\ UNCHANGED errors
       \/ /\ ~Skips(health, p) /\ p \notin adapters
          /\ Fallback(r, RecordFailure(seen, p), q)
          /\ Raised(p)
       \/ /\ ~Skips(health, p) /\ p \in adapters
          /\ req' = [req EXCEPT ![r] = [q EXCEPT !.tried = {model}]]
          /\ health' = seen
          /\ UNCHANGED errors
    /\ Quiet /\ UNCHANGED now

(* The model whose adapter a request awaits.                                *)
Awaited(q) == IF q.pc = "primary" THEN q.model ELSE Chain[q.pos]

Answer(r) ==
    /\ req[r].pc \in Awaiting
    /\ req' = [req EXCEPT ![r] = Done]
    /\ Quiet /\ UNCHANGED <<now, health, asks, errors>>

(* stop_reason = "blocked": a matter of the request, not of the provider.   *)
Block(r) ==
    /\ req[r].pc \in Awaiting
    /\ Fallback(r, health, [req[r] EXCEPT !.blocked = TRUE])
    /\ Quiet /\ UNCHANGED <<now, asks, errors>>

Raise(r) ==
    LET p == ProviderOf[Awaited(req[r])] IN
    /\ req[r].pc \in Awaiting
    /\ Fallback(r, RecordFailure(health, p), req[r])
    /\ Raised(p)
    /\ Quiet /\ UNCHANGED <<now, asks>>

(* A timeout of the caller or a killed colony: CancelledError is no         *)
(* Exception, so neither a failure nor a fallback.                          *)
Cancel(r) ==
    /\ req[r].pc \in Awaiting
    /\ req' = [req EXCEPT ![r] = Done]
    /\ Quiet /\ UNCHANGED <<now, health, asks, errors>>

(* provider_health, read by every state snapshot.                           *)
ProviderHealth ==
    /\ health' = Examine(health, adapters)
    /\ Quiet /\ UNCHANGED <<now, req, asks, errors>>

Tick ==
    /\ now < MaxTime
    /\ now' = now + 1
    /\ errors' = [p \in Provider |-> Kept(errors[p], Within(now'))]
    /\ Quiet /\ UNCHANGED <<health, req, asks>>

Next ==
    \/ \E r \in Request, default \in Defaults, table \in Table \cup {NoModel},
          low \in BOOLEAN : Ask(r, default, table, low)
    \/ \E r \in Request : Answer(r) \/ Block(r) \/ Raise(r) \/ Cancel(r)
    \/ ProviderHealth \/ Tick

Spec == Init /\ [][Next]_vars

-----------------------------------------------------------------------------
(* Every variable keeps its type; no request exceeds the "per-request retry *)
(* cap" (Wave 50), over the whole chain and whatever it met.                *)
TypeOK ==
    /\ now \in Nat /\ adapters \subseteq Provider /\ keyed \in BOOLEAN
    /\ health \in [Provider -> [fails : Seq(Nat), until : Nat]]
    /\ req \in [Request -> ReqState]
    /\ asks \in 0..MaxAsks
    /\ errors \in [Provider -> Seq(Nat)]

(* ADR-024: a provider is only cooled down, and a cooldown is only          *)
(* prolonged, by a burst: Threshold calls of it that raised within Window.  *)
(* Blocked and cancelled calls do not count, nor do failures of local       *)
(* providers.                                                               *)
ColdAfterBurst ==
    [][\A p \in Provider : health'[p].until > health[p].until =>
          /\ p \notin Local
          /\ Len(errors'[p]) >= Threshold]_vars

(* No adapter is called while its provider is cooled down, whatever other   *)
(* requests did while this one awaited another provider.                    *)
CooledIsSkipped ==
    [][\A r \in Request : \A m \in req'[r].tried :
          (req'[r].pc \in Awaiting /\ req'[r] # req[r] /\ m = Awaited(req'[r]))
          => ~Cooled(health', ProviderOf[m])]_vars

(* Each local model of the chain that has an adapter was called.            *)
LocalTried(r) ==
    \A i \in DOMAIN Chain :
        (ProviderOf[Chain[i]] \in Local \cap adapters) => Chain[i] \in req[r].tried

(* What becomes of ADR-024's "when all cloud providers are unavailable,     *)
(* route local".  With adapters under their provider's name a request that  *)
(* raises has called the local models of the chain.  With the keys app.py   *)
(* gives them no request ever leaves the default model it came with: the    *)
(* routing table, the budget gate and the chain find no adapter.            *)
LocalBeforeGivingUp ==
    \A r \in Request :
        IF keyed THEN /\ req[r].model \in Defaults \cup {NoModel}
                      /\ req[r].tried \subseteq {req[r].model}
        ELSE req[r].pc = "raised" => LocalTried(r)

(* "when all cloud providers are unavailable, route local"                  *)
(* (docs/decisions/024-provider-cooldown.md:20), of any registry.     *)
RoutesLocal == \A r \in Request : req[r].pc = "raised" => LocalTried(r)
=============================================================================
