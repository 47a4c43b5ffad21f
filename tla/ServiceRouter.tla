---------------------------- MODULE ServiceRouter ----------------------------
(***************************************************************************)
(* Queries to service colonies: engine/service_router.py, with its callers' *)
(* side of a query (surface/queen_tools.py, engine/runner.py) left to the   *)
(* module that extends this one.                                            *)
(*                                                                          *)
(* A query awaits the emission of ServiceQuerySent, then the answer, then   *)
(* the emission of ServiceQueryResolved; register and resolve_response run  *)
(* between the awaits of others.  A request id is the colony and the wall   *)
(* clock in milliseconds, so two queries can be given the same one.         *)
(***************************************************************************)
EXTENDS Naturals, FiniteSets

CONSTANTS Caller,        \* coroutines that call query, one query at a time
          Stype, Colony,
          NoColony,
          Handlers,      \* service types with a deterministic handler
          Ms,            \* bound: what the clock can read, in milliseconds
          Nobody

ASSUME ServiceAssumption ==
    /\ NoColony \notin Colony
    /\ Handlers \subseteq Stype
    /\ Nobody \notin Caller

VARIABLES
    registry,   \* _registry: the colony that serves a type
    waiters,    \* _waiters: request id -> the query whose event it is
    responses,  \* _responses: the request ids an answer is kept for
    query       \* per caller: where its query is

routerVars == <<registry, waiters, responses, query>>

Id   == Colony \X Ms
NoId == <<NoColony>>

(* A query awaits an emission or the handler, or waits for its event; it is *)
(* "none" again when it has returned or raised: every caller makes a text   *)
(* of either.                                                               *)
InFlight == {"handling", "sending", "waiting", "resolving"}

QueryState == [pc : {"none"} \cup InFlight,
               id : Id \cup {NoId},
               set : BOOLEAN,          \* its asyncio.Event
               out : {"", "answer", "empty"},   \* what it found when it woke
               shared : BOOLEAN]       \* history: another query has its id

NoQuery == [pc |-> "none", id |-> NoId, set |-> FALSE, out |-> "",
            shared |-> FALSE]

RouterInit ==
    /\ registry = [s \in Stype |-> NoColony]
    /\ waiters = <<>>
    /\ responses = {}
    /\ query = [c \in Caller |-> NoQuery]

Without(f, k) == [x \in DOMAIN f \ {k} |-> f[x]]

(* activate_service; a service is never unregistered by the program.        *)
Register(s, col) ==
    /\ registry' = [registry EXCEPT ![s] = col]
    /\ UNCHANGED <<waiters, responses, query>>

(* query(), up to its first await.  The waiter of an equal id is replaced.  *)
Waits(c, id) ==
    LET same == {d \in Caller \ {c} : query[d].id = id} IN
    /\ waiters' = [x \in DOMAIN waiters \cup {id} |-> IF x = id THEN c ELSE waiters[x]]
    /\ query' = [d \in Caller |->
                    CASE d = c -> [NoQuery EXCEPT !.pc = "sending", !.id = id,
                                                  !.shared = same # {}]
                      [] d \in same -> [query[d] EXCEPT !.shared = TRUE]
                      [] OTHER -> query[d]]

Query(c, s) ==
    /\ query[c].pc = "none"
    /\ \/ /\ s \in Handlers
          /\ query' = [query EXCEPT ![c].pc = "handling"]
          /\ UNCHANGED waiters
       \/ /\ s \notin Handlers /\ registry[s] # NoColony
          /\ \E ms \in Ms : Waits(c, <<registry[s], ms>>)
    /\ UNCHANGED <<registry, responses>>

(* Nobody serves the type: a ValueError, which the caller turns to a text.  *)
Unserved(s) == s \notin Handlers /\ registry[s] = NoColony

(* The handler's path: the two emissions and the handler may each raise.    *)
Handled(c) ==
    /\ query[c].pc = "handling"
    /\ query' = [query EXCEPT ![c] = NoQuery]
    /\ UNCHANGED <<registry, waiters, responses>>

(* ServiceQuerySent is out and inject_message has queued the text: it waits *)
(* for its event, which may have been set before.                           *)
Sent(c) ==
    /\ query[c].pc = "sending"
    /\ query' = [query EXCEPT ![c].pc = "waiting"]
    /\ UNCHANGED <<registry, waiters, responses>>

(* An emission raises, or the caller is cancelled where it awaits: nothing  *)
(* but the timeout's handler and the normal end removes a waiter, and this  *)
(* one is nobody's from now on.                                             *)
Abandon(c) ==
    /\ query' = [query EXCEPT ![c] = NoQuery]
    /\ waiters' = [id \in DOMAIN waiters |->
                      IF waiters[id] = c THEN Nobody ELSE waiters[id]]
    /\ UNCHANGED <<registry, responses>>

EmissionRaises(c) == query[c].pc \in {"sending", "resolving"} /\ Abandon(c)

Cancelled(c) == query[c].pc \in InFlight /\ Abandon(c)

(* resolve_response: an agent's output names a request id.  The event is    *)
(* that of the query that registered the waiter last.                       *)
Resolve(id) ==
    /\ id \in DOMAIN waiters
    /\ responses' = responses \cup {id}
    /\ query' = [c \in Caller |-> IF c = waiters[id] THEN [query[c] EXCEPT !.set = TRUE]
                                                     ELSE query[c]]
    /\ UNCHANGED <<registry, waiters>>

\* Mutated: a timeout that leaves the waiter and the answer behind.
LeavesWaiter(id) == UNCHANGED <<waiters, responses>>
(* _cleanup_request                                                         *)
Cleanup(id) ==
    /\ waiters' = Without(waiters, id)
    /\ responses' = responses \ {id}

(* wait_for's timeout; it can win over an event that was just set.          *)
Timeout(c) ==
    /\ query[c].pc = "waiting"
    /\ Cleanup(query[c].id)
    /\ query' = [query EXCEPT ![c] = NoQuery]
    /\ UNCHANGED registry

Wakes(c) ==
    /\ query[c].pc = "waiting" /\ query[c].set
    /\ Cleanup(query[c].id)
    /\ query' = [query EXCEPT ![c].pc = "resolving",
                              ![c].out = IF query[c].id \in responses
                                         THEN "answer" ELSE "empty"]
    /\ UNCHANGED registry

(* ServiceQueryResolved is out and the answer goes to the caller.           *)
Returns(c) ==
    /\ query[c].pc = "resolving"
    /\ query' = [query EXCEPT ![c] = NoQuery]
    /\ UNCHANGED <<registry, waiters, responses>>

(* What a query does by itself, and what the rest of the program does.      *)
QueryStep(c) == Handled(c) \/ Sent(c) \/ EmissionRaises(c)
                \/ Timeout(c) \/ Wakes(c) \/ Returns(c)

RouterEnv ==
    \/ \E s \in Stype, col \in Colony : Register(s, col)
    \/ \E id \in Id : Resolve(id)

-----------------------------------------------------------------------------

RouterTypeOK ==
    /\ registry \in [Stype -> Colony \cup {NoColony}]
    /\ DOMAIN waiters \subseteq Id
    /\ \A id \in DOMAIN waiters : waiters[id] \in Caller \cup {Nobody}
    /\ responses \subseteq Id
    /\ query \in [Caller -> QueryState]

\* The router forgets what is over and nothing else (service_router.py): a
\* waiter belongs to the query that waits under its id, unless that query was
\* cut off before it could clean up; an answer is kept only for a waiter; a
\* query that is woken finds its answer, and one that waits has its waiter,
\* unless its id was given to another query too.
RouterClean ==
    /\ \A id \in DOMAIN waiters : waiters[id] # Nobody =>
          /\ query[waiters[id]].id = id
          /\ query[waiters[id]].pc \in {"sending", "waiting"}
    /\ responses \subseteq DOMAIN waiters
    /\ \A c \in Caller : ~query[c].shared =>
          /\ query[c].out # "empty"
          /\ query[c].pc \in {"sending", "waiting"} =>
                query[c].id \in DOMAIN waiters /\ waiters[query[c].id] = c
=============================================================================
