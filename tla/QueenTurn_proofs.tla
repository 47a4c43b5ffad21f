-------------------------- MODULE QueenTurn_proofs ---------------------------
(***************************************************************************)
(* Proofs about the Queen's turns and the service router they query, for    *)
(* any callers, threads, messages, colonies and clock readings.             *)
(***************************************************************************)
EXTENDS QueenTurn, Subsequences_proofs, FiniteSetTheorems

-----------------------------------------------------------------------------
(* The router.                                                              *)

\* Where a query has an id of its own, and where its waiter is registered.
Named   == {"sending", "waiting", "resolving"}
Waiting == {"sending", "waiting"}

(* A query has an id from the time it is sent until it is over.              *)
NamedInv ==
    \A c \in Caller : /\ query[c].pc \in Named => query[c].id \in Id
                      /\ query[c].pc \notin Named => query[c].id = NoId

(* Queries that have the same id know it.                                    *)
SharedInv ==
    \A c, d \in Caller :
        c # d /\ query[c].id = query[d].id /\ query[c].id # NoId => query[c].shared

WaiterInv ==
    /\ \A id \in DOMAIN waiters : waiters[id] # Nobody =>
          query[waiters[id]].id = id /\ query[waiters[id]].pc \in Waiting
    /\ responses \subseteq DOMAIN waiters

(* A query alone with its id has its waiter, and its answer once it is set.  *)
AloneInv ==
    \A c \in Caller : ~query[c].shared =>
        /\ query[c].out # "empty"
        /\ query[c].pc \in Waiting =>
              /\ query[c].id \in DOMAIN waiters /\ waiters[query[c].id] = c
              /\ query[c].set => query[c].id \in responses

RInv == RouterTypeOK /\ NamedInv /\ SharedInv /\ WaiterInv /\ AloneInv

LEMMA Ids == NoId \notin Id
BY ServiceAssumption DEF NoId, Id

LEMMA NoQueryFacts ==
    /\ NoQuery \in QueryState /\ NoQuery.pc = "none" /\ NoQuery.id = NoId
    /\ NoQuery.out = "" /\ NoQuery.set = FALSE /\ NoQuery.shared = FALSE
BY DEF NoQuery, QueryState, InFlight

LEMMA RouterStarts == RouterInit => RInv
<1> SUFFICES ASSUME RouterInit PROVE RInv
  OBVIOUS
<1>1. /\ registry = [s \in Stype |-> NoColony] /\ DOMAIN waiters = {} /\ responses = {}
      /\ query = [c \in Caller |-> NoQuery]
  BY DEF RouterInit
<1>2. \A c \in Caller : query[c] = NoQuery
  BY <1>1
<1>3. RouterTypeOK
  BY <1>1, NoQueryFacts DEF RouterTypeOK
<1>4. NamedInv /\ SharedInv
  BY <1>2, NoQueryFacts DEF NamedInv, SharedInv, Named
<1>5. WaiterInv /\ AloneInv
  BY <1>1, <1>2, NoQueryFacts DEF WaiterInv, AloneInv, Waiting
<1> QED
  BY <1>3, <1>4, <1>5 DEF RInv

(* A query that is over, wherever it was: what it leaves.                    *)
LEMMA Ends ==
    ASSUME RInv, NEW c \in Caller, query' = [query EXCEPT ![c] = NoQuery],
           registry' = registry
    PROVE  /\ query' \in [Caller -> QueryState] /\ query'[c] = NoQuery
           /\ \A d \in Caller : d # c => query'[d] = query[d]
           /\ NamedInv' /\ SharedInv'
<1>1. /\ query' \in [Caller -> QueryState] /\ query'[c] = NoQuery
      /\ \A d \in Caller : d # c => query'[d] = query[d]
  BY NoQueryFacts DEF RInv, RouterTypeOK
<1>2. NamedInv'
  <2> SUFFICES ASSUME NEW d \in Caller
               PROVE  /\ query'[d].pc \in Named => query'[d].id \in Id
                      /\ query'[d].pc \notin Named => query'[d].id = NoId
    BY DEF NamedInv, Named, Id, NoId
  <2>1. CASE d = c
    BY <1>1, <2>1, NoQueryFacts DEF Named
  <2>2. CASE d # c
    BY <1>1, <2>2 DEF RInv, NamedInv
  <2> QED
    BY <2>1, <2>2
<1>3. SharedInv'
  <2> SUFFICES ASSUME NEW d \in Caller, NEW e \in Caller, d # e,
                      query'[d].id = query'[e].id, query'[d].id # NoId
               PROVE  query'[d].shared
    BY DEF SharedInv, NoId
  <2>1. d # c /\ e # c
    BY <1>1, NoQueryFacts
  <2> QED
    BY <1>1, <2>1 DEF RInv, SharedInv
<1> QED
  BY <1>1, <1>2, <1>3

(* It had no waiter, or its waiter is nobody's now.                          *)
LEMMA AbandonKeeps ==
    ASSUME RInv, NEW c \in Caller, Abandon(c)
    PROVE  RInv'
<1>1. /\ query' = [query EXCEPT ![c] = NoQuery] /\ UNCHANGED <<registry, responses>>
      /\ DOMAIN waiters' = DOMAIN waiters
      /\ \A id \in DOMAIN waiters : waiters'[id] = IF waiters[id] = c THEN Nobody ELSE waiters[id]
  BY DEF Abandon
<1>2. /\ query' \in [Caller -> QueryState] /\ query'[c] = NoQuery
      /\ \A d \in Caller : d # c => query'[d] = query[d]
      /\ NamedInv' /\ SharedInv'
  BY <1>1, Ends
<1>3. RouterTypeOK'
  BY <1>1, <1>2 DEF RInv, RouterTypeOK, Id
<1>4. WaiterInv'
  <2>1. ASSUME NEW id \in DOMAIN waiters', waiters'[id] # Nobody
        PROVE  query'[waiters'[id]].id = id /\ query'[waiters'[id]].pc \in Waiting
    <3>1. waiters'[id] = waiters[id] /\ waiters[id] # c /\ id \in DOMAIN waiters
      BY <1>1, <2>1
    <3>2. waiters[id] \in Caller
      BY <2>1, <3>1 DEF RInv, RouterTypeOK
    <3> QED
      BY <1>2, <2>1, <3>1, <3>2 DEF RInv, WaiterInv
  <2>2. responses' \subseteq DOMAIN waiters'
    BY <1>1 DEF RInv, WaiterInv
  <2> QED
    BY <2>1, <2>2 DEF WaiterInv, Waiting
<1>5. AloneInv'
  <2> SUFFICES ASSUME NEW d \in Caller, ~query'[d].shared
               PROVE  /\ query'[d].out # "empty"
                      /\ query'[d].pc \in Waiting =>
                            /\ query'[d].id \in DOMAIN waiters' /\ waiters'[query'[d].id] = d
                            /\ query'[d].set => query'[d].id \in responses'
    BY DEF AloneInv, Waiting
  <2>1. CASE d = c
    BY <1>2, <2>1, NoQueryFacts DEF Waiting
  <2>2. CASE d # c
    BY <1>1, <1>2, <2>2 DEF RInv, AloneInv
  <2> QED
    BY <2>1, <2>2
<1> QED
  BY <1>2, <1>3, <1>4, <1>5 DEF RInv

LEMMA HandledKeeps ==
    ASSUME RInv, NEW c \in Caller, Handled(c) \/ Returns(c)
    PROVE  RInv'
<1>1. query' = [query EXCEPT ![c] = NoQuery] /\ UNCHANGED <<registry, waiters, responses>>
      /\ query[c].pc \notin Waiting
  BY DEF Handled, Returns, Waiting
<1>2. /\ query' \in [Caller -> QueryState] /\ query'[c] = NoQuery
      /\ \A d \in Caller : d # c => query'[d] = query[d]
      /\ NamedInv' /\ SharedInv'
  BY <1>1, Ends
<1>3. RouterTypeOK'
  BY <1>1, <1>2 DEF RInv, RouterTypeOK, Id
<1>4. WaiterInv'
  <2>1. ASSUME NEW id \in DOMAIN waiters, waiters[id] # Nobody
        PROVE  query'[waiters[id]].id = id /\ query'[waiters[id]].pc \in Waiting
    <3>1. waiters[id] # c /\ waiters[id] \in Caller
      BY <1>1, <2>1 DEF RInv, RouterTypeOK, WaiterInv
    <3> QED
      BY <1>2, <2>1, <3>1 DEF RInv, WaiterInv
  <2> QED
    BY <1>1, <2>1 DEF RInv, WaiterInv, Waiting
<1>5. AloneInv'
  <2> SUFFICES ASSUME NEW d \in Caller, ~query'[d].shared
               PROVE  /\ query'[d].out # "empty"
                      /\ query'[d].pc \in Waiting =>
                            /\ query'[d].id \in DOMAIN waiters' /\ waiters'[query'[d].id] = d
                            /\ query'[d].set => query'[d].id \in responses'
    BY DEF AloneInv, Waiting
  <2>1. CASE d = c
    BY <1>2, <2>1, NoQueryFacts DEF Waiting
  <2>2. CASE d # c
    BY <1>1, <1>2, <2>2 DEF RInv, AloneInv
  <2> QED
    BY <2>1, <2>2
<1> QED
  BY <1>2, <1>3, <1>4, <1>5 DEF RInv

(* What a query cleans up is its own, unless others have its id.             *)
LEMMA CleanupKeeps ==
    ASSUME RInv, NEW c \in Caller, query[c].pc = "waiting", Cleanup(query[c].id),
           NEW q \in QueryState, query' = [query EXCEPT ![c] = q], registry' = registry,
           q.pc \notin Waiting, ~q.shared => q.out # "empty",
           NamedInv', SharedInv'
    PROVE  RInv'
<1>1. /\ query' \in [Caller -> QueryState] /\ query'[c] = q
      /\ \A d \in Caller : d # c => query'[d] = query[d]
  BY DEF RInv, RouterTypeOK
<1>2. PICK id \in Id : id = query[c].id
  BY DEF RInv, NamedInv, Named
<1>3. /\ DOMAIN waiters' = DOMAIN waiters \ {id} /\ responses' = responses \ {id}
      /\ \A x \in DOMAIN waiters' : waiters'[x] = waiters[x]
  BY <1>2 DEF Cleanup, Without
<1>4. RouterTypeOK'
  BY <1>1, <1>3 DEF RInv, RouterTypeOK, Id
<1>5. WaiterInv'
  <2>1. ASSUME NEW x \in DOMAIN waiters', waiters'[x] # Nobody
        PROVE  query'[waiters'[x]].id = x /\ query'[waiters'[x]].pc \in Waiting
    <3>1. waiters'[x] = waiters[x] /\ x # id /\ x \in DOMAIN waiters
      BY <1>3
    <3>2. /\ waiters[x] \in Caller /\ query[waiters[x]].id = x
          /\ query[waiters[x]].pc \in Waiting
      BY <2>1, <3>1 DEF RInv, RouterTypeOK, WaiterInv
    <3>3. waiters[x] # c
      BY <1>2, <3>1, <3>2
    <3> QED
      BY <1>1, <3>1, <3>2, <3>3
  <2>2. responses' \subseteq DOMAIN waiters'
    BY <1>3 DEF RInv, WaiterInv
  <2> QED
    BY <2>1, <2>2 DEF WaiterInv, Waiting
<1>6. AloneInv'
  <2> SUFFICES ASSUME NEW d \in Caller, ~query'[d].shared
               PROVE  /\ query'[d].out # "empty"
                      /\ query'[d].pc \in Waiting =>
                            /\ query'[d].id \in DOMAIN waiters' /\ waiters'[query'[d].id] = d
                            /\ query'[d].set => query'[d].id \in responses'
    BY DEF AloneInv, Waiting
  <2>1. CASE d = c
    BY <1>1, <2>1
  <2>2. CASE d # c
    <3>1. query'[d] = query[d]
      BY <1>1, <2>2
    <3>2. query[d].id # id
      <4>1. id # NoId
        BY Ids
      <4> QED
        BY <1>2, <2>2, <3>1, <4>1 DEF RInv, SharedInv
    <3> QED
      BY <1>3, <3>1, <3>2 DEF RInv, AloneInv
  <2> QED
    BY <2>1, <2>2
<1> QED
  BY <1>4, <1>5, <1>6 DEF RInv

LEMMA TimeoutKeeps ==
    ASSUME RInv, NEW c \in Caller, Timeout(c)
    PROVE  RInv'
<1>1. /\ query[c].pc = "waiting" /\ Cleanup(query[c].id) /\ registry' = registry
      /\ query' = [query EXCEPT ![c] = NoQuery]
  BY DEF Timeout
<1>2. NamedInv' /\ SharedInv'
  BY <1>1, Ends
<1>3. NoQuery.pc \notin Waiting
  BY NoQueryFacts DEF Waiting
<1> QED
  BY <1>1, <1>2, <1>3, NoQueryFacts, CleanupKeeps

(* A query goes on under its id.                                            *)
LEMMA GoesOn ==
    ASSUME RInv, NEW c \in Caller, NEW q \in QueryState, query' = [query EXCEPT ![c] = q],
           query[c].pc \in Named, q.pc \in Named, q.id = query[c].id, q.shared = query[c].shared
    PROVE  /\ query' \in [Caller -> QueryState] /\ query'[c] = q
           /\ \A d \in Caller : d # c => query'[d] = query[d]
           /\ NamedInv' /\ SharedInv'
<1>1. /\ query' \in [Caller -> QueryState] /\ query'[c] = q
      /\ \A d \in Caller : d # c => query'[d] = query[d]
  BY DEF RInv, RouterTypeOK
<1>2. \A d \in Caller : /\ query'[d].id = query[d].id /\ query'[d].shared = query[d].shared
                        /\ query'[d].pc \in Named <=> query[d].pc \in Named
  BY <1>1
<1>3. NamedInv'
  BY <1>2 DEF RInv, NamedInv, Id, NoId, Named
<1>4. SharedInv'
  BY <1>2 DEF RInv, SharedInv, NoId
<1> QED
  BY <1>1, <1>3, <1>4

LEMMA WakesKeeps ==
    ASSUME RInv, NEW c \in Caller, Wakes(c)
    PROVE  RInv'
<1>1. /\ query[c].pc = "waiting" /\ query[c].set /\ Cleanup(query[c].id) /\ registry' = registry
      /\ query[c] \in QueryState
  BY DEF Wakes, RInv, RouterTypeOK
<1>2. PICK o \in {"answer", "empty"} : o = IF query[c].id \in responses THEN "answer" ELSE "empty"
  OBVIOUS
<1> DEFINE k == [query[c] EXCEPT !.pc = "resolving", !.out = o]
<1>3. /\ k \in QueryState /\ k.pc = "resolving" /\ k.out = o /\ k.id = query[c].id
      /\ k.shared = query[c].shared
  BY <1>1, <1>2 DEF QueryState, InFlight
<1>4. query' = [query EXCEPT ![c] = k]
  BY <1>2 DEF Wakes
<1>5. ~query[c].shared => o # "empty"
  BY <1>1, <1>2 DEF RInv, AloneInv, Waiting
<1> HIDE DEF k
<1>6. PICK q \in QueryState : q = k
  BY <1>3
<1>7. NamedInv' /\ SharedInv'
  BY <1>1, <1>3, <1>4, <1>6, GoesOn DEF Named
<1>8. q.pc \notin Waiting /\ (~q.shared => q.out # "empty")
  BY <1>3, <1>5, <1>6 DEF Waiting
<1> QED
  BY <1>1, <1>4, <1>6, <1>7, <1>8, CleanupKeeps

LEMMA SentKeeps ==
    ASSUME RInv, NEW c \in Caller, Sent(c)
    PROVE  RInv'
<1> DEFINE k == [query[c] EXCEPT !.pc = "waiting"]
<1>1. /\ query[c].pc = "sending" /\ UNCHANGED <<registry, waiters, responses>>
      /\ query[c] \in QueryState /\ query' = [query EXCEPT ![c] = k]
  BY DEF Sent, RInv, RouterTypeOK
<1>2. /\ k \in QueryState /\ k.pc = "waiting" /\ k.out = query[c].out /\ k.id = query[c].id
      /\ k.shared = query[c].shared /\ k.set = query[c].set
  BY <1>1 DEF QueryState, InFlight
<1> HIDE DEF k
<1>3. PICK q \in QueryState : q = k
  BY <1>2
<1>4. /\ query' \in [Caller -> QueryState] /\ query'[c] = q
      /\ \A d \in Caller : d # c => query'[d] = query[d]
      /\ NamedInv' /\ SharedInv'
  BY <1>1, <1>2, <1>3, GoesOn DEF Named
<1>5. \A d \in Caller :
          /\ query'[d].id = query[d].id /\ query'[d].shared = query[d].shared
          /\ query'[d].pc \in Waiting <=> query[d].pc \in Waiting
          /\ query'[d].set = query[d].set /\ query'[d].out = query[d].out
  BY <1>1, <1>2, <1>3, <1>4 DEF Waiting
<1>6. RouterTypeOK'
  BY <1>1, <1>4 DEF RInv, RouterTypeOK, Id
<1>7. WaiterInv'
  BY <1>1, <1>5 DEF RInv, RouterTypeOK, WaiterInv, Waiting
<1>8. AloneInv'
  BY <1>1, <1>5 DEF RInv, AloneInv, Waiting
<1> QED
  BY <1>4, <1>6, <1>7, <1>8 DEF RInv

LEMMA RouterEnvKeeps ==
    ASSUME RInv, RouterEnv
    PROVE  RInv'
<1>1. CASE \E s \in Stype, col \in Colony : Register(s, col)
  <2>1. PICK s \in Stype, col \in Colony : Register(s, col)
    BY <1>1
  <2>2. registry' \in [Stype -> Colony \cup {NoColony}] /\ UNCHANGED <<waiters, responses, query>>
    BY <2>1 DEF Register, RInv, RouterTypeOK
  <2>3. RouterTypeOK'
    BY <2>2 DEF RInv, RouterTypeOK, Id
  <2> QED
    BY <2>2, <2>3 DEF RInv, NamedInv, SharedInv, WaiterInv, AloneInv, Id, NoId, Named, Waiting
<1>2. CASE \E id \in Id : Resolve(id)
  <2>1. PICK id \in Id : Resolve(id)
    BY <1>2
  <2>2. /\ id \in DOMAIN waiters /\ responses' = responses \cup {id}
        /\ query' = [c \in Caller |-> IF c = waiters[id] THEN [query[c] EXCEPT !.set = TRUE]
                                      ELSE query[c]]
        /\ UNCHANGED <<registry, waiters>>
    BY <2>1 DEF Resolve
  <2>3. \A c \in Caller :
            /\ query'[c] \in QueryState
            /\ query'[c].id = query[c].id /\ query'[c].shared = query[c].shared
            /\ query'[c].pc = query[c].pc /\ query'[c].out = query[c].out
            /\ query'[c].set => query[c].set \/ c = waiters[id]
    <3> SUFFICES ASSUME NEW c \in Caller
                 PROVE  /\ query'[c] \in QueryState
                        /\ query'[c].id = query[c].id /\ query'[c].shared = query[c].shared
                        /\ query'[c].pc = query[c].pc /\ query'[c].out = query[c].out
                        /\ query'[c].set => query[c].set \/ c = waiters[id]
      OBVIOUS
    <3>1. query[c] \in QueryState
      BY DEF RInv, RouterTypeOK
    <3>2. query'[c] = query[c] \/ (c = waiters[id] /\ query'[c] = [query[c] EXCEPT !.set = TRUE])
      BY <2>2
    <3> QED
      BY <3>1, <3>2 DEF QueryState
  <2>4. query' \in [Caller -> QueryState]
    BY <2>2, <2>3
  <2>5. RouterTypeOK'
    BY <2>2, <2>4 DEF RInv, RouterTypeOK, Id
  <2>6. NamedInv' /\ SharedInv'
    BY <2>3 DEF RInv, NamedInv, SharedInv, Id, NoId, Named
  <2>7. WaiterInv'
    BY <2>2, <2>3 DEF RInv, RouterTypeOK, WaiterInv, Waiting
  <2>8. AloneInv'
    <3> SUFFICES ASSUME NEW d \in Caller, ~query'[d].shared
                 PROVE  /\ query'[d].out # "empty"
                        /\ query'[d].pc \in Waiting =>
                              /\ query'[d].id \in DOMAIN waiters' /\ waiters'[query'[d].id] = d
                              /\ query'[d].set => query'[d].id \in responses'
      BY DEF AloneInv, Waiting
    <3>1. CASE d = waiters[id]
      <4>1. query[d].id = id
        BY <2>2, <3>1, ServiceAssumption DEF RInv, WaiterInv
      <4> QED
        BY <2>2, <2>3, <4>1 DEF RInv, AloneInv
    <3>2. CASE d # waiters[id]
      BY <2>2, <2>3, <3>2 DEF RInv, AloneInv
    <3> QED
      BY <3>1, <3>2
  <2> QED
    BY <2>5, <2>6, <2>7, <2>8 DEF RInv
<1> QED
  BY <1>1, <1>2 DEF RouterEnv

(* A query is made: those that have its id come to share it.                 *)
LEMMA QueryKeeps ==
    ASSUME RInv, NEW c \in Caller, NEW s \in Stype, Query(c, s)
    PROVE  RInv'
<1>1. query[c].pc = "none" /\ UNCHANGED <<registry, responses>>
  BY DEF Query
<1>2. CASE query' = [query EXCEPT ![c].pc = "handling"] /\ waiters' = waiters
  <2> DEFINE k == [query[c] EXCEPT !.pc = "handling"]
  <2>1. query[c] \in QueryState /\ query' = [query EXCEPT ![c] = k]
    BY <1>2 DEF RInv, RouterTypeOK
  <2>2. /\ k \in QueryState /\ k.pc = "handling" /\ k.out = query[c].out /\ k.id = query[c].id
        /\ k.shared = query[c].shared /\ k.set = query[c].set
    BY <2>1 DEF QueryState, InFlight
  <2> HIDE DEF k
  <2>3. /\ query' \in [Caller -> QueryState] /\ query'[c] = k
        /\ \A d \in Caller : d # c => query'[d] = query[d]
    BY <2>1, <2>2 DEF RInv, RouterTypeOK
  <2>4. \A d \in Caller :
            /\ query'[d].id = query[d].id /\ query'[d].shared = query[d].shared
            /\ query'[d].pc \in Waiting <=> query[d].pc \in Waiting
            /\ query'[d].pc \in Named <=> query[d].pc \in Named
            /\ query'[d].set = query[d].set /\ query'[d].out = query[d].out
    BY <1>1, <2>2, <2>3 DEF Waiting, Named
  <2>5. RouterTypeOK'
    BY <1>1, <1>2, <2>3 DEF RInv, RouterTypeOK, Id
  <2>6. NamedInv' /\ SharedInv'
    BY <2>4 DEF RInv, NamedInv, SharedInv, Id, NoId, Named
  <2>7. WaiterInv'
    BY <1>1, <1>2, <2>4 DEF RInv, RouterTypeOK, WaiterInv, Waiting
  <2>8. AloneInv'
    BY <1>1, <1>2, <2>4 DEF RInv, AloneInv, Waiting
  <2> QED
    BY <2>5, <2>6, <2>7, <2>8 DEF RInv
<1>3. CASE registry[s] # NoColony /\ \E ms \in Ms : Waits(c, <<registry[s], ms>>)
  <2>1. PICK ms \in Ms : Waits(c, <<registry[s], ms>>)
    BY <1>3
  <2>2. PICK id \in Id : id = <<registry[s], ms>>
    BY <1>3 DEF RInv, RouterTypeOK, Id
  <2> DEFINE same == {d \in Caller \ {c} : query[d].id = id}
             k == [NoQuery EXCEPT !.pc = "sending", !.id = id, !.shared = same # {}]
  <2>3. /\ waiters' = [x \in DOMAIN waiters \cup {id} |-> IF x = id THEN c ELSE waiters[x]]
        /\ query' = [d \in Caller |->
                        CASE d = c -> k
                          [] d \in same -> [query[d] EXCEPT !.shared = TRUE]
                          [] OTHER -> query[d]]
    BY <2>1, <2>2 DEF Waits
  <2>4. query'[c] = k /\ \A d \in Caller :
            /\ d \in same => query'[d] = [query[d] EXCEPT !.shared = TRUE]
            /\ d # c /\ d \notin same => query'[d] = query[d]
    BY <2>3
  <2>5. /\ k \in QueryState /\ k.pc = "sending" /\ k.out = "" /\ k.id = id
        /\ k.shared = (same # {}) /\ k.set = FALSE
    <3> DEFINE b == same # {}
               h == [NoQuery EXCEPT !.pc = "sending", !.id = id]
    <3>1. /\ h \in QueryState /\ h.pc = "sending" /\ h.out = "" /\ h.id = id /\ h.set = FALSE
      BY NoQueryFacts DEF QueryState, InFlight
    <3>2. b \in BOOLEAN /\ k = [h EXCEPT !.shared = b]
      OBVIOUS
    <3> HIDE DEF h, b, same
    <3>3. [h EXCEPT !.shared = b] \in QueryState
      BY <3>1, <3>2 DEF QueryState
    <3>4. k.shared = b
      BY <3>1, <3>2 DEF QueryState
    <3> QED
      BY <3>1, <3>2, <3>3, <3>4 DEF b, QueryState
  <2> HIDE DEF k
  <2>6. \A d \in Caller : d # c =>
            /\ query'[d] \in QueryState
            /\ query'[d].id = query[d].id /\ query'[d].pc = query[d].pc
            /\ query'[d].set = query[d].set /\ query'[d].out = query[d].out
            /\ query'[d].shared = (query[d].shared \/ query[d].id = id)
    <3> SUFFICES ASSUME NEW d \in Caller, d # c
                 PROVE  /\ query'[d] \in QueryState
                        /\ query'[d].id = query[d].id /\ query'[d].pc = query[d].pc
                        /\ query'[d].set = query[d].set /\ query'[d].out = query[d].out
                        /\ query'[d].shared = (query[d].shared \/ query[d].id = id)
      OBVIOUS
    <3>1. query[d] \in QueryState
      BY DEF RInv, RouterTypeOK
    <3>2. CASE query[d].id = id
      <4>1. query'[d] = [query[d] EXCEPT !.shared = TRUE]
        BY <2>4, <3>2
      <4> QED
        BY <3>1, <3>2, <4>1 DEF QueryState
    <3>3. CASE query[d].id # id
      BY <2>4, <3>1, <3>3 DEF QueryState
    <3> QED
      BY <3>2, <3>3
  <2>7. query' \in [Caller -> QueryState]
    BY <2>3, <2>4, <2>5, <2>6
  <2>8. /\ DOMAIN waiters' = DOMAIN waiters \cup {id} /\ waiters'[id] = c
        /\ \A x \in DOMAIN waiters' : x # id => x \in DOMAIN waiters /\ waiters'[x] = waiters[x]
    BY <2>3
  <2>9. RouterTypeOK'
    BY <1>1, <2>7, <2>8 DEF RInv, RouterTypeOK, Id
  <2>10. NamedInv'
    <3> SUFFICES ASSUME NEW d \in Caller
                 PROVE  /\ query'[d].pc \in Named => query'[d].id \in Id
                        /\ query'[d].pc \notin Named => query'[d].id = NoId
      BY DEF NamedInv, Named, Id, NoId
    <3> QED
      BY <2>4, <2>5, <2>6 DEF RInv, NamedInv, Named
  <2>11. SharedInv'
    <3> SUFFICES ASSUME NEW d \in Caller, NEW e \in Caller, d # e,
                        query'[d].id = query'[e].id, query'[d].id # NoId
                 PROVE  query'[d].shared
      BY DEF SharedInv, NoId
    <3>1. CASE d = c
      <4>1. e \in same
        BY <2>4, <2>5, <2>6, <3>1
      <4> QED
        BY <2>4, <2>5, <3>1, <4>1
    <3>2. CASE e = c
      BY <2>4, <2>5, <2>6, <3>2
    <3>3. CASE d # c /\ e # c
      <4>1. query'[d].id = query[d].id /\ query'[e].id = query[e].id
        BY <2>6, <3>3
      <4>2. query[d].shared
        BY <3>3, <4>1 DEF RInv, SharedInv
      <4> QED
        BY <2>6, <3>3, <4>2
    <3> QED
      BY <3>1, <3>2, <3>3
  <2>12. WaiterInv'
    <3>1. ASSUME NEW x \in DOMAIN waiters', waiters'[x] # Nobody
          PROVE  query'[waiters'[x]].id = x /\ query'[waiters'[x]].pc \in Waiting
      <4>1. CASE x = id
        BY <2>4, <2>5, <2>8, <4>1 DEF Waiting
      <4>2. CASE x # id
        <5>1. waiters'[x] = waiters[x] /\ x \in DOMAIN waiters
          BY <2>8, <4>2
        <5>2. /\ waiters[x] \in Caller /\ query[waiters[x]].id = x
              /\ query[waiters[x]].pc \in Waiting
          BY <3>1, <5>1 DEF RInv, RouterTypeOK, WaiterInv
        <5>3. waiters[x] # c
          BY <1>1, <5>2 DEF Waiting
        <5> QED
          BY <2>6, <5>1, <5>2, <5>3
      <4> QED
        BY <4>1, <4>2
    <3>2. responses' \subseteq DOMAIN waiters'
      BY <1>1, <2>8 DEF RInv, WaiterInv
    <3> QED
      BY <3>1, <3>2 DEF WaiterInv, Waiting
  <2>13. AloneInv'
    <3> SUFFICES ASSUME NEW d \in Caller, ~query'[d].shared
                 PROVE  /\ query'[d].out # "empty"
                        /\ query'[d].pc \in Waiting =>
                              /\ query'[d].id \in DOMAIN waiters' /\ waiters'[query'[d].id] = d
                              /\ query'[d].set => query'[d].id \in responses'
      BY DEF AloneInv, Waiting
    <3>1. CASE d = c
      BY <2>4, <2>5, <2>8, <3>1
    <3>2. CASE d # c
      <4>1. ~query[d].shared /\ query[d].id # id
        BY <2>6, <3>2
      <4> QED
        BY <1>1, <2>6, <2>8, <3>2, <4>1 DEF RInv, AloneInv
    <3> QED
      BY <3>1, <3>2
  <2> QED
    BY <2>9, <2>10, <2>11, <2>12, <2>13 DEF RInv
<1> QED
  BY <1>2, <1>3 DEF Query

LEMMA RouterStepKeeps ==
    ASSUME RInv,
           \/ \E c \in Caller : QueryStep(c) \/ Cancelled(c) \/ \E s \in Stype : Query(c, s)
           \/ RouterEnv \/ UNCHANGED routerVars
    PROVE  RInv'
<1>1. CASE \E c \in Caller : QueryStep(c) \/ Cancelled(c) \/ \E s \in Stype : Query(c, s)
  <2>1. PICK c \in Caller : QueryStep(c) \/ Cancelled(c) \/ \E s \in Stype : Query(c, s)
    BY <1>1
  <2> QED
    BY <2>1, HandledKeeps, SentKeeps, AbandonKeeps, TimeoutKeeps, WakesKeeps, QueryKeeps
    DEF QueryStep, Cancelled, EmissionRaises
<1>2. CASE RouterEnv
  BY <1>2, RouterEnvKeeps
<1>3. CASE UNCHANGED routerVars
  BY <1>3 DEF routerVars, RInv, RouterTypeOK, NamedInv, SharedInv, WaiterInv, AloneInv,
              Id, NoId, Named, Waiting
<1> QED
  BY <1>1, <1>2, <1>3

-----------------------------------------------------------------------------
(* The turns.                                                               *)

Line == [role : {"operator", "queen"}, by : Nat, msg : Message \cup {""}]

\* The stages of a turn that reads a message and has not answered it.
Work   == {"setup", "model", "tools", "asking", "intent", "reply", "failed"}
Over   == {"leaving", "done"}
Before == {"none", "said", "queued"}

TurnTypes ==
    /\ talk \in [Thread -> Seq(Line)] /\ lock \in [Thread -> Seq(Turn)]
    /\ turn \in [Turn -> TurnState] /\ asks \in 0..MaxAsks

(* The first in the line for a thread's lock holds it, and only it is past   *)
(* the queue.                                                               *)
LockInv ==
    /\ \A t \in Turn : turn[t].pc # "none" => turn[t].th \in Thread
    /\ \A th \in Thread : \A i \in 1..Len(lock[th]) :
          LET u == lock[th][i] IN
          /\ turn[u].th = th /\ turn[u].pc \in Work \cup {"queued", "leaving"}
          /\ i > 1 => turn[u].pc = "queued"
    /\ \A th \in Thread : \A i, j \in 1..Len(lock[th]) : lock[th][i] = lock[th][j] => i = j
    /\ \A t \in Turn : turn[t].pc \in Work \cup {"queued", "leaving"} =>
          \E i \in 1..Len(lock[turn[t].th]) : lock[turn[t].th][i] = t

\* A turn that is over has spoken, or what raised has made it mute.
Spoken(r) == r.pc \in Over /\ ~r.lost
Mute(r)   == r.pc \in Over /\ r.lost

(* Whose answers a thread has.                                              *)
TalkInv ==
    /\ \A th \in Thread : \A i \in 1..Len(talk[th]) : talk[th][i].role = "queen" =>
          LET u == talk[th][i].by IN u \in Turn /\ Spoken(turn[u]) /\ turn[u].th = th
    /\ \A t \in Turn : turn[t].pc # "none" =>
          /\ turn[t].own \in 1..Len(talk[turn[t].th])
          /\ talk[turn[t].th][turn[t].own].role = "operator"
    /\ \A t \in Turn : turn[t].pc \notin Before /\ ~Mute(turn[t]) =>
          turn[t].read \in 1..Len(talk[turn[t].th]) /\ turn[t].read >= turn[t].own
    /\ \A t \in Turn : Spoken(turn[t]) =>
          \E i \in 1..Len(talk[turn[t].th]) : Answers(t) = {i} /\ i > turn[t].read

(* A turn in its loop has iterations left, one with tools has calls left.    *)
Runs(r) ==
    /\ r.stage = "loop" /\ r.pc \in Before \cup {"setup", "model", "tools", "asking"} => r.left > 0
    /\ r.pc \in {"tools", "asking"} => r.calls > 0
    /\ r.pc \in Before \cup {"setup", "model"} => r.stage # "intent"

TInv == TurnTypes /\ LockInv /\ TalkInv /\ \A t \in Turn : Runs(turn[t])

-----------------------------------------------------------------------------
(* The tool loop: what a turn is after what it did.                          *)

Follows(r, s) ==
    /\ s \in TurnState /\ s.pc \in Work /\ Runs(s)
    /\ s.th = r.th /\ s.own = r.own /\ s.read = r.read

LEMMA FollowUp ==
    ASSUME NEW r \in TurnState, NEW m
    PROVE  Follows(r, AfterFollowUp(r, m))
<1>1. CASE AfterFollowUp(r, m) = [r EXCEPT !.pc = "reply"]
  <2> DEFINE s == [r EXCEPT !.pc = "reply"]
  <2>1. /\ s \in TurnState /\ s.pc = "reply" /\ s.th = r.th /\ s.own = r.own /\ s.read = r.read
    BY DEF TurnState
  <2> HIDE DEF s
  <2> QED
    BY <1>1, <2>1 DEF Follows, Runs, Work, Before, s
<1>2. CASE AfterFollowUp(r, m) = [r EXCEPT !.pc = "model", !.stage = "cloud", !.cloud = TRUE]
  <2> DEFINE h == [r EXCEPT !.pc = "model", !.stage = "cloud"]
             s == [h EXCEPT !.cloud = TRUE]
  <2>1. /\ h \in TurnState /\ h.pc = "model" /\ h.stage = "cloud"
        /\ h.th = r.th /\ h.own = r.own /\ h.read = r.read
    BY DEF TurnState, Stage
  <2>2. AfterFollowUp(r, m) = s
    BY <1>2
  <2> HIDE DEF h
  <2>3. /\ s \in TurnState /\ s.pc = "model" /\ s.stage = "cloud"
        /\ s.th = r.th /\ s.own = r.own /\ s.read = r.read
    BY <2>1 DEF TurnState
  <2> HIDE DEF s
  <2> QED
    BY <2>2, <2>3 DEF Follows, Runs, Work, Before
<1> QED
  BY <1>1, <1>2 DEF AfterFollowUp

LEMMA Intent ==
    ASSUME NEW r \in TurnState, NEW m
    PROVE  Follows(r, AfterIntent(r, m))
<1>1. CASE AfterIntent(r, m) = AfterFollowUp(r, m)
  BY <1>1, FollowUp
<1>2. CASE AfterIntent(r, m) = [r EXCEPT !.pc = "model", !.stage = "followup", !.followed = TRUE]
  <2> DEFINE h == [r EXCEPT !.pc = "model", !.stage = "followup"]
             s == [h EXCEPT !.followed = TRUE]
  <2>1. /\ h \in TurnState /\ h.pc = "model" /\ h.stage = "followup"
        /\ h.th = r.th /\ h.own = r.own /\ h.read = r.read
    BY DEF TurnState, Stage
  <2>2. AfterIntent(r, m) = s
    BY <1>2
  <2> HIDE DEF h
  <2>3. /\ s \in TurnState /\ s.pc = "model" /\ s.stage = "followup"
        /\ s.th = r.th /\ s.own = r.own /\ s.read = r.read
    BY <2>1 DEF TurnState
  <2> HIDE DEF s
  <2> QED
    BY <2>2, <2>3 DEF Follows, Runs, Work, Before
<1> QED
  BY <1>1, <1>2 DEF AfterIntent

LEMMA Loop ==
    ASSUME NEW r \in TurnState, NEW m
    PROVE  Follows(r, AfterLoop(r, m))
<1>1. CASE AfterLoop(r, m) = AfterIntent(r, m)
  BY <1>1, Intent
<1>2. CASE AfterLoop(r, m) = [r EXCEPT !.pc = "intent"]
  <2> DEFINE s == [r EXCEPT !.pc = "intent"]
  <2>1. /\ s \in TurnState /\ s.pc = "intent" /\ s.th = r.th /\ s.own = r.own /\ s.read = r.read
    BY DEF TurnState
  <2> HIDE DEF s
  <2> QED
    BY <1>2, <2>1 DEF Follows, Runs, Work, Before, s
<1> QED
  BY <1>1, <1>2 DEF AfterLoop

LEMMA Iterates ==
    ASSUME NEW r \in TurnState, NEW m, r.left > 0, r.stage = "loop"
    PROVE  Follows(r, NextIteration(r, m))
<1> DEFINE h == [r EXCEPT !.left = @ - 1]
           s == [h EXCEPT !.pc = "model", !.prose = "short"]
<1>1. MaxIterations \in Nat
  BY QueenAssumption
<1>2. r.left \in 0..MaxIterations
  BY DEF TurnState
<1>3. r.left - 1 \in 0..MaxIterations
  BY <1>1, <1>2
<1>4. /\ h \in TurnState /\ h.stage = "loop" /\ h.left = r.left - 1
      /\ h.th = r.th /\ h.own = r.own /\ h.read = r.read
  BY <1>3 DEF TurnState
<1>5. NextIteration(r, m) = IF h.left > 0 THEN s ELSE AfterLoop(h, m)
  BY DEF NextIteration
<1> HIDE DEF h
<1>6. /\ s \in TurnState /\ s.pc = "model" /\ s.stage = "loop" /\ s.left = h.left
      /\ s.th = r.th /\ s.own = r.own /\ s.read = r.read
  BY <1>4 DEF TurnState
<1> HIDE DEF s
<1>7. CASE h.left > 0
  BY <1>5, <1>6, <1>7 DEF Follows, Runs, Work, Before
<1>8. CASE ~(h.left > 0)
  <2>1. Follows(h, AfterLoop(h, m))
    BY <1>4, Loop
  <2> QED
    BY <1>4, <1>5, <1>8, <2>1 DEF Follows
<1> QED
  BY <1>7, <1>8

LEMMA Tools ==
    ASSUME NEW r \in TurnState, NEW m, r.stage = "loop" => r.left > 0
    PROVE  Follows(r, AfterTools(r, m))
<1>1. CASE r.stage = "loop"
  <2> DEFINE h == [r EXCEPT !.looked = TRUE]
  <2>1. /\ h \in TurnState /\ h.stage = "loop" /\ h.left = r.left
        /\ h.th = r.th /\ h.own = r.own /\ h.read = r.read
    BY <1>1 DEF TurnState
  <2>2. AfterTools(r, m) = NextIteration(h, m)
    BY <1>1 DEF AfterTools
  <2> HIDE DEF h
  <2>3. Follows(h, NextIteration(h, m))
    BY <1>1, <2>1, Iterates
  <2> QED
    BY <2>1, <2>2, <2>3 DEF Follows
<1>2. CASE r.stage = "intent"
  BY <1>2, Intent DEF AfterTools
<1>3. CASE r.stage = "followup"
  BY <1>3, FollowUp DEF AfterTools
<1>4. CASE r.stage = "cloud"
  <2> DEFINE s == [r EXCEPT !.pc = "reply"]
  <2>1. /\ s \in TurnState /\ s.pc = "reply" /\ s.th = r.th /\ s.own = r.own /\ s.read = r.read
    BY DEF TurnState
  <2>2. AfterTools(r, m) = s
    BY <1>4 DEF AfterTools
  <2> HIDE DEF s
  <2> QED
    BY <2>1, <2>2 DEF Follows, Runs, Work, Before
<1>5. r.stage \in {"loop", "intent", "followup", "cloud"}
  BY DEF TurnState, Stage
<1> QED
  BY <1>1, <1>2, <1>3, <1>4, <1>5

LEMMA Failure ==
    ASSUME NEW r \in TurnState, NEW m, r.stage # "intent"
    PROVE  Follows(r, AfterFailure(r, m))
<1> DEFINE h == [r EXCEPT !.calls = 0]
<1>1. 0 \in 0..MaxCalls
  BY QueenAssumption
<1>2. /\ h \in TurnState /\ h.stage = r.stage
      /\ h.th = r.th /\ h.own = r.own /\ h.read = r.read
  BY <1>1 DEF TurnState
<1>3. /\ h.stage = "loop" => AfterFailure(r, m) = [h EXCEPT !.pc = "failed"]
      /\ h.stage = "followup" => AfterFailure(r, m) = AfterFollowUp(h, m)
      /\ h.stage = "cloud" => AfterFailure(r, m) = [h EXCEPT !.pc = "reply"]
  BY DEF AfterFailure
<1>4. r.stage \in {"loop", "followup", "cloud"}
  BY DEF TurnState, Stage
<1> HIDE DEF h
<1>5. CASE r.stage = "followup"
  <2>1. Follows(h, AfterFollowUp(h, m))
    BY <1>2, FollowUp
  <2> QED
    BY <1>2, <1>3, <1>5, <2>1 DEF Follows
<1>6. CASE r.stage \in {"loop", "cloud"}
  <2>1. PICK p \in {"failed", "reply"} : AfterFailure(r, m) = [h EXCEPT !.pc = p]
    BY <1>2, <1>3, <1>6
  <2> DEFINE s == [h EXCEPT !.pc = p]
  <2>2. /\ s \in TurnState /\ s.pc = p /\ s.th = r.th /\ s.own = r.own /\ s.read = r.read
    BY <1>2 DEF TurnState
  <2> HIDE DEF s
  <2> QED
    BY <2>1, <2>2 DEF Follows, Runs, Work, Before, s
<1> QED
  BY <1>4, <1>5, <1>6

-----------------------------------------------------------------------------
(* A turn at work keeps the lock and answers nothing yet.                    *)

\* What a thread's line for the lock is made of.
LEMMA InLine ==
    ASSUME TInv, NEW th \in Thread, NEW i \in 1..Len(lock[th])
    PROVE  /\ lock[th] \in Seq(Turn) /\ lock[th][i] \in Turn /\ turn[lock[th][i]].th = th
           /\ turn[lock[th][i]].pc \in Work \cup {"queued", "leaving"}
           /\ i > 1 => turn[lock[th][i]].pc = "queued"
<1>1. lock[th] \in Seq(Turn)
  BY DEF TInv, TurnTypes
<1>2. lock[th][i] \in Turn
  BY <1>1
<1> QED
  BY <1>1, <1>2 DEF TInv, LockInv

\* A turn that is past the queue is the first in the line.
LEMMA Holder ==
    ASSUME TInv, NEW t \in Turn, turn[t].pc \in Work \cup {"leaving"}
    PROVE  /\ turn[t].th \in Thread /\ lock[turn[t].th] \in Seq(Turn)
           /\ Len(lock[turn[t].th]) > 0 /\ lock[turn[t].th][1] = t /\ Head(lock[turn[t].th]) = t
<1>1. turn[t].pc # "none" /\ turn[t].pc # "queued"
  BY DEF Work
<1>2. turn[t].th \in Thread
  BY <1>1 DEF TInv, LockInv
<1>3. PICK i \in 1..Len(lock[turn[t].th]) : lock[turn[t].th][i] = t
  BY DEF TInv, LockInv
<1>4. lock[turn[t].th] \in Seq(Turn) /\ (i > 1 => turn[t].pc = "queued")
  BY <1>2, <1>3, InLine
<1>5. Len(lock[turn[t].th]) \in Nat
  BY <1>4
<1>6. i = 1 /\ Len(lock[turn[t].th]) > 0
  BY <1>1, <1>4, <1>5
<1>7. Head(lock[turn[t].th]) = lock[turn[t].th][1]
  BY <1>4, <1>6
<1> QED
  BY <1>2, <1>3, <1>4, <1>6, <1>7

\* What the lock says stays while its line does and what is in it does.
LEMMA LockKeeps ==
    ASSUME TInv, UNCHANGED lock,
           \A u \in Turn : /\ turn'[u].th = turn[u].th
                           /\ turn'[u].pc = "none" <=> turn[u].pc = "none"
                           /\ turn'[u].pc \in Work \cup {"queued", "leaving"} <=>
                                 turn[u].pc \in Work \cup {"queued", "leaving"},
           \A u \in Turn : \/ turn'[u].pc = turn[u].pc
                           \/ turn[u].pc \in Work \cup {"said"}
                           \/ turn[u].pc = "queued" /\ Head(lock[turn[u].th]) = u
    PROVE  LockInv'
<1>1. ASSUME NEW th \in Thread, NEW i \in 1..Len(lock[th])
      PROVE  /\ turn'[lock[th][i]].th = th
             /\ turn'[lock[th][i]].pc \in Work \cup {"queued", "leaving"}
             /\ i > 1 => turn'[lock[th][i]].pc = "queued"
  <2>1. /\ lock[th] \in Seq(Turn) /\ lock[th][i] \in Turn /\ turn[lock[th][i]].th = th
        /\ turn[lock[th][i]].pc \in Work \cup {"queued", "leaving"}
        /\ i > 1 => turn[lock[th][i]].pc = "queued"
    BY InLine
  <2>2. "queued" \notin Work /\ "said" \notin Work
    BY DEF Work
  <2>3. i > 1 => lock[th][i] # Head(lock[th])
    <3>1. Head(lock[th]) = lock[th][1] /\ 1 \in 1..Len(lock[th])
      BY <2>1
    <3> QED
      BY <3>1 DEF TInv, LockInv
  <2> QED
    BY <2>1, <2>2, <2>3
<1>2. \A u \in Turn : turn'[u].pc # "none" => turn'[u].th \in Thread
  BY DEF TInv, LockInv
<1>3. \A u \in Turn : turn'[u].pc \in Work \cup {"queued", "leaving"} =>
          \E i \in 1..Len(lock[turn'[u].th]) : lock[turn'[u].th][i] = u
  BY DEF TInv, LockInv
<1>4. \A th \in Thread : \A i, j \in 1..Len(lock[th]) : lock[th][i] = lock[th][j] => i = j
  BY DEF TInv, LockInv
<1> QED
  BY <1>1, <1>2, <1>3, <1>4 DEF LockInv, Work

\* What a thread says of its turns stays while nothing is said.
LEMMA TalkKeeps ==
    ASSUME TInv, UNCHANGED talk,
           \A u \in Turn : /\ turn'[u].th = turn[u].th /\ turn'[u].own = turn[u].own
                           /\ turn'[u].read = turn[u].read,
           \A u \in Turn : turn[u].pc \in Over => turn'[u].lost = turn[u].lost,
           \A u \in Turn : /\ turn'[u].pc \in Over <=> turn[u].pc \in Over
                           /\ turn'[u].pc \in Before <=> turn[u].pc \in Before
                           /\ turn'[u].pc = "none" <=> turn[u].pc = "none"
    PROVE  TalkInv'
<1>1. \A u \in Turn : Answers(u)' = Answers(u)
  BY DEF Answers
<1> DEFINE Same(u) == Spoken(turn'[u]) = Spoken(turn[u]) /\ Mute(turn'[u]) = Mute(turn[u])
<1>6. \A u \in Turn : Same(u)
  BY DEF Spoken, Mute
<1>2. \A th \in Thread : \A i \in 1..Len(talk[th]) : talk[th][i].role = "queen" =>
          /\ talk[th][i].by \in Turn /\ Spoken(turn'[talk[th][i].by])
          /\ turn'[talk[th][i].by].th = th
  BY <1>6 DEF TInv, TalkInv
<1>3. \A u \in Turn : turn'[u].pc # "none" =>
          /\ turn'[u].own \in 1..Len(talk[turn'[u].th])
          /\ talk[turn'[u].th][turn'[u].own].role = "operator"
  BY DEF TInv, TalkInv
<1>4. \A u \in Turn : turn'[u].pc \notin Before /\ ~Mute(turn'[u]) =>
          turn'[u].read \in 1..Len(talk[turn'[u].th]) /\ turn'[u].read >= turn'[u].own
  BY <1>6 DEF TInv, TalkInv
<1>5. \A u \in Turn : Spoken(turn'[u]) =>
          \E i \in 1..Len(talk[turn'[u].th]) : Answers(u)' = {i} /\ i > turn'[u].read
  BY <1>1, <1>6 DEF TInv, TalkInv
<1> QED
  BY <1>2, <1>3, <1>4, <1>5 DEF TalkInv

\* A turn that ends without a word leaves the thread as it is.
LEMMA MutedKeeps ==
    ASSUME TInv, NEW t \in Turn, turn[t].pc # "none", turn[t].pc \notin Over,
           UNCHANGED talk, \A u \in Turn : u # t => turn'[u] = turn[u],
           turn'[t].pc \in Over, turn'[t].lost,
           turn'[t].th = turn[t].th, turn'[t].own = turn[t].own
    PROVE  TalkInv'
<1>1. /\ ~Spoken(turn[t]) /\ ~Spoken(turn'[t]) /\ Mute(turn'[t])
      /\ \A u \in Turn : turn'[u].th = turn[u].th /\ turn'[u].own = turn[u].own
  BY DEF Spoken, Mute
<1>2. \A u \in Turn : u # t => Answers(u)' = Answers(u)
  BY DEF Answers
<1>3. \A th \in Thread : \A i \in 1..Len(talk[th]) : talk[th][i].role = "queen" =>
          /\ talk[th][i].by \in Turn /\ Spoken(turn'[talk[th][i].by])
          /\ turn'[talk[th][i].by].th = th
  BY <1>1 DEF TInv, TalkInv
<1>4. \A u \in Turn : turn'[u].pc # "none" =>
          /\ turn'[u].own \in 1..Len(talk[turn'[u].th])
          /\ talk[turn'[u].th][turn'[u].own].role = "operator"
  BY <1>1 DEF TInv, TalkInv
<1>5. \A u \in Turn : turn'[u].pc \notin Before /\ ~Mute(turn'[u]) =>
          turn'[u].read \in 1..Len(talk[turn'[u].th]) /\ turn'[u].read >= turn'[u].own
  BY <1>1 DEF TInv, TalkInv
<1>6. \A u \in Turn : Spoken(turn'[u]) =>
          \E i \in 1..Len(talk[turn'[u].th]) : Answers(u)' = {i} /\ i > turn'[u].read
  BY <1>1, <1>2 DEF TInv, TalkInv
<1> QED
  BY <1>3, <1>4, <1>5, <1>6 DEF TalkInv

LEMMA WorkKeeps ==
    ASSUME TInv, NEW t \in Turn, turn[t].pc \in Work, NEW s, Become(t, s), Follows(turn[t], s),
           UNCHANGED <<talk, lock>>, asks' \in 0..MaxAsks
    PROVE  TInv'
<1>1. /\ turn' \in [Turn -> TurnState] /\ turn'[t] = s
      /\ \A u \in Turn : u # t => turn'[u] = turn[u]
  BY DEF TInv, TurnTypes, Become, Follows
<1>2. /\ s.pc \in Work /\ Runs(s) /\ s.th = turn[t].th /\ s.own = turn[t].own
      /\ s.read = turn[t].read
  BY DEF Follows
<1>3. \A u \in Turn : /\ turn'[u].th = turn[u].th /\ turn'[u].own = turn[u].own
                      /\ turn'[u].read = turn[u].read
                      /\ turn'[u].pc = turn[u].pc \/ (u = t /\ turn'[u].pc \in Work)
  BY <1>1, <1>2
<1>4. TurnTypes'
  BY <1>1 DEF TInv, TurnTypes
<1>5. LockInv'
  <2>1. \A u \in Turn : /\ turn'[u].pc = "none" <=> turn[u].pc = "none"
                        /\ turn'[u].pc \in Work \cup {"queued", "leaving"} <=>
                              turn[u].pc \in Work \cup {"queued", "leaving"}
    BY <1>1, <1>2 DEF Work
  <2>2. \A u \in Turn : turn'[u].pc = turn[u].pc \/ turn[u].pc \in Work
    BY <1>1
  <2> QED
    BY <1>3, <2>1, <2>2, LockKeeps
<1>6. TalkInv'
  <2>1. \A u \in Turn : /\ turn'[u].pc \in Over <=> turn[u].pc \in Over
                        /\ turn'[u].pc \in Before <=> turn[u].pc \in Before
                        /\ turn'[u].pc = "none" <=> turn[u].pc = "none"
                        /\ turn[u].pc \in Over => turn'[u].lost = turn[u].lost
    <3>1. \A p \in Work : p \notin Over /\ p \notin Before /\ p # "none"
      BY DEF Work, Over, Before
    <3> QED
      BY <1>1, <1>2, <3>1
  <2> QED
    BY <1>3, <2>1, TalkKeeps
<1>7. \A u \in Turn : Runs(turn[u])'
  BY <1>1, <1>2 DEF TInv, Runs, Before
<1> QED
  BY <1>4, <1>5, <1>6, <1>7 DEF TInv

(* One call is over.                                                        *)
LEMMA CallKeeps ==
    ASSUME TInv, NEW t \in Turn, turn[t].pc \in {"tools", "asking"}, NEW s \in TurnState,
           s.pc = "tools", s.stage = turn[t].stage, s.left = turn[t].left, s.calls = turn[t].calls,
           s.th = turn[t].th, s.own = turn[t].own, s.read = turn[t].read,
           CallOver(t, s), UNCHANGED <<talk, lock>>, asks' \in 0..MaxAsks
    PROVE  TInv'
<1> DEFINE r == [s EXCEPT !.calls = @ - 1]
<1>1. /\ s.calls > 0 /\ s.calls \in 0..MaxCalls /\ MaxCalls \in Nat
      /\ s.stage = "loop" => s.left > 0
  BY QueenAssumption DEF TInv, Runs, TurnState
<1>2. s.calls - 1 \in 0..MaxCalls
  BY <1>1
<1>3. /\ r \in TurnState /\ r.pc = "tools" /\ r.stage = s.stage /\ r.left = s.left
      /\ r.th = s.th /\ r.own = s.own /\ r.read = s.read /\ r.calls = s.calls - 1
  BY <1>2 DEF TurnState
<1> DEFINE n == IF r.calls = 0 THEN AfterTools(r, Msg(t)) ELSE r
<1>4. Become(t, n)
  BY DEF CallOver
<1> HIDE DEF r
<1>5. Follows(turn[t], n)
  <2>1. CASE r.calls = 0
    <3>1. Follows(r, AfterTools(r, Msg(t)))
      BY <1>1, <1>3, Tools
    <3> QED
      BY <1>3, <2>1, <3>1 DEF Follows
  <2>2. CASE r.calls # 0
    <3>1. r.calls > 0
      BY <1>1, <1>3, <2>2
    <3>2. Runs(r)
      BY <1>1, <1>3, <3>1 DEF Runs, Before
    <3> QED
      BY <1>3, <2>2, <3>2 DEF Follows, Work
  <2> QED
    BY <2>1, <2>2
<1>6. turn[t].pc \in Work
  BY DEF Work
<1> HIDE DEF n
<1> QED
  BY <1>4, <1>5, <1>6, WorkKeeps

LEMMA SetUpKeeps ==
    ASSUME TInv, NEW t \in Turn, SetUp(t)
    PROVE  TInv'
<1>1. PICK cloud \in {FALSE, PlanningModel} :
          Become(t, [turn[t] EXCEPT !.pc = "model",
                        !.narrowed = ColonyTurn(Msg(t)) /\ turn[t].fresh, !.cloud = cloud])
  BY DEF SetUp
<1>2. /\ turn[t] \in TurnState /\ turn[t].pc = "setup" /\ Runs(turn[t])
      /\ UNCHANGED <<talk, lock, asks>>
  BY DEF SetUp, TInv, TurnTypes
<1>3. PICK narrow \in BOOLEAN : narrow = (ColonyTurn(Msg(t)) /\ turn[t].fresh)
  OBVIOUS
<1> DEFINE h == [turn[t] EXCEPT !.pc = "model", !.narrowed = narrow]
           s == [h EXCEPT !.cloud = cloud]
<1>4. cloud \in BOOLEAN
  BY QueenAssumption
<1>5. /\ h \in TurnState /\ h.pc = "model" /\ h.stage = turn[t].stage /\ h.left = turn[t].left
      /\ h.th = turn[t].th /\ h.own = turn[t].own /\ h.read = turn[t].read
  BY <1>2 DEF TurnState
<1>6. Become(t, s)
  BY <1>1, <1>3
<1> HIDE DEF h
<1>7. /\ s \in TurnState /\ s.pc = "model" /\ s.stage = turn[t].stage /\ s.left = turn[t].left
      /\ s.th = turn[t].th /\ s.own = turn[t].own /\ s.read = turn[t].read
  BY <1>4, <1>5 DEF TurnState
<1> HIDE DEF s
<1>8. Follows(turn[t], s)
  BY <1>2, <1>7 DEF Follows, Runs, Work, Before
<1>9. asks' \in 0..MaxAsks
  BY <1>2 DEF TInv, TurnTypes
<1> QED
  BY <1>2, <1>6, <1>8, <1>9, WorkKeeps DEF Work

LEMMA ModelKeeps ==
    ASSUME TInv, NEW t \in Turn,
           ModelFails(t) \/ \E n \in 0..MaxCalls, prose \in {"short", "full"} : ModelAnswers(t, n, prose)
    PROVE  TInv'
<1>1. /\ turn[t] \in TurnState /\ turn[t].pc = "model" /\ Runs(turn[t])
      /\ UNCHANGED <<talk, lock, asks>> /\ asks' \in 0..MaxAsks
  BY DEF ModelFails, ModelAnswers, TInv, TurnTypes
<1>2. turn[t].stage # "intent" /\ (turn[t].stage = "loop" => turn[t].left > 0)
  BY <1>1 DEF Runs
<1> SUFFICES \E s : Become(t, s) /\ Follows(turn[t], s)
  BY <1>1, WorkKeeps DEF Work
<1>3. CASE ModelFails(t)
  BY <1>1, <1>2, <1>3, Failure DEF ModelFails
<1>4. ASSUME NEW n \in 0..MaxCalls, NEW prose \in {"short", "full"}, ModelAnswers(t, n, prose)
      PROVE  \E s : Become(t, s) /\ Follows(turn[t], s)
  <2> DEFINE r == [turn[t] EXCEPT !.prose = prose]
             m == Msg(t)
  <2>1. /\ r \in TurnState /\ r.pc = "model" /\ r.stage = turn[t].stage /\ r.left = turn[t].left
        /\ r.th = turn[t].th /\ r.own = turn[t].own /\ r.read = turn[t].read
    BY <1>1 DEF TurnState
  <2>2. n \in Nat /\ MaxCalls \in Nat
    BY QueenAssumption
  <2>3. \/ n > 0 /\ Become(t, [r EXCEPT !.pc = "tools", !.calls = n])
        \/ r.stage = "loop" /\ Become(t, NextIteration([r EXCEPT !.followed = TRUE], m))
        \/ Become(t, AfterLoop(r, m))
        \/ r.stage # "loop" /\ Become(t, AfterTools(r, m))
    <3> DEFINE again == r.stage = "loop" /\ WantsFollowUp(r, m)
    <3>1. n > 0 \/ (n = 0 /\ again) \/ (n = 0 /\ ~again)
      BY <2>2
    <3>2. CASE n > 0
      BY <1>4, <3>2 DEF ModelAnswers
    <3>3. CASE n = 0 /\ again
      <4>1. ~(n > 0)
        BY <3>3
      <4> QED
        BY <1>4, <3>3, <4>1 DEF ModelAnswers
    <3>4. CASE n = 0 /\ ~again
      <4>1. ~(n > 0)
        BY <3>4
      <4>2. Become(t, IF r.stage = "loop" THEN AfterLoop(r, m) ELSE AfterTools(r, m))
        BY <1>4, <3>4, <4>1 DEF ModelAnswers
      <4> QED
        BY <4>2
    <3> QED
      BY <3>1, <3>2, <3>3, <3>4
  <2> HIDE DEF r
  <2>4. CASE n > 0 /\ Become(t, [r EXCEPT !.pc = "tools", !.calls = n])
    <3> DEFINE s == [r EXCEPT !.pc = "tools", !.calls = n]
    <3>1. /\ s \in TurnState /\ s.pc = "tools" /\ s.calls = n /\ s.stage = r.stage
          /\ s.left = r.left /\ s.th = r.th /\ s.own = r.own /\ s.read = r.read
      BY <2>1 DEF TurnState
    <3>2. Become(t, s)
      BY <2>4
    <3> HIDE DEF s
    <3>3. Follows(turn[t], s)
      BY <1>2, <2>1, <2>4, <3>1 DEF Follows, Runs, Work, Before
    <3> QED
      BY <3>2, <3>3
  <2>5. CASE r.stage = "loop" /\ Become(t, NextIteration([r EXCEPT !.followed = TRUE], m))
    <3> DEFINE h == [r EXCEPT !.followed = TRUE]
    <3>1. /\ h \in TurnState /\ h.stage = "loop" /\ h.left = r.left
          /\ h.th = r.th /\ h.own = r.own /\ h.read = r.read
      BY <2>1, <2>5 DEF TurnState
    <3>2. Become(t, NextIteration(h, m))
      BY <2>5
    <3> HIDE DEF h
    <3>3. Follows(h, NextIteration(h, m))
      BY <1>2, <2>1, <2>5, <3>1, Iterates
    <3>4. Follows(turn[t], NextIteration(h, m))
      BY <2>1, <3>1, <3>3 DEF Follows
    <3> QED
      BY <3>2, <3>4
  <2>6. CASE Become(t, AfterLoop(r, m))
    <3>1. Follows(r, AfterLoop(r, m))
      BY <2>1, Loop
    <3>2. Follows(turn[t], AfterLoop(r, m))
      BY <2>1, <3>1 DEF Follows
    <3> QED
      BY <2>6, <3>2
  <2>7. CASE r.stage # "loop" /\ Become(t, AfterTools(r, m))
    <3>1. Follows(r, AfterTools(r, m))
      BY <2>1, <2>7, Tools
    <3>2. Follows(turn[t], AfterTools(r, m))
      BY <2>1, <3>1 DEF Follows
    <3> QED
      BY <2>7, <3>2
  <2> QED
    BY <2>3, <2>4, <2>5, <2>6, <2>7
<1> QED
  BY <1>3, <1>4

LEMMA ToolsKeep ==
    ASSUME TInv, NEW t \in Turn,
           RunTool(t) \/ Spawns(t) \/ SpawnRefused(t) \/ ServiceAnswered(t)
    PROVE  TInv'
<1>1. /\ turn[t] \in TurnState /\ UNCHANGED <<talk, lock>> /\ asks' \in 0..MaxAsks
      /\ turn[t].pc \in {"tools", "asking"}
  BY DEF RunTool, Spawns, SpawnRefused, ServiceAnswered, NextCall, TInv, TurnTypes
<1>2. CASE turn[t].pc = "tools" /\ CallOver(t, turn[t])
  BY <1>1, <1>2, CallKeeps
<1>3. CASE turn[t].pc = "tools" /\ CallOver(t, Acting(t))
  <2> DEFINE s == [turn[t] EXCEPT !.acted = TRUE, !.prose = "short"]
  <2>1. /\ s \in TurnState /\ s.pc = turn[t].pc /\ s.stage = turn[t].stage
        /\ s.left = turn[t].left /\ s.calls = turn[t].calls
        /\ s.th = turn[t].th /\ s.own = turn[t].own /\ s.read = turn[t].read
    BY <1>1 DEF TurnState
  <2>2. CallOver(t, s)
    BY <1>3 DEF Acting
  <2> HIDE DEF s
  <2> QED
    BY <1>1, <1>3, <2>1, <2>2, CallKeeps
<1>4. CASE turn[t].pc = "asking" /\ CallOver(t, [turn[t] EXCEPT !.pc = "tools"])
  <2> DEFINE s == [turn[t] EXCEPT !.pc = "tools"]
  <2>1. /\ s \in TurnState /\ s.pc = "tools" /\ s.stage = turn[t].stage
        /\ s.left = turn[t].left /\ s.calls = turn[t].calls
        /\ s.th = turn[t].th /\ s.own = turn[t].own /\ s.read = turn[t].read
    BY <1>1 DEF TurnState
  <2>2. CallOver(t, s)
    BY <1>4
  <2> HIDE DEF s
  <2> QED
    BY <1>1, <1>4, <2>1, <2>2, CallKeeps
<1> QED
  BY <1>2, <1>3, <1>4 DEF RunTool, Spawns, SpawnRefused, ServiceAnswered, NextCall

\* No broken call is among those parsed from prose.
LEMMA BrokenToolKeeps ==
    ASSUME TInv, NEW t \in Turn, BrokenTool(t)
    PROVE  TInv'
<1>1. /\ turn[t] \in TurnState /\ turn[t].pc = "tools" /\ UNCHANGED <<talk, lock, asks>>
      /\ asks' \in 0..MaxAsks
  BY DEF BrokenTool, NextCall, TInv, TurnTypes
<1>2. turn[t].stage # "intent"
  <2> SUFFICES ASSUME turn[t].stage = "intent"
               PROVE  FALSE
    OBVIOUS
  <2>1. PICK asked \in {"look", "spawn", "preview", "act"} :
            "broken" = Sanitized(turn[t], Planned(turn[t], Msg(t), asked))
    BY DEF BrokenTool, NextCall
  <2>2. Planned(turn[t], Msg(t), asked) = asked
    BY DEF Planned
  <2> QED
    BY <2>1, <2>2 DEF Sanitized
<1>3. Become(t, AfterFailure(turn[t], Msg(t)))
  BY DEF BrokenTool
<1>4. Follows(turn[t], AfterFailure(turn[t], Msg(t)))
  BY <1>1, <1>2, Failure
<1> QED
  BY <1>1, <1>3, <1>4, WorkKeeps DEF Work

LEMMA AsksServiceKeeps ==
    ASSUME TInv, NEW t \in Turn, NEW s \in Stype, AsksService(t, s)
    PROVE  TInv'
<1>1. /\ turn[t] \in TurnState /\ turn[t].pc = "tools" /\ UNCHANGED <<talk, lock, asks>>
      /\ asks' \in 0..MaxAsks /\ Runs(turn[t])
  BY DEF AsksService, NextCall, TInv, TurnTypes
<1>2. CASE CallOver(t, turn[t])
  BY <1>1, <1>2, CallKeeps
<1>3. CASE Become(t, [turn[t] EXCEPT !.pc = "asking"])
  <2> DEFINE r == [turn[t] EXCEPT !.pc = "asking"]
  <2>1. /\ r \in TurnState /\ r.pc = "asking" /\ r.stage = turn[t].stage
        /\ r.left = turn[t].left /\ r.calls = turn[t].calls
        /\ r.th = turn[t].th /\ r.own = turn[t].own /\ r.read = turn[t].read
    BY <1>1 DEF TurnState
  <2>2. Become(t, r)
    BY <1>3
  <2> HIDE DEF r
  <2>3. Follows(turn[t], r)
    BY <1>1, <2>1 DEF Follows, Runs, Work, Before
  <2> QED
    BY <1>1, <2>2, <2>3, WorkKeeps DEF Work
<1> QED
  BY <1>2, <1>3 DEF AsksService

LEMMA ParsesKeeps ==
    ASSUME TInv, NEW t \in Turn, Parses(t)
    PROVE  TInv'
<1>1. /\ turn[t] \in TurnState /\ turn[t].pc = "intent" /\ UNCHANGED <<talk, lock, asks>>
      /\ asks' \in 0..MaxAsks
  BY DEF Parses, TInv, TurnTypes
<1>2. CASE Become(t, AfterIntent(turn[t], Msg(t)))
  <2>1. Follows(turn[t], AfterIntent(turn[t], Msg(t)))
    BY <1>1, Intent
  <2> QED
    BY <1>1, <1>2, <2>1, WorkKeeps DEF Work
<1>3. CASE Become(t, [turn[t] EXCEPT !.pc = "tools", !.stage = "intent", !.calls = 1])
  <2> DEFINE h == [turn[t] EXCEPT !.pc = "tools", !.stage = "intent"]
             r == [h EXCEPT !.calls = 1]
  <2>1. /\ h \in TurnState /\ h.pc = "tools" /\ h.stage = "intent"
        /\ h.th = turn[t].th /\ h.own = turn[t].own /\ h.read = turn[t].read
    BY <1>1 DEF TurnState, Stage
  <2>2. 1 \in 0..MaxCalls
    BY QueenAssumption
  <2>3. Become(t, r)
    BY <1>3
  <2> HIDE DEF h
  <2>4. /\ r \in TurnState /\ r.pc = "tools" /\ r.stage = "intent" /\ r.calls = 1
        /\ r.th = turn[t].th /\ r.own = turn[t].own /\ r.read = turn[t].read
    BY <2>1, <2>2 DEF TurnState
  <2> HIDE DEF r
  <2>5. Follows(turn[t], r)
    BY <2>4 DEF Follows, Runs, Work, Before
  <2> QED
    BY <1>1, <2>3, <2>5, WorkKeeps DEF Work
<1> QED
  BY <1>2, <1>3 DEF Parses

-----------------------------------------------------------------------------
(* A message is added to a thread.                                           *)

LEMMA LineAdded ==
    ASSUME NEW th \in Thread, NEW l \in Line, talk \in [Thread -> Seq(Line)],
           talk' = [talk EXCEPT ![th] = Append(@, l)]
    PROVE  /\ talk' \in [Thread -> Seq(Line)]
           /\ Len(talk[th]) \in Nat /\ Len(talk'[th]) = Len(talk[th]) + 1
           /\ talk'[th][Len(talk[th]) + 1] = l
           /\ \A x \in Thread : x # th => talk'[x] = talk[x]
           /\ \A x \in Thread : \A i \in 1..Len(talk[x]) :
                 i \in 1..Len(talk'[x]) /\ talk'[x][i] = talk[x][i]
<1>1. talk[th] \in Seq(Line) /\ talk'[th] = Append(talk[th], l)
  OBVIOUS
<1>2. \A x \in Thread : x # th => talk'[x] = talk[x]
  OBVIOUS
<1>3. /\ Append(talk[th], l) \in Seq(Line)
      /\ Len(talk[th]) \in Nat /\ Len(Append(talk[th], l)) = Len(talk[th]) + 1
      /\ Append(talk[th], l)[Len(talk[th]) + 1] = l
      /\ \A i \in 1..Len(talk[th]) : Append(talk[th], l)[i] = talk[th][i]
  BY <1>1
<1>4. talk' \in [Thread -> Seq(Line)]
  BY <1>3
<1>5. ASSUME NEW x \in Thread, NEW i \in 1..Len(talk[x])
      PROVE  i \in 1..Len(talk'[x]) /\ talk'[x][i] = talk[x][i]
  <2>1. CASE x = th
    <3>1. i \in 1..(Len(talk[th]) + 1)
      BY <1>3, <2>1
    <3> QED
      BY <1>1, <1>3, <2>1, <3>1
  <2>2. CASE x # th
    BY <1>2, <2>2
  <2> QED
    BY <2>1, <2>2
<1> QED
  BY <1>1, <1>2, <1>3, <1>4, <1>5

LEMMA Lines ==
    /\ \A m \in Message : Op(m) \in Line /\ Op(m).role = "operator"
    /\ \A t \in Turn : Answer(t) \in Line /\ Answer(t).role = "queen" /\ Answer(t).by = t
<1>1. ASSUME NEW m \in Message
      PROVE  Op(m) \in Line /\ Op(m).role = "operator"
  BY DEF Op, Line
<1>2. ASSUME NEW t \in Turn
      PROVE  Answer(t) \in Line /\ Answer(t).role = "queen" /\ Answer(t).by = t
  <2>1. t \in Nat
    BY QueenAssumption DEF Turn
  <2> QED
    BY <2>1 DEF Answer, Line
<1> QED
  BY <1>1, <1>2

LEMMA SaysKeeps ==
    ASSUME TInv, NEW t \in Turn, NEW th \in Thread, NEW m \in Message, Says(t, th, m)
    PROVE  TInv'
<1>1. /\ turn[t].pc = "none" /\ turn[t] \in TurnState /\ Runs(turn[t])
      /\ lock' = lock /\ asks' = asks
      /\ talk \in [Thread -> Seq(Line)] /\ talk' = [talk EXCEPT ![th] = Append(@, Op(m))]
      /\ Op(m) \in Line /\ Op(m).role = "operator"
  BY Lines DEF Says, TInv, TurnTypes
<1>2. /\ talk' \in [Thread -> Seq(Line)]
      /\ Len(talk[th]) \in Nat /\ Len(talk'[th]) = Len(talk[th]) + 1
      /\ talk'[th][Len(talk[th]) + 1] = Op(m)
      /\ \A x \in Thread : x # th => talk'[x] = talk[x]
      /\ \A x \in Thread : \A i \in 1..Len(talk[x]) :
            i \in 1..Len(talk'[x]) /\ talk'[x][i] = talk[x][i]
  BY <1>1, LineAdded
<1>3. PICK own \in Nat : own = Len(talk[th]) + 1
  BY <1>2
<1> DEFINE h == [turn[t] EXCEPT !.pc = "said", !.th = th]
           s == [h EXCEPT !.own = own]
<1>4. /\ h \in TurnState /\ h.pc = "said" /\ h.th = th
      /\ h.stage = turn[t].stage /\ h.left = turn[t].left /\ h.calls = turn[t].calls
  BY <1>1 DEF TurnState
<1>5. turn' = [turn EXCEPT ![t] = s]
  BY <1>3 DEF Says, Become
<1> HIDE DEF h
<1>6. /\ s \in TurnState /\ s.pc = "said" /\ s.th = th /\ s.own = own
      /\ s.stage = turn[t].stage /\ s.left = turn[t].left /\ s.calls = turn[t].calls
  BY <1>4 DEF TurnState
<1> HIDE DEF s
<1>7. /\ turn' \in [Turn -> TurnState] /\ turn'[t] = s
      /\ \A u \in Turn : u # t => turn'[u] = turn[u]
  BY <1>5, <1>6 DEF TInv, TurnTypes
<1>8. TurnTypes'
  BY <1>1, <1>2, <1>7 DEF TInv, TurnTypes
<1>9. LockInv'
  <2>1. \A x \in Thread : \A i \in 1..Len(lock[x]) : lock[x][i] \in Turn /\ lock[x][i] # t
    BY <1>1, InLine DEF Work
  <2>2. \A x \in Thread : \A i \in 1..Len(lock[x]) :
            /\ turn'[lock[x][i]].th = x
            /\ turn'[lock[x][i]].pc \in Work \cup {"queued", "leaving"}
            /\ i > 1 => turn'[lock[x][i]].pc = "queued"
    BY <1>7, <2>1, InLine
  <2>3. \A u \in Turn : turn'[u].pc # "none" => turn'[u].th \in Thread
    BY <1>6, <1>7 DEF TInv, LockInv
  <2>4. ASSUME NEW u \in Turn, turn'[u].pc \in Work \cup {"queued", "leaving"}
        PROVE  \E i \in 1..Len(lock[turn'[u].th]) : lock[turn'[u].th][i] = u
    <3>1. u # t
      BY <1>6, <1>7, <2>4 DEF Work
    <3> QED
      BY <1>7, <2>4, <3>1 DEF TInv, LockInv
  <2>5. \A x \in Thread : \A i, j \in 1..Len(lock[x]) : lock[x][i] = lock[x][j] => i = j
    BY DEF TInv, LockInv
  <2> QED
    BY <1>1, <2>2, <2>3, <2>4, <2>5 DEF LockInv, Work
<1>10. TalkInv'
  <2>1. ASSUME NEW x \in Thread, NEW i \in 1..Len(talk'[x]), talk'[x][i].role = "queen"
        PROVE  /\ talk'[x][i].by \in Turn /\ Spoken(turn'[talk'[x][i].by])
               /\ turn'[talk'[x][i].by].th = x
               /\ i \in 1..Len(talk[x])
    <3>1. i \in 1..Len(talk[x])
      <4>1. x # th => talk'[x] = talk[x]
        BY <1>2
      <4>2. CASE x = th
        <5>1. i # Len(talk[th]) + 1
          BY <1>1, <1>2, <2>1, <4>2
        <5> QED
          BY <1>2, <4>2, <5>1
      <4> QED
        BY <4>1, <4>2
    <3>2. talk'[x][i] = talk[x][i]
      BY <1>2, <3>1
    <3>3. /\ talk[x][i].by \in Turn /\ Spoken(turn[talk[x][i].by])
          /\ turn[talk[x][i].by].th = x
      BY <2>1, <3>1, <3>2 DEF TInv, TalkInv
    <3>4. ~Spoken(turn[t])
      BY <1>1 DEF Spoken, Over
    <3>5. talk[x][i].by # t
      BY <1>1, <3>3, <3>4
    <3> QED
      BY <1>7, <3>1, <3>2, <3>3, <3>5
  <2>2. ASSUME NEW u \in Turn, turn'[u].pc # "none"
        PROVE  /\ turn'[u].own \in 1..Len(talk'[turn'[u].th])
               /\ talk'[turn'[u].th][turn'[u].own].role = "operator"
    <3>1. CASE u = t
      <4>1. own \in 1..Len(talk'[th])
        BY <1>2, <1>3
      <4> QED
        BY <1>1, <1>2, <1>3, <1>6, <1>7, <3>1, <4>1
    <3>2. CASE u # t
      <4>1. /\ turn'[u] = turn[u] /\ turn[u].th \in Thread
            /\ turn[u].own \in 1..Len(talk[turn[u].th])
            /\ talk[turn[u].th][turn[u].own].role = "operator"
        BY <1>7, <2>2, <3>2 DEF TInv, LockInv, TalkInv
      <4> QED
        BY <1>2, <4>1
    <3> QED
      BY <3>1, <3>2
  <2>3. ASSUME NEW u \in Turn, turn'[u].pc \notin Before, ~Mute(turn'[u])
        PROVE  /\ u # t /\ turn'[u] = turn[u] /\ turn[u].th \in Thread /\ turn[u].pc # "none"
               /\ turn'[u].read \in 1..Len(talk'[turn'[u].th]) /\ turn'[u].read >= turn'[u].own
    <3>1. u # t
      BY <1>6, <1>7, <2>3 DEF Before
    <3>2. /\ turn'[u] = turn[u] /\ turn[u].pc \notin Before /\ turn[u].pc # "none"
          /\ ~Mute(turn[u])
      BY <1>7, <2>3, <3>1 DEF Before
    <3>3. /\ turn[u].th \in Thread
          /\ turn[u].read \in 1..Len(talk[turn[u].th]) /\ turn[u].read >= turn[u].own
      BY <3>2 DEF TInv, LockInv, TalkInv
    <3> QED
      BY <1>2, <3>1, <3>2, <3>3
  <2>4. ASSUME NEW u \in Turn, Spoken(turn'[u])
        PROVE  \E i \in 1..Len(talk'[turn'[u].th]) : Answers(u)' = {i} /\ i > turn'[u].read
    <3>1. u # t /\ turn'[u] = turn[u] /\ turn[u].th \in Thread /\ Spoken(turn[u])
      BY <2>3, <2>4 DEF Spoken, Mute, Over, Before
    <3>2. PICK i \in 1..Len(talk[turn[u].th]) : Answers(u) = {i} /\ i > turn[u].read
      BY <3>1 DEF TInv, TalkInv
    <3>3. /\ DOMAIN talk[turn[u].th] = 1..Len(talk[turn[u].th])
          /\ DOMAIN talk'[turn[u].th] = 1..Len(talk'[turn[u].th])
      BY <1>1, <1>2, <3>1
    <3>4. \A j \in 1..Len(talk'[turn[u].th]) :
              talk'[turn[u].th][j].role = "queen" => j \in 1..Len(talk[turn[u].th])
      BY <2>1, <3>1
    <3>5. PICK x \in Thread : x = turn[u].th
      BY <3>1
    <3>6. /\ \A j \in 1..Len(talk[x]) : j \in 1..Len(talk'[x]) /\ talk'[x][j] = talk[x][j]
          /\ \A j \in 1..Len(talk'[x]) : talk'[x][j].role = "queen" => j \in 1..Len(talk[x])
      BY <1>2, <3>4, <3>5
    <3>7. /\ Answers(u) = {j \in 1..Len(talk[x]) : talk[x][j].role = "queen" /\ talk[x][j].by = u}
          /\ Answers(u)' = {j \in 1..Len(talk'[x]) : talk'[x][j].role = "queen" /\ talk'[x][j].by = u}
      BY <3>1, <3>3, <3>5 DEF Answers
    <3>8. Answers(u)' = Answers(u)
      BY <3>6, <3>7
    <3> QED
      BY <1>2, <3>1, <3>2, <3>8
  <2> QED
    BY <2>1, <2>2, <2>3, <2>4 DEF TalkInv
<1>11. \A u \in Turn : Runs(turn[u])'
  BY <1>1, <1>6, <1>7 DEF TInv, Runs, Before
<1> QED
  BY <1>8, <1>9, <1>10, <1>11 DEF TInv

LEMMA QueuesKeeps ==
    ASSUME TInv, NEW t \in Turn, Queues(t)
    PROVE  TInv'
<1>1. /\ turn[t].pc = "said" /\ turn[t] \in TurnState /\ Runs(turn[t])
      /\ talk' = talk /\ asks' = asks /\ lock \in [Thread -> Seq(Turn)]
      /\ lock' = [lock EXCEPT ![turn[t].th] = Append(@, t)]
  BY DEF Queues, TInv, TurnTypes
<1>2. PICK th \in Thread : th = turn[t].th
  BY <1>1 DEF TInv, LockInv
<1> DEFINE s == [turn[t] EXCEPT !.pc = "queued"]
<1>3. turn' = [turn EXCEPT ![t] = s]
  BY DEF Queues, Become
<1>4. /\ s \in TurnState /\ s.pc = "queued" /\ s.th = th /\ s.own = turn[t].own
      /\ s.read = turn[t].read
      /\ s.stage = turn[t].stage /\ s.left = turn[t].left /\ s.calls = turn[t].calls
  BY <1>1, <1>2 DEF TurnState
<1> HIDE DEF s
<1>5. /\ turn' \in [Turn -> TurnState] /\ turn'[t] = s
      /\ \A u \in Turn : u # t => turn'[u] = turn[u]
  BY <1>3, <1>4 DEF TInv, TurnTypes
<1>6. /\ lock[th] \in Seq(Turn) /\ lock'[th] = Append(lock[th], t)
      /\ \A x \in Thread : x # th => lock'[x] = lock[x]
  BY <1>1, <1>2
<1>7. /\ lock'[th] \in Seq(Turn) /\ Len(lock[th]) \in Nat
      /\ Len(lock'[th]) = Len(lock[th]) + 1 /\ lock'[th][Len(lock[th]) + 1] = t
      /\ \A i \in 1..Len(lock[th]) : lock'[th][i] = lock[th][i]
  BY <1>6
<1>8. lock' \in [Thread -> Seq(Turn)]
  BY <1>1, <1>2, <1>6, <1>7
<1>9. TurnTypes'
  BY <1>1, <1>5, <1>8 DEF TInv, TurnTypes
<1>10. LockInv'
  <2>1. \A x \in Thread : \A i \in 1..Len(lock[x]) :
            /\ lock[x][i] \in Turn /\ lock[x][i] # t
            /\ turn'[lock[x][i]].th = x
            /\ turn'[lock[x][i]].pc \in Work \cup {"queued", "leaving"}
            /\ i > 1 => turn'[lock[x][i]].pc = "queued"
    <3>1. \A x \in Thread : \A i \in 1..Len(lock[x]) : lock[x][i] \in Turn /\ lock[x][i] # t
      BY <1>1, InLine DEF Work
    <3> QED
      BY <1>5, <3>1, InLine
  <2>2. ASSUME NEW x \in Thread, NEW i \in 1..Len(lock'[x])
        PROVE  /\ turn'[lock'[x][i]].th = x
               /\ turn'[lock'[x][i]].pc \in Work \cup {"queued", "leaving"}
               /\ i > 1 => turn'[lock'[x][i]].pc = "queued"
               /\ x # th \/ i # Len(lock[th]) + 1 =>
                     i \in 1..Len(lock[x]) /\ lock'[x][i] = lock[x][i]
    <3>1. CASE x = th /\ i = Len(lock[th]) + 1
      BY <1>4, <1>5, <1>7, <3>1
    <3>2. CASE ~(x = th /\ i = Len(lock[th]) + 1)
      <4>1. i \in 1..Len(lock[x]) /\ lock'[x][i] = lock[x][i]
        BY <1>6, <1>7, <3>2
      <4> QED
        BY <2>1, <3>2, <4>1
    <3> QED
      BY <3>1, <3>2
  <2>3. ASSUME NEW x \in Thread, NEW i \in 1..Len(lock'[x]), NEW j \in 1..Len(lock'[x]),
               lock'[x][i] = lock'[x][j]
        PROVE  i = j
    <3>1. CASE x # th \/ (i # Len(lock[th]) + 1 /\ j # Len(lock[th]) + 1)
      BY <2>2, <2>3, <3>1 DEF TInv, LockInv
    <3>2. CASE x = th /\ (i = Len(lock[th]) + 1 \/ j = Len(lock[th]) + 1)
      <4>1. lock'[th][i] = t /\ lock'[th][j] = t
        BY <1>7, <2>3, <3>2
      <4> QED
        BY <2>1, <2>2, <3>2, <4>1
    <3> QED
      BY <3>1, <3>2
  <2>4. \A u \in Turn : turn'[u].pc # "none" => turn'[u].th \in Thread
    BY <1>4, <1>5 DEF TInv, LockInv
  <2>5. ASSUME NEW u \in Turn, turn'[u].pc \in Work \cup {"queued", "leaving"}
        PROVE  \E i \in 1..Len(lock'[turn'[u].th]) : lock'[turn'[u].th][i] = u
    <3>1. CASE u = t
      <4>1. Len(lock[th]) + 1 \in 1..Len(lock'[th])
        BY <1>7
      <4> QED
        BY <1>4, <1>5, <1>7, <3>1, <4>1
    <3>2. CASE u # t
      <4>1. turn'[u] = turn[u] /\ turn[u].pc # "none"
        BY <1>5, <2>5, <3>2 DEF Work
      <4>2. PICK x \in Thread : x = turn[u].th
        BY <4>1 DEF TInv, LockInv
      <4>3. PICK i \in 1..Len(lock[x]) : lock[x][i] = u
        BY <2>5, <4>1, <4>2 DEF TInv, LockInv
      <4>4. i \in 1..Len(lock'[x]) /\ lock'[x][i] = u
        <5>1. CASE x = th
          BY <1>7, <4>3, <5>1
        <5>2. CASE x # th
          BY <1>6, <4>3, <5>2
        <5> QED
          BY <5>1, <5>2
      <4> QED
        BY <4>1, <4>2, <4>4
    <3> QED
      BY <3>1, <3>2
  <2> QED
    BY <2>2, <2>3, <2>4, <2>5 DEF LockInv, Work
<1>11. TalkInv'
  <2>1. \A u \in Turn : /\ turn'[u].th = turn[u].th /\ turn'[u].own = turn[u].own
                        /\ turn'[u].read = turn[u].read
    BY <1>2, <1>4, <1>5
  <2>2. \A u \in Turn : /\ turn'[u].pc \in Over <=> turn[u].pc \in Over
                        /\ turn'[u].pc \in Before <=> turn[u].pc \in Before
                        /\ turn'[u].pc = "none" <=> turn[u].pc = "none"
                        /\ turn[u].pc \in Over => turn'[u].lost = turn[u].lost
    BY <1>1, <1>4, <1>5 DEF Over, Before
  <2> QED
    BY <1>1, <2>1, <2>2, TalkKeeps
<1>12. \A u \in Turn : Runs(turn[u])'
  BY <1>1, <1>4, <1>5 DEF TInv, Runs, Before
<1> QED
  BY <1>9, <1>10, <1>11, <1>12 DEF TInv

LEMMA LastRead ==
    ASSUME TInv, NEW t \in Turn, turn[t].pc = "queued"
    PROVE  /\ LastOfThread(t) \in 1..Len(talk[turn[t].th])
           /\ LastOfThread(t) >= turn[t].own
<1>1. PICK th \in Thread : th = turn[t].th
  BY DEF TInv, LockInv
<1>2. /\ turn[t].own \in 1..Len(talk[th]) /\ talk[th][turn[t].own].role = "operator"
      /\ talk[th] \in Seq(Line)
  BY <1>1 DEF TInv, TalkInv, TurnTypes
<1>3. /\ Len(talk[th]) \in Nat
      /\ OperatorAt(th) \in SUBSET (1..Len(talk[th])) /\ turn[t].own \in OperatorAt(th)
  BY <1>2 DEF OperatorAt
<1>4. /\ OperatorAt(th) \in SUBSET Nat /\ OperatorAt(th) # {}
      /\ \A y \in OperatorAt(th) : y <= Len(talk[th])
  BY <1>3
<1>5. \E x \in OperatorAt(th) : \A y \in OperatorAt(th) : x >= y
  BY <1>3, <1>4, Greatest
<1>6. \E x \in OperatorAt(th) : \A y \in OperatorAt(th) : y <= x
  BY <1>4, <1>5
<1>7. /\ LastOfThread(t) \in OperatorAt(th)
      /\ \A y \in OperatorAt(th) : y <= LastOfThread(t)
  BY <1>1, <1>6 DEF LastOfThread
<1> QED
  BY <1>1, <1>3, <1>4, <1>7

LEMMA BeginsKeeps ==
    ASSUME TInv, NEW t \in Turn, Begins(t)
    PROVE  TInv'
<1>1. /\ turn[t].pc = "queued" /\ turn[t] \in TurnState /\ Runs(turn[t])
      /\ Head(lock[turn[t].th]) = t
      /\ talk' = talk /\ lock' = lock /\ asks' = asks
  BY DEF Begins, TInv, TurnTypes
<1>2. PICK read \in 1..Len(talk[turn[t].th]) : read = LastOfThread(t) /\ read >= turn[t].own
  BY <1>1, LastRead
<1>3. PICK fresh \in BOOLEAN :
          fresh = (\A i \in DOMAIN talk[turn[t].th] : talk[turn[t].th][i].role # "queen")
  OBVIOUS
<1>4. read \in Nat
  <2>1. talk[turn[t].th] \in Seq(Line)
    BY <1>1 DEF TInv, TurnTypes, LockInv
  <2> QED
    BY <2>1
<1> DEFINE h == [turn[t] EXCEPT !.pc = "setup", !.read = read]
           s == [h EXCEPT !.fresh = fresh]
<1>5. /\ h \in TurnState /\ h.pc = "setup" /\ h.read = read /\ h.th = turn[t].th
      /\ h.own = turn[t].own /\ h.stage = turn[t].stage /\ h.left = turn[t].left
      /\ h.calls = turn[t].calls
  BY <1>1, <1>4 DEF TurnState
<1>6. turn' = [turn EXCEPT ![t] = s]
  BY <1>2, <1>3 DEF Begins, Become
<1> HIDE DEF h
<1>7. /\ s \in TurnState /\ s.pc = "setup" /\ s.read = read /\ s.th = turn[t].th
      /\ s.own = turn[t].own /\ s.stage = turn[t].stage /\ s.left = turn[t].left
      /\ s.calls = turn[t].calls
  BY <1>5 DEF TurnState
<1> HIDE DEF s
<1>8. /\ turn' \in [Turn -> TurnState] /\ turn'[t] = s
      /\ \A u \in Turn : u # t => turn'[u] = turn[u]
  BY <1>6, <1>7 DEF TInv, TurnTypes
<1>9. TurnTypes'
  BY <1>1, <1>8 DEF TInv, TurnTypes
<1>10. LockInv'
  <2>1. \A u \in Turn : /\ turn'[u].th = turn[u].th
                        /\ turn'[u].pc = "none" <=> turn[u].pc = "none"
                        /\ turn'[u].pc \in Work \cup {"queued", "leaving"} <=>
                              turn[u].pc \in Work \cup {"queued", "leaving"}
    BY <1>1, <1>7, <1>8 DEF Work
  <2>2. \A u \in Turn : \/ turn'[u].pc = turn[u].pc
                        \/ turn[u].pc \in Work
                        \/ turn[u].pc = "queued" /\ Head(lock[turn[u].th]) = u
    BY <1>1, <1>8
  <2> QED
    BY <1>1, <2>1, <2>2, LockKeeps
<1>11. TalkInv'
  <2>1. \A u \in Turn : /\ turn'[u].th = turn[u].th /\ turn'[u].own = turn[u].own
                        /\ turn'[u].pc \in Over <=> turn[u].pc \in Over
                        /\ turn'[u].pc = "none" <=> turn[u].pc = "none"
                        /\ turn'[u].pc \in Over => turn'[u].read = turn[u].read
                        /\ Spoken(turn'[u]) = Spoken(turn[u]) /\ Mute(turn'[u]) = Mute(turn[u])
    BY <1>1, <1>7, <1>8 DEF Over, Spoken, Mute
  <2>2. \A u \in Turn : Answers(u)' = Answers(u)
    BY <1>1, <2>1 DEF Answers
  <2>3. \A th \in Thread : \A i \in 1..Len(talk[th]) : talk[th][i].role = "queen" =>
            /\ talk[th][i].by \in Turn /\ Spoken(turn'[talk[th][i].by])
            /\ turn'[talk[th][i].by].th = th
    BY <2>1 DEF TInv, TalkInv
  <2>4. \A u \in Turn : turn'[u].pc # "none" =>
            /\ turn'[u].own \in 1..Len(talk[turn'[u].th])
            /\ talk[turn'[u].th][turn'[u].own].role = "operator"
    BY <2>1 DEF TInv, TalkInv
  <2>5. ASSUME NEW u \in Turn, turn'[u].pc \notin Before, ~Mute(turn'[u])
        PROVE  turn'[u].read \in 1..Len(talk[turn'[u].th]) /\ turn'[u].read >= turn'[u].own
    <3>1. CASE u = t
      BY <1>2, <1>7, <1>8, <3>1
    <3>2. CASE u # t
      BY <1>8, <2>5, <3>2 DEF TInv, TalkInv
    <3> QED
      BY <3>1, <3>2
  <2>6. \A u \in Turn : Spoken(turn'[u]) =>
            \E i \in 1..Len(talk[turn'[u].th]) : Answers(u)' = {i} /\ i > turn'[u].read
    BY <2>1, <2>2 DEF TInv, TalkInv, Spoken
  <2> QED
    BY <1>1, <2>3, <2>4, <2>5, <2>6 DEF TalkInv
<1>12. \A u \in Turn : Runs(turn[u])'
  BY <1>1, <1>7, <1>8 DEF TInv, Runs, Before
<1> QED
  BY <1>9, <1>10, <1>11, <1>12 DEF TInv

\* What a turn keeps when it leaves.
LEMMA LeftTypes ==
    ASSUME NEW t \in Turn, turn[t] \in TurnState, NEW lost \in BOOLEAN
    PROVE  LET s == Left(t, lost) IN
           /\ s \in TurnState /\ s.pc = "leaving" /\ s.lost = lost
           /\ s.th = turn[t].th /\ s.own = turn[t].own /\ s.read = turn[t].read
<1> DEFINE h == [Idle EXCEPT !.pc = "leaving", !.th = turn[t].th]
           k == [h EXCEPT !.own = turn[t].own, !.read = turn[t].read]
           s == [k EXCEPT !.lost = lost]
<1>1. Idle \in TurnState
  BY QueenAssumption DEF Idle, TurnState, Stage
<1>2. h \in TurnState /\ h.pc = "leaving" /\ h.th = turn[t].th
  BY <1>1 DEF TurnState
<1>3. Left(t, lost) = s
  BY DEF Left
<1> HIDE DEF h
<1>4. /\ k \in TurnState /\ k.pc = "leaving" /\ k.th = turn[t].th
      /\ k.own = turn[t].own /\ k.read = turn[t].read
  BY <1>2 DEF TurnState
<1> HIDE DEF k
<1>5. /\ s \in TurnState /\ s.pc = "leaving" /\ s.th = turn[t].th /\ s.lost = lost
      /\ s.own = turn[t].own /\ s.read = turn[t].read
  BY <1>4 DEF TurnState
<1> QED
  BY <1>3, <1>5

\* A turn whose set-up raises, or whose emission does, leaves the lock like one
\* that has answered; one that is never asked has not been in the line.
LEMMA LossKeeps ==
    ASSUME TInv, NEW t \in Turn, NeverAsked(t) \/ SetUpRaises(t) \/ ReplyLost(t)
    PROVE  TInv'
<1>1. /\ turn[t] \in TurnState /\ talk' = talk /\ lock' = lock /\ asks' = asks
      /\ turn[t].pc \in Work \cup {"said"}
  BY DEF NeverAsked, SetUpRaises, ReplyLost, TInv, TurnTypes, Work
<1>2. PICK s \in TurnState : /\ turn' = [turn EXCEPT ![t] = s]
                             /\ s.th = turn[t].th /\ s.own = turn[t].own /\ s.lost
                             /\ s.pc = IF turn[t].pc = "said" THEN "done" ELSE "leaving"
  <2>1. CASE NeverAsked(t)
    <3> DEFINE h == [turn[t] EXCEPT !.pc = "done"]
               k == [h EXCEPT !.lost = TRUE]
    <3>1. h \in TurnState /\ h.pc = "done" /\ h.th = turn[t].th /\ h.own = turn[t].own
      BY <1>1 DEF TurnState
    <3>2. turn' = [turn EXCEPT ![t] = k] /\ turn[t].pc = "said"
      BY <2>1 DEF NeverAsked, Become
    <3> HIDE DEF h
    <3>3. k \in TurnState /\ k.pc = "done" /\ k.th = turn[t].th /\ k.own = turn[t].own /\ k.lost
      BY <3>1 DEF TurnState
    <3> QED
      BY <3>2, <3>3
  <2>2. CASE SetUpRaises(t) \/ ReplyLost(t)
    <3>1. turn' = [turn EXCEPT ![t] = Left(t, TRUE)] /\ turn[t].pc # "said"
      BY <2>2 DEF SetUpRaises, ReplyLost, Become
    <3> QED
      BY <1>1, <3>1, LeftTypes
  <2> QED
    BY <2>1, <2>2
<1>3. /\ turn' \in [Turn -> TurnState] /\ turn'[t] = s
      /\ \A u \in Turn : u # t => turn'[u] = turn[u]
  BY <1>2 DEF TInv, TurnTypes
<1>4. TurnTypes'
  BY <1>1, <1>3 DEF TInv, TurnTypes
<1>5. LockInv'
  <2>1. \A u \in Turn : /\ turn'[u].th = turn[u].th
                        /\ turn'[u].pc = "none" <=> turn[u].pc = "none"
                        /\ turn'[u].pc \in Work \cup {"queued", "leaving"} <=>
                              turn[u].pc \in Work \cup {"queued", "leaving"}
    BY <1>1, <1>2, <1>3 DEF Work
  <2>2. \A u \in Turn : turn'[u].pc = turn[u].pc \/ turn[u].pc \in Work \cup {"said"}
    BY <1>1, <1>3
  <2> QED
    BY <1>1, <2>1, <2>2, LockKeeps
<1>6. TalkInv'
  <2>1. turn[t].pc # "none" /\ turn[t].pc \notin Over /\ s.pc \in Over
    BY <1>1, <1>2 DEF Work, Over
  <2> QED
    BY <1>1, <1>2, <1>3, <2>1, MutedKeeps
<1>7. \A u \in Turn : Runs(turn[u])'
  <2>1. Runs(s)
    BY <1>2 DEF Runs, Before
  <2>2. \A u \in Turn : Runs(turn'[u])
    BY <1>3, <2>1 DEF TInv
  <2> QED
    BY <2>2 DEF Runs, Before
<1> QED
  BY <1>4, <1>5, <1>6, <1>7 DEF TInv

LEMMA RepliesKeeps ==
    ASSUME TInv, NEW t \in Turn, Replies(t)
    PROVE  TInv'
<1>1. /\ turn[t].pc \in {"reply", "failed"} /\ turn[t] \in TurnState
      /\ lock' = lock /\ asks' = asks /\ talk \in [Thread -> Seq(Line)]
      /\ talk' = [talk EXCEPT ![turn[t].th] = Append(@, Answer(t))]
      /\ Answer(t) \in Line /\ Answer(t).role = "queen" /\ Answer(t).by = t
  BY Lines DEF Replies, TInv, TurnTypes
<1>2. PICK th \in Thread : th = turn[t].th
  BY <1>1 DEF TInv, LockInv
<1>3. /\ talk' \in [Thread -> Seq(Line)]
      /\ Len(talk[th]) \in Nat /\ Len(talk'[th]) = Len(talk[th]) + 1
      /\ talk'[th][Len(talk[th]) + 1] = Answer(t)
      /\ \A x \in Thread : x # th => talk'[x] = talk[x]
      /\ \A x \in Thread : \A i \in 1..Len(talk[x]) :
            i \in 1..Len(talk'[x]) /\ talk'[x][i] = talk[x][i]
  BY <1>1, <1>2, LineAdded
<1> DEFINE s == Left(t, FALSE)
<1>6. turn' = [turn EXCEPT ![t] = s]
  BY <1>2 DEF Replies, Become
<1>7. /\ s \in TurnState /\ s.pc = "leaving" /\ s.th = th /\ ~s.lost
      /\ s.own = turn[t].own /\ s.read = turn[t].read
  BY <1>1, <1>2, LeftTypes
<1> HIDE DEF s
<1>8. /\ turn' \in [Turn -> TurnState] /\ turn'[t] = s
      /\ \A u \in Turn : u # t => turn'[u] = turn[u]
  BY <1>6, <1>7 DEF TInv, TurnTypes
<1>9. TurnTypes' /\ \A u \in Turn : Runs(turn[u])'
  <2>1. TurnTypes'
    BY <1>1, <1>3, <1>8 DEF TInv, TurnTypes
  <2>2. Runs(s)
    BY <1>7 DEF Runs, Before
  <2>3. \A u \in Turn : Runs(turn'[u])
    BY <1>8, <2>2 DEF TInv
  <2> QED
    BY <2>1, <2>3 DEF Runs, Before
<1>10. \A u \in Turn : /\ turn'[u].th = turn[u].th /\ turn'[u].own = turn[u].own
                       /\ turn'[u].read = turn[u].read
                       /\ turn'[u].pc \in Before <=> turn[u].pc \in Before
                       /\ turn'[u].pc = "none" <=> turn[u].pc = "none"
                       /\ Spoken(turn[u]) => Spoken(turn'[u])
                       /\ Mute(turn'[u]) <=> Mute(turn[u])
  BY <1>1, <1>2, <1>7, <1>8 DEF Before, Over, Spoken, Mute
<1>11. LockInv'
  <2>1. \A u \in Turn : /\ turn'[u].th = turn[u].th
                        /\ turn'[u].pc = "none" <=> turn[u].pc = "none"
                        /\ turn'[u].pc \in Work \cup {"queued", "leaving"} <=>
                              turn[u].pc \in Work \cup {"queued", "leaving"}
    BY <1>1, <1>2, <1>7, <1>8 DEF Work
  <2>2. \A u \in Turn : turn'[u].pc = turn[u].pc \/ turn[u].pc \in Work
    BY <1>1, <1>8 DEF Work
  <2> QED
    BY <1>1, <2>1, <2>2, LockKeeps
<1>12. TalkInv'
  <2>1. ASSUME NEW x \in Thread, NEW i \in 1..Len(talk'[x]),
               ~(x = th /\ i = Len(talk[th]) + 1)
        PROVE  i \in 1..Len(talk[x]) /\ talk'[x][i] = talk[x][i]
    <3>1. i \in 1..Len(talk[x])
      BY <1>3, <2>1
    <3> QED
      BY <1>3, <3>1
  <2>2. ASSUME NEW x \in Thread, NEW i \in 1..Len(talk'[x]), talk'[x][i].role = "queen"
        PROVE  /\ talk'[x][i].by \in Turn /\ Spoken(turn'[talk'[x][i].by])
               /\ turn'[talk'[x][i].by].th = x
    <3>1. CASE x = th /\ i = Len(talk[th]) + 1
      <4>1. talk'[x][i] = Answer(t)
        BY <1>3, <3>1
      <4> QED
        BY <1>1, <1>7, <1>8, <3>1, <4>1 DEF Spoken, Over
    <3>2. CASE ~(x = th /\ i = Len(talk[th]) + 1)
      <4>1. i \in 1..Len(talk[x]) /\ talk'[x][i] = talk[x][i]
        BY <2>1, <3>2
      <4> QED
        BY <1>10, <2>2, <4>1 DEF TInv, TalkInv
    <3> QED
      BY <3>1, <3>2
  <2>3. ASSUME NEW u \in Turn, turn'[u].pc # "none"
        PROVE  /\ turn'[u].own \in 1..Len(talk'[turn'[u].th])
               /\ talk'[turn'[u].th][turn'[u].own].role = "operator"
    <3>1. /\ turn[u].pc # "none" /\ turn[u].th \in Thread
          /\ turn[u].own \in 1..Len(talk[turn[u].th])
          /\ talk[turn[u].th][turn[u].own].role = "operator"
      BY <1>10, <2>3 DEF TInv, LockInv, TalkInv
    <3>2. /\ turn[u].own \in 1..Len(talk'[turn[u].th])
          /\ talk'[turn[u].th][turn[u].own] = talk[turn[u].th][turn[u].own]
      BY <1>3, <3>1
    <3> QED
      BY <1>10, <3>1, <3>2
  <2>4. ASSUME NEW u \in Turn, turn'[u].pc \notin Before, ~Mute(turn'[u])
        PROVE  turn'[u].read \in 1..Len(talk'[turn'[u].th]) /\ turn'[u].read >= turn'[u].own
    <3>1. turn[u].pc \notin Before /\ turn[u].pc # "none" /\ ~Mute(turn[u])
      BY <1>10, <2>4 DEF Before
    <3>2. /\ turn[u].th \in Thread
          /\ turn[u].read \in 1..Len(talk[turn[u].th]) /\ turn[u].read >= turn[u].own
      BY <3>1 DEF TInv, LockInv, TalkInv
    <3> QED
      BY <1>3, <1>10, <3>2
  <2>5. ASSUME NEW u \in Turn, Spoken(turn'[u])
        PROVE  \E i \in 1..Len(talk'[turn'[u].th]) : Answers(u)' = {i} /\ i > turn'[u].read
    <3>1. /\ turn[u].th \in Thread /\ turn[u].pc \notin Before /\ turn[u].pc # "none"
          /\ ~Mute(turn[u])
      BY <1>10, <2>5 DEF TInv, LockInv, Spoken, Mute, Over, Before
    <3>2. PICK x \in Thread : x = turn[u].th
      BY <3>1
    <3>3. DOMAIN talk[x] = 1..Len(talk[x]) /\ DOMAIN talk'[x] = 1..Len(talk'[x])
      BY <1>1, <1>3
    <3>4. Answers(u)' = {i \in 1..Len(talk'[x]) : talk'[x][i].role = "queen" /\ talk'[x][i].by = u}
      BY <1>10, <3>2, <3>3 DEF Answers
    <3>5. Answers(u) = {i \in 1..Len(talk[x]) : talk[x][i].role = "queen" /\ talk[x][i].by = u}
      BY <3>2, <3>3 DEF Answers
    <3>6. CASE u = t
      <4>1. x = th /\ ~Spoken(turn[t])
        BY <1>1, <1>2, <3>2, <3>6 DEF Spoken, Over
      <4>2. \A i \in 1..Len(talk[th]) : ~(talk[th][i].role = "queen" /\ talk[th][i].by = t)
        BY <4>1 DEF TInv, TalkInv
      <4>3. Len(talk[th]) + 1 \in 1..Len(talk'[th])
        BY <1>3
      <4>4. Answers(u)' = {Len(talk[th]) + 1}
        <5>1. ASSUME NEW i \in Answers(u)'
              PROVE  i = Len(talk[th]) + 1
          BY <2>1, <3>4, <3>6, <4>1, <4>2
        <5>2. Len(talk[th]) + 1 \in Answers(u)'
          BY <1>1, <1>3, <3>4, <3>6, <4>1, <4>3
        <5> QED
          BY <5>1, <5>2
      <4>5. turn[t].read \in 1..Len(talk[th])
        BY <1>2, <3>1, <3>6 DEF TInv, TalkInv
      <4>6. turn'[u].th = th /\ turn'[u].read = turn[t].read
        BY <1>7, <1>8, <3>6
      <4>7. Len(talk[th]) + 1 > turn[t].read
        BY <1>3, <4>5
      <4> QED
        BY <4>3, <4>4, <4>6, <4>7
    <3>7. CASE u # t
      <4>1. Spoken(turn[u]) /\ turn'[u] = turn[u]
        BY <1>8, <2>5, <3>7
      <4>2. PICK i \in 1..Len(talk[x]) : Answers(u) = {i} /\ i > turn[u].read
        BY <3>2, <4>1 DEF TInv, TalkInv
      <4>3. i \in 1..Len(talk'[x])
        BY <1>3
      <4>4. Answers(u)' = Answers(u)
        <5>1. ASSUME NEW j \in 1..Len(talk'[x]), talk'[x][j].role = "queen", talk'[x][j].by = u
              PROVE  j \in 1..Len(talk[x]) /\ talk'[x][j] = talk[x][j]
          <6>1. ~(x = th /\ j = Len(talk[th]) + 1)
            BY <1>1, <1>3, <3>7, <5>1
          <6> QED
            BY <2>1, <6>1
        <5>2. \A j \in 1..Len(talk[x]) : j \in 1..Len(talk'[x]) /\ talk'[x][j] = talk[x][j]
          BY <1>3
        <5> QED
          BY <3>4, <3>5, <5>1, <5>2
      <4> QED
        BY <3>2, <4>1, <4>2, <4>3, <4>4
    <3> QED
      BY <3>6, <3>7
  <2> QED
    BY <2>2, <2>3, <2>4, <2>5 DEF TalkInv
<1> QED
  BY <1>9, <1>11, <1>12 DEF TInv

LEMMA LeavesKeeps ==
    ASSUME TInv, NEW t \in Turn, Leaves(t)
    PROVE  TInv'
<1>1. /\ turn[t].pc = "leaving" /\ turn[t] \in TurnState
      /\ talk' = talk /\ asks' = asks /\ lock \in [Thread -> Seq(Turn)]
      /\ lock' = [lock EXCEPT ![turn[t].th] = Tail(@)]
  BY DEF Leaves, TInv, TurnTypes
<1>2. PICK th \in Thread : th = turn[t].th
  BY <1>1 DEF TInv, LockInv
<1>3. lock[th] \in Seq(Turn) /\ Len(lock[th]) > 0 /\ lock[th][1] = t
  BY <1>1, <1>2, Holder
<1> DEFINE s == [turn[t] EXCEPT !.pc = "done"]
<1>4. turn' = [turn EXCEPT ![t] = s]
  BY DEF Leaves, Become
<1>5. /\ s \in TurnState /\ s.pc = "done" /\ s.th = th /\ s.own = turn[t].own
      /\ s.read = turn[t].read /\ s.lost = turn[t].lost
  BY <1>1, <1>2 DEF TurnState
<1> HIDE DEF s
<1>6. /\ turn' \in [Turn -> TurnState] /\ turn'[t] = s
      /\ \A u \in Turn : u # t => turn'[u] = turn[u]
  BY <1>4, <1>5 DEF TInv, TurnTypes
<1>7. lock'[th] = Tail(lock[th]) /\ \A x \in Thread : x # th => lock'[x] = lock[x]
  BY <1>1, <1>2
<1>8. /\ lock'[th] \in Seq(Turn) /\ Len(lock[th]) \in Nat
      /\ Len(lock'[th]) = Len(lock[th]) - 1
      /\ \A i \in 1..(Len(lock[th]) - 1) : lock'[th][i] = lock[th][i + 1]
  BY <1>3, <1>7
<1>9. lock' \in [Thread -> Seq(Turn)]
  BY <1>1, <1>2, <1>7, <1>8
<1>10. TurnTypes'
  BY <1>1, <1>6, <1>9 DEF TInv, TurnTypes
<1>11. LockInv'
  <2>1. ASSUME NEW x \in Thread, NEW i \in 1..Len(lock'[x])
        PROVE  \E j \in 1..Len(lock[x]) : /\ lock'[x][i] = lock[x][j]
                                          /\ j = IF x = th THEN i + 1 ELSE i
    <3>1. CASE x = th
      <4>1. i \in 1..(Len(lock[th]) - 1)
        BY <1>8, <2>1, <3>1
      <4>2. i + 1 \in 1..Len(lock[th]) /\ lock'[th][i] = lock[th][i + 1]
        BY <1>8, <4>1
      <4> QED
        BY <3>1, <4>2
    <3>2. CASE x # th
      BY <1>7, <3>2
    <3> QED
      BY <3>1, <3>2
  <2>2. \A x \in Thread : \A j \in 1..Len(lock[x]) :
            /\ lock[x][j] \in Turn /\ turn[lock[x][j]].th = x
            /\ turn[lock[x][j]].pc \in Work \cup {"queued", "leaving"}
            /\ j > 1 => turn[lock[x][j]].pc = "queued"
    BY InLine
  <2>3. ASSUME NEW x \in Thread, NEW i \in 1..Len(lock'[x])
        PROVE  /\ turn'[lock'[x][i]].th = x
               /\ turn'[lock'[x][i]].pc \in Work \cup {"queued", "leaving"}
               /\ i > 1 => turn'[lock'[x][i]].pc = "queued"
    <3>1. PICK j \in 1..Len(lock[x]) : /\ lock'[x][i] = lock[x][j]
                                       /\ j = IF x = th THEN i + 1 ELSE i
      BY <2>1
    <3>2. i \in Nat /\ i >= 1
      <4>1. lock'[x] \in Seq(Turn)
        BY <1>9
      <4> QED
        BY <4>1
    <3>3. CASE x = th
      <4>1. j > 1 /\ j = i + 1
        BY <3>1, <3>2, <3>3
      <4>2. turn[lock[x][j]].pc = "queued" /\ lock[x][j] # t
        BY <1>1, <2>2, <4>1
      <4> QED
        BY <1>6, <2>2, <3>1, <4>2
    <3>4. CASE x # th
      <4>1. lock[x][j] # t
        BY <1>2, <2>2, <3>4
      <4>2. turn'[lock'[x][i]] = turn[lock[x][j]]
        BY <1>6, <2>2, <3>1, <4>1
      <4> QED
        BY <2>2, <3>1, <3>4, <4>2
    <3> QED
      BY <3>3, <3>4
  <2>4. ASSUME NEW x \in Thread, NEW i \in 1..Len(lock'[x]), NEW k \in 1..Len(lock'[x]),
               lock'[x][i] = lock'[x][k]
        PROVE  i = k
    <3>1. PICK j \in 1..Len(lock[x]) : /\ lock'[x][i] = lock[x][j]
                                       /\ j = IF x = th THEN i + 1 ELSE i
      BY <2>1
    <3>2. PICK l \in 1..Len(lock[x]) : /\ lock'[x][k] = lock[x][l]
                                       /\ l = IF x = th THEN k + 1 ELSE k
      BY <2>1
    <3>3. \A y, z \in 1..Len(lock[x]) : lock[x][y] = lock[x][z] => y = z
      BY DEF TInv, LockInv
    <3>4. lock[x][j] = lock[x][l]
      BY <2>4, <3>1, <3>2
    <3>5. j = l
      BY <3>3, <3>4
    <3>6. i \in Nat /\ k \in Nat
      <4>1. lock'[x] \in Seq(Turn)
        BY <1>9
      <4> QED
        BY <4>1
    <3> QED
      BY <3>1, <3>2, <3>5, <3>6
  <2>5. \A u \in Turn : turn'[u].pc # "none" => turn'[u].th \in Thread
    BY <1>5, <1>6 DEF TInv, LockInv
  <2>6. ASSUME NEW u \in Turn, turn'[u].pc \in Work \cup {"queued", "leaving"}
        PROVE  \E i \in 1..Len(lock'[turn'[u].th]) : lock'[turn'[u].th][i] = u
    <3>1. u # t
      BY <1>5, <1>6, <2>6 DEF Work
    <3>2. turn'[u] = turn[u] /\ turn[u].pc # "none"
      BY <1>6, <2>6, <3>1 DEF Work
    <3>3. PICK x \in Thread : x = turn[u].th
      BY <3>2 DEF TInv, LockInv
    <3>4. PICK j \in 1..Len(lock[x]) : lock[x][j] = u
      BY <2>6, <3>2, <3>3 DEF TInv, LockInv
    <3>5. CASE x = th
      <4>1. j # 1
        BY <1>3, <3>1, <3>4, <3>5
      <4>2. j - 1 \in 1..(Len(lock[th]) - 1) /\ (j - 1) + 1 = j
        BY <1>8, <3>4, <3>5, <4>1
      <4>3. lock'[th][j - 1] = u /\ j - 1 \in 1..Len(lock'[th])
        BY <1>8, <3>4, <3>5, <4>2
      <4> QED
        BY <3>2, <3>3, <3>5, <4>3
    <3>6. CASE x # th
      BY <1>7, <3>2, <3>3, <3>4, <3>6
    <3> QED
      BY <3>5, <3>6
  <2> QED
    BY <2>3, <2>4, <2>5, <2>6 DEF LockInv, Work
<1>12. TalkInv'
  <2>1. \A u \in Turn : /\ turn'[u].th = turn[u].th /\ turn'[u].own = turn[u].own
                        /\ turn'[u].read = turn[u].read
    BY <1>2, <1>5, <1>6
  <2>2. \A u \in Turn : /\ turn'[u].pc \in Over <=> turn[u].pc \in Over
                        /\ turn'[u].pc \in Before <=> turn[u].pc \in Before
                        /\ turn'[u].pc = "none" <=> turn[u].pc = "none"
                        /\ turn[u].pc \in Over => turn'[u].lost = turn[u].lost
    BY <1>1, <1>5, <1>6 DEF Over, Before
  <2> QED
    BY <1>1, <2>1, <2>2, TalkKeeps
<1>13. \A u \in Turn : Runs(turn[u])'
  <2>1. Runs(s)
    BY <1>5 DEF Runs, Before
  <2>2. \A u \in Turn : Runs(turn'[u])
    BY <1>6, <2>1 DEF TInv
  <2> QED
    BY <2>2 DEF Runs, Before
<1> QED
  BY <1>10, <1>11, <1>12, <1>13 DEF TInv

-----------------------------------------------------------------------------
(* Every step.                                                               *)

LEMMA TurnsStart == QueenInit => TInv
<1> SUFFICES ASSUME QueenInit PROVE TInv
  OBVIOUS
<1>1. /\ talk = [th \in Thread |-> <<>>] /\ lock = [th \in Thread |-> <<>>]
      /\ turn = [t \in Turn |-> Idle] /\ asks = 0
  BY DEF QueenInit
<1>2. /\ Idle \in TurnState /\ Idle.pc = "none" /\ Idle.stage = "loop"
      /\ Idle.left = MaxIterations /\ MaxIterations > 0
  BY QueenAssumption DEF Idle, TurnState, Stage
<1>3. /\ \A th \in Thread : talk[th] = <<>> /\ lock[th] = <<>> /\ Len(talk[th]) = 0
                            /\ Len(lock[th]) = 0
      /\ \A t \in Turn : turn[t] = Idle
  BY <1>1
<1>4. TurnTypes
  <2>1. 0 \in 0..MaxAsks
    BY QueenAssumption
  <2> QED
    BY <1>1, <1>2, <2>1 DEF TurnTypes
<1>5. LockInv
  BY <1>2, <1>3 DEF LockInv, Work
<1>6. TalkInv
  BY <1>2, <1>3 DEF TalkInv, Spoken, Over, Before
<1>7. \A t \in Turn : Runs(turn[t])
  BY <1>2, <1>3 DEF Runs, Before
<1> QED
  BY <1>4, <1>5, <1>6, <1>7 DEF TInv

LEMMA IdleKeeps ==
    ASSUME TInv, UNCHANGED <<talk, lock, turn>>, asks' \in 0..MaxAsks
    PROVE  TInv'
<1>1. talk' = talk /\ lock' = lock /\ turn' = turn
  OBVIOUS
<1>2. TurnTypes'
  BY <1>1 DEF TInv, TurnTypes
<1>3. LockInv'
  BY <1>1, LockKeeps
<1>4. TalkInv'
  BY <1>1, TalkKeeps
<1>5. \A t \in Turn : Runs(turn[t])'
  BY <1>1 DEF TInv, Runs, Before
<1> QED
  BY <1>2, <1>3, <1>4, <1>5 DEF TInv

LEMMA TurnStepKeeps ==
    ASSUME TInv, NEW t \in Turn, TurnStep(t)
    PROVE  TInv'
BY LossKeeps, QueuesKeeps, BeginsKeeps, SetUpKeeps, ModelKeeps, ToolsKeep, BrokenToolKeeps,
   AsksServiceKeeps, ParsesKeeps, RepliesKeeps, LeavesKeeps
DEF TurnStep

IInv == RInv /\ TInv

LEMMA InitIInv == Init => IInv
BY RouterStarts, TurnsStart DEF Init, IInv

LEMMA StepIInv ==
    ASSUME IInv, [Next]_vars
    PROVE  IInv'
<1>1. RInv /\ TInv /\ asks \in 0..MaxAsks
  BY DEF IInv, TInv, TurnTypes
<1>2. ASSUME NEW t \in Turn, NEW th \in Thread, NEW m \in Message, Says(t, th, m)
      PROVE  IInv'
  <2>1. UNCHANGED routerVars
    BY <1>2 DEF Says, Quiet
  <2> QED
    BY <1>1, <1>2, <2>1, SaysKeeps, RouterStepKeeps DEF IInv
<1>3. ASSUME NEW t \in Turn, TurnStep(t)
      PROVE  IInv'
  <2>1. UNCHANGED routerVars \/ \E s \in Stype : Query(t, s)
    BY <1>3 DEF TurnStep, NeverAsked, Queues, Begins, SetUp, SetUpRaises, ModelFails, ModelAnswers,
                RunTool, Spawns, SpawnRefused, BrokenTool, AsksService, ServiceAnswered, Parses,
                Replies, ReplyLost, Leaves, Quiet
  <2>2. t \in Caller
    BY QueenAssumption DEF Turn
  <2>3. RInv'
    BY <1>1, <2>1, <2>2, RouterStepKeeps
  <2> QED
    BY <1>1, <1>3, <2>3, TurnStepKeeps DEF IInv
<1>4. ASSUME NEW c \in Caller, RouterSteps(c)
      PROVE  IInv'
  <2>1. RInv'
    BY <1>1, <1>4, RouterStepKeeps DEF RouterSteps
  <2>2. TInv'
    BY <1>1, <1>4, IdleKeeps DEF RouterSteps, queenVars
  <2> QED
    BY <2>1, <2>2 DEF IInv
<1>5. ASSUME NEW a \in Agent, (\E s \in Stype : AgentAsks(a, s)) \/ AgentCancelled(a)
      PROVE  IInv'
  <2>1. a \in Caller
    BY DEF Agent
  <2>2. RInv'
    BY <1>1, <1>5, <2>1, RouterStepKeeps DEF AgentAsks, AgentCancelled
  <2>3. asks' \in 0..MaxAsks
    BY <1>1, <1>5, QueenAssumption DEF AgentAsks, AgentCancelled, queenVars
  <2>4. TInv'
    BY <1>1, <1>5, <2>3, IdleKeeps DEF AgentAsks, AgentCancelled, queenVars
  <2> QED
    BY <2>2, <2>4 DEF IInv
<1>6. ASSUME RouterEnv /\ UNCHANGED queenVars
      PROVE  IInv'
  BY <1>1, <1>6, RouterStepKeeps, IdleKeeps DEF IInv, queenVars
<1>7. ASSUME UNCHANGED vars
      PROVE  IInv'
  BY <1>1, <1>7, RouterStepKeeps, IdleKeeps DEF IInv, vars, queenVars
<1> QED
  BY <1>2, <1>3, <1>4, <1>5, <1>6, <1>7 DEF Next

LEMMA Invariant == FairSpec => []IInv
<1>1. Init => IInv
  BY InitIInv
<1>2. IInv /\ [Next]_vars => IInv'
  BY StepIInv
<1> QED
  BY <1>1, <1>2, PTL DEF FairSpec

\* A turn and a query have the records they should have, the lines of a thread
\* are an operator's or the Queen's, and the bound on agents' queries holds.
THEOREM TypeCorrect == FairSpec => []TypeOK
<1>1. IInv => TypeOK
  <2> SUFFICES ASSUME IInv PROVE TypeOK
    OBVIOUS
  <2>1. \A th \in Thread : \A i \in DOMAIN talk[th] : talk[th][i].role \in {"operator", "queen"}
    <3> SUFFICES ASSUME NEW th \in Thread, NEW i \in DOMAIN talk[th]
                 PROVE  talk[th][i].role \in {"operator", "queen"}
      OBVIOUS
    <3>1. talk[th] \in Seq(Line)
      BY DEF IInv, TInv, TurnTypes
    <3>2. talk[th][i] \in Line
      BY <3>1
    <3> QED
      BY <3>2 DEF Line
  <2> QED
    BY <2>1 DEF TypeOK, IInv, RInv, TInv, TurnTypes
<1> QED
  BY <1>1, Invariant, PTL

\* What a query leaves in the router is what a query that still waits needs, for
\* any number of callers, colonies and clock readings, whatever is cancelled,
\* times out, raises or is answered twice.
THEOREM RouterIsClean == FairSpec => []RouterClean
<1>1. IInv => RouterClean
  BY DEF IInv, RInv, WaiterInv, AloneInv, RouterClean, Waiting
<1> QED
  BY <1>1, Invariant, PTL

\* Of the turns that are over each has answered once, after a message no older
\* than the one it was started for, or raised where that takes its answer and has
\* said nothing; one that is not over has not answered; the turns of a thread do
\* not overlap and none that is over stands in the line for its lock: for any
\* threads, messages, tools and iterations, whatever raises.
THEOREM AnswerCoversMessage == FairSpec => []AnswerCovers
<1>1. IInv => AnswerCovers
  <2> SUFFICES ASSUME IInv, NEW t \in Turn, turn[t].pc # "none"
               PROVE  /\ Spoken(turn[t]) =>
                            /\ Cardinality(Answers(t)) = 1
                            /\ turn[t].read >= turn[t].own
                            /\ \A i \in Answers(t) : i > turn[t].read
                      /\ turn[t].pc \notin Over \/ turn[t].lost => Answers(t) = {}
                      /\ turn[t].pc \notin {"said", "queued", "done"} =>
                            Head(lock[turn[t].th]) = t
                      /\ turn[t].pc = "done" =>
                            \A i \in DOMAIN lock[turn[t].th] : lock[turn[t].th][i] # t
    BY DEF AnswerCovers, Spoken, Over
  <2>1. TInv
    BY DEF IInv
  <2>2. turn[t].th \in Thread /\ turn[t] \in TurnState
    BY <2>1 DEF TInv, LockInv, TurnTypes
  <2>3. ASSUME Spoken(turn[t])
        PROVE  /\ Cardinality(Answers(t)) = 1 /\ turn[t].read >= turn[t].own
               /\ \A i \in Answers(t) : i > turn[t].read
    <3>1. PICK i \in 1..Len(talk[turn[t].th]) : Answers(t) = {i} /\ i > turn[t].read
      BY <2>1, <2>3 DEF TInv, TalkInv
    <3>2. Cardinality({i}) = 1
      BY FS_Singleton
    <3>3. turn[t].read >= turn[t].own
      BY <2>1, <2>3 DEF TInv, TalkInv, Spoken, Mute, Over, Before
    <3> QED
      BY <3>1, <3>2, <3>3
  <2>4. ASSUME turn[t].pc \notin Over \/ turn[t].lost
        PROVE  Answers(t) = {}
    <3>1. talk[turn[t].th] \in Seq(Line)
      BY <2>1, <2>2 DEF TInv, TurnTypes
    <3>2. ~Spoken(turn[t])
      BY <2>4 DEF Spoken
    <3> QED
      BY <2>1, <2>2, <3>1, <3>2 DEF TInv, TalkInv, Answers
  <2>5. turn[t].pc \notin {"said", "queued", "done"} => Head(lock[turn[t].th]) = t
    <3>1. turn[t].pc \notin {"said", "queued", "done"} => turn[t].pc \in Work \cup {"leaving"}
      BY <2>2 DEF TurnState, Work
    <3> QED
      BY <2>1, <3>1, Holder
  <2>6. ASSUME turn[t].pc = "done", NEW i \in DOMAIN lock[turn[t].th]
        PROVE  lock[turn[t].th][i] # t
    <3>1. lock[turn[t].th] \in Seq(Turn)
      BY <2>1, <2>2 DEF TInv, TurnTypes
    <3>2. i \in 1..Len(lock[turn[t].th])
      BY <3>1
    <3>3. turn[lock[turn[t].th][i]].pc # "done"
      BY <2>1, <2>2, <3>2, InLine DEF Work
    <3> QED
      BY <2>6, <3>3
  <2> QED
    BY <2>3, <2>4, <2>5, <2>6
<1> QED
  BY <1>1, Invariant, PTL
=============================================================================
