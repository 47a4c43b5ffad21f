------------------------------ MODULE Forager ------------------------------
(***************************************************************************)
(* Foraging: surface/forager.py, ForagerService and                         *)
(* ForagerOrchestratorWithEmit, with the projections of their events.       *)
(*                                                                          *)
(* Each signal (a weak retrieval, a sweep's insight, the operator, an       *)
(* agent's tool) runs a cycle of its own: search, fetch, cut into chunks,   *)
(* drop what is known by its hash, create an entry per chunk that is        *)
(* admitted, report.  All cycles share one orchestrator and its set of      *)
(* hashes, which a hash enters only after the entry's event was emitted.    *)
(* An entry's id is the hash, so a second creation overwrites the first.    *)
(*                                                                          *)
(* Left out: workspaces (the hashes know none), the policy of domains, the  *)
(* egress gateway and the fetch strategies, which decide only whether a     *)
(* result is fetched and the fetch succeeds.                                *)
(***************************************************************************)
EXTENDS Naturals, Sequences, FiniteSets

CONSTANTS Cycle,        \* tasks in handle_forage_signal at a time
          Page, Chunk,
          NoPage, NoChunk,
          ChunksOf,     \* the distinct hashes of a page's chunks
          MaxForages,   \* bound: forages asked for in a behaviour
          MaxLapses,    \* bound: emissions that raise or are cancelled
          MaxLives      \* bound: processes, one after the other

ASSUME ForagerAssumption ==
    /\ IsFiniteSet(Cycle)
    /\ NoPage \notin Page /\ NoChunk \notin Chunk
    /\ ChunksOf \in [Page -> SUBSET Chunk]
    /\ MaxForages \in Nat /\ MaxLapses \in Nat /\ MaxLives \in Nat \ {0}

VARIABLES
    forages,  \* the ForageRequested rows: pending or summed, and as history
              \* what their cycles created and what cut them
    cycle,    \* per task: where it is
    hashes,   \* _existing_hashes
    life,     \* the number of the process
    lapses,   \* bound on faults
    made      \* history: entries a life emitted per chunk, and how many of
              \* those never entered hashes
foragerVars == <<forages, cycle, hashes, life, lapses, made>>

NoCycle == [at |-> "free", forage |-> 0, agent |-> FALSE, left |-> {},
            page |-> NoPage, todo |-> {}, chunk |-> NoChunk, admitted |-> 0]

NoneMade == [c \in Chunk |-> [rows |-> 0, lost |-> 0]]

ForagerInit ==
    /\ forages = <<>> /\ life = 1 /\ lapses = 0
    /\ cycle = [s \in Cycle |-> NoCycle]
    /\ hashes = {}
    /\ made = NoneMade

-----------------------------------------------------------------------------
(* Helpers.                                                                 *)

Forage(s) == forages[cycle[s].forage]
Set(s, q) == cycle' = [cycle EXCEPT ![s] = q]
Note(s, f) == forages' = [forages EXCEPT ![cycle[s].forage] = f]

(* Mutated: hashes of earlier cycles are not looked at.                     *)
FreshOnPage(page) == ChunksOf[page]

(* deduplicate_chunks                                                       *)
Fresh(page) == ChunksOf[page] \ hashes

(* The next chunk to emit, the next page to fetch, or the report.           *)
Onward(q) ==
    IF q.todo # {} THEN {[q EXCEPT !.at = "creating", !.page = NoPage,
                                   !.chunk = c, !.todo = @ \ {c}] : c \in q.todo}
    ELSE IF q.left # {} THEN {[q EXCEPT !.at = "fetching", !.chunk = NoChunk,
                                        !.page = p, !.left = @ \ {p}] : p \in q.left}
    ELSE {[q EXCEPT !.at = "reporting", !.page = NoPage, !.chunk = NoChunk]}

Goes(s, q) == \E next \in Onward(q) : Set(s, next)

-----------------------------------------------------------------------------
(* The cycle.                                                               *)

(* _on_forage_requested: the request is among _pending_forage_requests.     *)
OnForageRequested ==
    forages' = Append(forages, [state |-> "pending", rows |-> 0, lost |-> 0, told |-> 0,
                                cut |-> "no"])

(* handle_forage_signal up to its first await, with the row of its event.   *)
HandleForageSignal(s, agent) ==
    /\ cycle[s] = NoCycle
    /\ Len(forages) < MaxForages
    /\ OnForageRequested
    /\ Set(s, [NoCycle EXCEPT !.at = "searching", !.forage = Len(forages) + 1,
                              !.agent = agent])
    /\ UNCHANGED <<hashes, life, lapses, made>>

(* A sweep, like a retrieval and the operator's request, starts a task; an  *)
(* agent's tool awaits the cycle, and is cancelled with it.                 *)
DispatchForageSignal(s) == HandleForageSignal(s, FALSE)
RequestForage(s)        == HandleForageSignal(s, TRUE)

(* The broadcast of ForageRequested returned and the search answered: with  *)
(* an error, with nothing relevant or nothing allowed, or with results to   *)
(* fetch.                                                                   *)
SearchAnswers(s) ==
    /\ cycle[s].at = "searching"
    /\ \E results \in SUBSET Page : Goes(s, [cycle[s] EXCEPT !.left = results])
    /\ UNCHANGED <<forages, hashes, life, lapses, made>>

(* A fetch failed, or its text was cut, deduplicated and scored; scores are *)
(* a pure function of the chunk, so the admitted ones are known at once.    *)
(* A search or a fetch that raises is as one that finds no more.            *)
FetchAnswers(s) ==
    /\ cycle[s].at = "fetching"
    /\ \E admitted \in SUBSET Fresh(cycle[s].page) :
          Goes(s, [cycle[s] EXCEPT !.todo = admitted])
    /\ UNCHANGED <<forages, hashes, life, lapses, made>>

(* MemoryEntryCreated is appended and projected.                            *)
EntryCreated(s) ==
    /\ cycle[s].at = "creating"
    /\ Set(s, [cycle[s] EXCEPT !.at = "created"])
    /\ Note(s, [Forage(s) EXCEPT !.rows = @ + 1])
    /\ made' = [made EXCEPT ![cycle[s].chunk].rows = @ + 1]
    /\ UNCHANGED <<hashes, life, lapses>>

(* Its broadcast and its synchronisation returned.                          *)
EmissionReturns(s) ==
    /\ cycle[s].at = "created"
    /\ hashes' = hashes \cup {cycle[s].chunk}
    /\ Goes(s, [cycle[s] EXCEPT !.admitted = @ + 1])
    /\ UNCHANGED <<forages, life, lapses, made>>

(* A row whose emission did not return: neither counted nor remembered.     *)
RowLost(s) ==
    IF cycle[s].at = "created"
    THEN made' = [made EXCEPT ![cycle[s].chunk].lost = @ + 1]
    ELSE UNCHANGED made

LostRows(s) == IF cycle[s].at = "created" THEN 1 ELSE 0

(* Mutated: a raising emission leaves execute.                              *)
EmissionRaisesOut(s) ==
    /\ cycle[s].at \in {"creating", "created"}
    /\ lapses < MaxLapses /\ lapses' = lapses + 1
    /\ RowLost(s)
    /\ Note(s, [Forage(s) EXCEPT !.lost = @ + LostRows(s)])
    /\ Set(s, NoCycle)
    /\ UNCHANGED <<hashes, life>>

(* The emission of an entry raises, before its row or after it: execute     *)
(* catches it, drops what is left and returns what it has.                  *)
EmissionRaises(s) ==
    /\ cycle[s].at \in {"creating", "created"}
    /\ lapses < MaxLapses /\ lapses' = lapses + 1
    /\ RowLost(s)
    /\ Note(s, [Forage(s) EXCEPT !.lost = @ + LostRows(s)])
    /\ Goes(s, [cycle[s] EXCEPT !.left = {}, !.todo = {}])
    /\ UNCHANGED <<hashes, life>>

(* _on_forage_cycle_completed: the request is no longer pending, and the    *)
(* summary says how many entries there are.                                 *)
OnForageCycleCompleted(s) ==
    Note(s, [Forage(s) EXCEPT !.state = "summed", !.told = cycle[s].admitted])

CycleCompleted(s) ==
    /\ cycle[s].at = "reporting"
    /\ OnForageCycleCompleted(s)
    /\ Set(s, NoCycle)
    /\ UNCHANGED <<hashes, life, lapses, made>>

(* The end of a cycle nobody sums: its first broadcast or its report        *)
(* raised, or it was an agent's and the agent's colony was stopped, which   *)
(* no except clause of the cycle catches.  The request stays pending; a     *)
(* report stopped in its append has a row nobody applies ("unread").        *)
CycleDies(s) ==
    /\ lapses < MaxLapses /\ lapses' = lapses + 1
    /\ RowLost(s)
    /\ \E cut \in {"raised", "stopped", "unread"} :
          /\ cut = "raised"  => cycle[s].at \in {"searching", "reporting"}
          /\ cut = "stopped" => cycle[s].at # "free" /\ cycle[s].agent
          /\ cut = "unread"  => cycle[s].at = "reporting" /\ cycle[s].agent
          /\ Note(s, [Forage(s) EXCEPT !.cut = cut, !.told = cycle[s].admitted,
                                       !.lost = @ + LostRows(s)])
    /\ Set(s, NoCycle)
    /\ UNCHANGED <<hashes, life>>

(* A request after a restart: it is summed if its report has a row, and     *)
(* pending otherwise, with nothing that would run it.                       *)
Replayed(f) ==
    IF f.state # "pending" THEN f
    ELSE IF f.cut = "unread" THEN [f EXCEPT !.state = "summed"]
    ELSE IF f.cut = "no" THEN [f EXCEPT !.cut = "ended"] ELSE f

(* The process ends and another starts: the rows are replayed, and app.py   *)
(* builds the orchestrator with no hashes.                                  *)
NewProcess ==
    /\ life < MaxLives /\ life' = life + 1
    /\ forages' = [i \in DOMAIN forages |-> Replayed(forages[i])]
    /\ cycle' = [s \in Cycle |-> NoCycle]
    /\ hashes' = {}
    /\ made' = NoneMade
    /\ UNCHANGED lapses

ForagerNext ==
    \/ \E s \in Cycle :
          \/ DispatchForageSignal(s) \/ RequestForage(s)
          \/ SearchAnswers(s) \/ FetchAnswers(s)
          \/ EntryCreated(s) \/ EmissionReturns(s) \/ EmissionRaises(s)
          \/ CycleCompleted(s) \/ CycleDies(s)
    \/ NewProcess

ForagerSpec == ForagerInit /\ [][ForagerNext]_foragerVars

-----------------------------------------------------------------------------
(* Properties.                                                              *)

(* Every variable has its type.                                             *)
ForagerTypeOK ==
    /\ forages \in Seq([state : {"pending", "summed"}, rows : Nat, lost : 0..1,
                        told : Nat, cut : {"no", "raised", "stopped", "unread", "ended"}])
    /\ \A s \in Cycle :
          /\ cycle[s].at \in {"free", "searching", "fetching", "creating",
                              "created", "reporting"}
          /\ cycle[s].forage \in 0..Len(forages)
          /\ cycle[s].left \subseteq Page /\ cycle[s].todo \subseteq Chunk
          /\ cycle[s].page \in Page \cup {NoPage}
          /\ cycle[s].chunk \in Chunk \cup {NoChunk}
    /\ hashes \subseteq Chunk
    /\ life \in 1..MaxLives /\ lapses \in 0..MaxLapses
    /\ made \in [Chunk -> [rows : Nat, lost : Nat]]

(* "Track hash to prevent future duplicates" (forager.py:594): in one       *)
(* process a chunk's entry is created, and by that reset, at most once per  *)
(* cycle that runs at a time and once more per emission that did not        *)
(* return, however many cycles find the page again.                         *)
CreatedPerLife ==
    \A c \in Chunk : made[c].rows <= Cardinality(Cycle) + made[c].lost

(* A pending request either has a cycle at work on it or was cut: its first *)
(* broadcast or its report raised, the colony it was for was stopped, or    *)
(* the process ended.  A search, a fetch or an entry that fails never cuts  *)
(* one.  What was cut is nobody's any more: it stays pending, over restarts *)
(* too (_pending_forage_requests).  A summary tells exactly the entries the *)
(* cycle created, short of the one whose emission raised.                   *)
ForagesAccounted ==
    \A i \in DOMAIN forages :
        /\ forages[i].state = "pending" =>
              (forages[i].cut = "no" <=> \E s \in Cycle : cycle[s].forage = i)
        /\ forages[i].state = "summed" =>
              forages[i].told + forages[i].lost = forages[i].rows
=============================================================================
