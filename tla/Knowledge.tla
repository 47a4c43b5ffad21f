------------------------------ MODULE Knowledge ------------------------------
(***************************************************************************)
(* The life of the institutional memory's entries: created by extraction,   *)
(* harvest, trajectories and people, credited with the outcomes of the      *)
(* colonies that used them (colony_manager.py), merged, swept and rejected  *)
(* by the maintenance services (maintenance.py), and mirrored in the vector *)
(* store that searches read (memory_store.py).                              *)
(*                                                                          *)
(* Everything that changes an entry builds an event from what it has read   *)
(* and awaits emit_and_broadcast: the event store's lock (first come, first *)
(* served), then the projection, then sync_entry, which reads the entry     *)
(* again and writes the vector store.  A step is what a coroutine does      *)
(* between two of these awaits.                                             *)
(*                                                                          *)
(* An entry is its status and the credit it holds: conf_alpha above the     *)
(* prior, in units of one observation.  conf_beta, texts, domains and dates *)
(* are left out, so that who survives a merge, what is near-duplicate and   *)
(* what is stale are choices.  The inline dedup of extraction and harvest   *)
(* is left out because it never matches: it reads the attribute "score" of  *)
(* hits that are dictionaries.                                              *)
(***************************************************************************)
EXTENDS Integers, Sequences, FiniteSets

CONSTANTS Entry, Colony,
          Accesses(_),   \* the entries a colony's traces name, in order
          Old,           \* entries verified before the server started
          Secret,        \* entries in which the credential scan finds something
          PromoteAt,     \* credit that promotes a candidate
          MaxEvents,     \* bound: emissions in a behaviour
          MaxBusy,       \* bound: coroutines at work at the same time
          MaxRestarts    \* bound: restarts in a behaviour

ASSUME KnowledgeAssumption ==
    /\ PromoteAt \in Nat \ {0} /\ MaxEvents \in Nat
    /\ MaxBusy \in Nat /\ MaxRestarts \in Nat
    /\ Secret \cup Old \subseteq Entry
    /\ IsFiniteSet(Colony) /\ \A c \in Colony : Accesses(c) \in Seq(Entry)
    /\ Colony \cap {"extract", "dedup", "sweep", "stale", "person"} = {}

VARIABLES
    entries,   \* ProjectionStore.memory_entries
    journal,   \* the same, as a replay of the event store would leave it
    index,     \* the status each entry has in the vector store; "none": no point
    queue,     \* coroutines at the event store's lock and the events they hold
    task,      \* where each coroutine is
    credited,  \* <<colony, entry>>: outcomes handed to the event store
    clicks,    \* positive feedback of people and agents, per entry
    extracted, \* ids extractions have handed out
    refused,   \* entries created as rejected
    admitted,  \* entries created otherwise
    deleted,   \* entries a person has deleted
    settled,   \* colonies whose verdict is in
    events, restarts

state  == <<entries, journal, index>>
gate   == <<extracted, refused, admitted>>
ghosts == <<credited, clicks, deleted, settled>>
vars   == <<state, queue, task, gate, ghosts, events, restarts>>

Live    == {"candidate", "verified", "stale"}
Status  == Live \cup {"rejected", "deprecated"}
Absent  == [status |-> "absent", credit |-> 0, scanned |-> FALSE]
Item    == [status : Status \cup {"absent"}, credit : Nat, scanned : BOOLEAN]
Service == {"extract", "dedup", "sweep", "stale", "person"}
Task    == Colony \cup Service
Idle    == [at |-> "idle", then |-> "idle", todo |-> <<>>, seen |-> {},
            sync |-> <<>>, read |-> "none", new |-> 0, ok |-> FALSE]

Exists(e) == entries[e].status # "absent"

Starts(t) == /\ task[t].at = "idle"
             /\ Cardinality({u \in Task : task[u].at # "idle"}) < MaxBusy

\* The server starts with the verified entries Old in its event store.
Init ==
    /\ entries = [e \in Entry |-> IF e \in Old
                  THEN [Absent EXCEPT !.status = "verified"] ELSE Absent]
    /\ index = [e \in Entry |-> IF e \in Old THEN "verified" ELSE "none"]
    /\ journal = entries
    /\ queue = <<>>
    /\ task = [t \in Task |-> Idle]
    /\ credited = {} /\ clicks = [e \in Entry |-> 0]
    /\ extracted \in SUBSET Old /\ refused = {} /\ admitted = Old
    /\ deleted = {} /\ settled = {}
    /\ events = 0 /\ restarts = 0

-----------------------------------------------------------------------------
(* The events about an entry, and what they do to it.  A refinement rewrites *)
(* its text only, but is mirrored like the others.                          *)

Created(e, s) == [kind |-> "created", entry |-> e, status |-> s]
Changed(e, s) == [kind |-> "status", entry |-> e, status |-> s]
Updated(e, n) == [kind |-> "confidence", entry |-> e, credit |-> n]
Refined(e)    == [kind |-> "refined", entry |-> e]
Merged(e, f)  == [kind |-> "merged", entry |-> e, source |-> f]

OnCreated(m, ev) ==
    [m EXCEPT ![ev.entry] = [Absent EXCEPT !.status = ev.status]]

OnStatusChanged(m, ev) ==
    IF m[ev.entry].status = "absent" THEN m
    ELSE [m EXCEPT ![ev.entry].status = ev.status]

OnConfidenceUpdated(m, ev) ==
    IF m[ev.entry].status = "absent" THEN m
    ELSE [m EXCEPT ![ev.entry].credit = ev.credit]

OnMerged(m, ev) ==
    IF m[ev.source].status = "absent" THEN m
    ELSE [m EXCEPT ![ev.source].status = "rejected"]

Project(m, ev) ==
    CASE ev.kind = "created"    -> OnCreated(m, ev)
      [] ev.kind = "status"     -> OnStatusChanged(m, ev)
      [] ev.kind = "confidence" -> OnConfidenceUpdated(m, ev)
      [] ev.kind = "merged"     -> OnMerged(m, ev)
      [] ev.kind = "refined"    -> m

Synced(ev) == IF ev.kind = "merged" THEN <<ev.entry, ev.source>> ELSE <<ev.entry>>

\* Coroutine t, now with local state k, awaits the emission of ev and goes on
\* at place p.
Emit(t, k, ev, p) ==
    /\ events < MaxEvents
    /\ events' = events + 1
    /\ queue' = Append(queue, [who |-> t, event |-> ev])
    /\ task' = [task EXCEPT ![t] = [k EXCEPT !.at = "lock", !.then = p]]

\* The holder of the lock appends its row and applies it.
Apply ==
    /\ queue # <<>>
    /\ LET t  == Head(queue).who
           ev == Head(queue).event
       IN /\ entries' = Project(entries, ev)
          /\ journal' = Project(journal, ev)
          /\ task' = [task EXCEPT ![t].at = "sync", ![t].sync = Synced(ev)]
          /\ refused' = IF ev.kind = "created" /\ ev.status = "rejected"
                        THEN refused \cup {ev.entry} ELSE refused
          /\ admitted' = IF ev.kind = "created" /\ ev.status # "rejected"
                         THEN admitted \cup {ev.entry} ELSE admitted
    /\ queue' = Tail(queue)
    /\ UNCHANGED <<index, extracted, ghosts, events, restarts>>

\* sync_entry reads the projection, then awaits an embedding and the store.
SyncRead(t) ==
    /\ task[t].at = "sync"
    /\ task' = [task EXCEPT ![t].at = "write",
                            ![t].read = entries[Head(task[t].sync)].status]
    /\ UNCHANGED <<state, queue, gate, ghosts, events, restarts>>

(* Mutated: the point of a rejected entry is written like the others.       *)
MirrorAll(s) == s

Mirror(s) == IF s = "rejected" THEN "none" ELSE s

SyncWrite(t) ==
    /\ task[t].at = "write"
    /\ index' = [index EXCEPT ![Head(task[t].sync)] = Mirror(task[t].read)]
    /\ task' = [task EXCEPT
          ![t].sync = Tail(@),
          ![t].read = "none",
          ![t].at = IF Len(task[t].sync) > 1 THEN "sync" ELSE task[t].then]
    /\ UNCHANGED <<entries, journal, queue, gate, ghosts, events, restarts>>

\* A search sees what is in the store and neither rejected nor stale.
Found(e) == index[e] \in {"candidate", "verified", "deprecated"}

-----------------------------------------------------------------------------
(* The hook that credits a settled colony's entries with its outcome.       *)

Settle(c) ==
    /\ c \notin settled /\ Starts(c)
    /\ settled' = settled \cup {c}
    /\ \E succeeded \in BOOLEAN :
          task' = [task EXCEPT ![c].at = "hook", ![c].todo = Accesses(c),
                               ![c].ok = succeeded]
    /\ UNCHANGED <<state, queue, gate, credited, clicks, deleted, events, restarts>>

(* Mutated: the hook forgets what it has seen, so that an entry is credited *)
(* once for each round that retrieved it.                                   *)
SkipsMissing(c, e) == ~Exists(e)

Skips(c, e) == e \in task[c].seen \/ ~Exists(e)

\* An item already seen, or of an entry that does not exist.
HookSkip(c) ==
    /\ task[c].at = "hook" /\ task[c].todo # <<>>
    /\ Skips(c, Head(task[c].todo))
    /\ task' = [task EXCEPT ![c].todo = Tail(@), ![c].seen = @ \cup {Head(task[c].todo)}]
    /\ UNCHANGED <<state, queue, gate, ghosts, events, restarts>>

\* The counts are read, and absolute new counts emitted.  A failure adds to
\* conf_beta only and writes conf_alpha back.
HookUpdate(c) ==
    /\ task[c].at = "hook" /\ task[c].todo # <<>>
    /\ LET e == Head(task[c].todo)
           n == entries[e].credit + IF task[c].ok THEN 1 ELSE 0
       IN /\ ~Skips(c, e)
          /\ Emit(c, [task[c] EXCEPT !.seen = @ \cup {e}, !.new = n],
                  Updated(e, n), "promote")
          /\ credited' = IF task[c].ok THEN credited \cup {<<c, e>>} ELSE credited
    /\ UNCHANGED <<state, gate, clicks, deleted, settled, restarts>>

Promotes(c, e) ==
    task[c].ok /\ entries[e].status = "candidate" /\ task[c].new >= PromoteAt

HookPromote(c) ==
    /\ task[c].at = "promote"
    /\ LET e    == Head(task[c].todo)
           next == [task[c] EXCEPT !.todo = Tail(@), !.new = 0]
       IN IF Promotes(c, e)
          THEN Emit(c, next, Changed(e, "verified"), "hook")
          ELSE /\ task' = [task EXCEPT ![c] = [next EXCEPT !.at = "hook"]]
               /\ UNCHANGED <<queue, events>>
    /\ UNCHANGED <<state, gate, ghosts, restarts>>

\* Trajectories, harvests, tools and people make an identifier for the entry
\* at hand.
NewEntry(e) ==
    /\ entries[e] = Absent /\ e \notin extracted
    /\ \A i \in 1..Len(queue) : queue[i].event.entry # e

\* An extraction makes it of the colony's name and the entry's place in the
\* answer: every CREATE action has place 0, and an extraction that a crash cut
\* off before its receipt hands the same identifiers out again.
ExtractedEntry(e) == NewEntry(e) \/ e \in extracted

\* A productive colony leaves its trajectory as a verified entry.
Trajectory(c) ==
    /\ task[c].at = "hook" /\ task[c].todo = <<>>
    /\ \/ \E e \in Entry : /\ task[c].ok /\ NewEntry(e)
                           /\ Emit(c, Idle, Created(e, "verified"), "idle")
       \/ /\ task' = [task EXCEPT ![c] = Idle]
          /\ UNCHANGED <<queue, events>>
    /\ UNCHANGED <<state, gate, ghosts, restarts>>

-----------------------------------------------------------------------------
(* Extraction and harvest, one piece of work at a time.                     *)

\* _admission_decision: a high or critical scan or a low score rejects.
Admission == {"candidate", "rejected"}

\* The local dictionary of the entry, its status in it, decides about the
\* second event when the first has been emitted.
Extract ==
    /\ Starts("extract")
    /\ \E e \in Entry, s \in Admission, completed \in BOOLEAN :
          /\ ExtractedEntry(e)
          /\ extracted' = extracted \cup {e}
          /\ Emit("extract",
                  [Idle EXCEPT !.todo = <<e>>, !.ok = completed,
                               !.seen = IF s = "rejected" THEN {e} ELSE {}],
                  Created(e, s), "verify")
    /\ UNCHANGED <<state, refused, admitted, ghosts, restarts>>

(* Mutated: the admission's verdict is not looked at.                       *)
VerifiesAll(t, e) == task[t].ok

Verifies(t, e) == e \notin task[t].seen /\ task[t].ok

Verify ==
    /\ task["extract"].at = "verify"
    /\ LET e == Head(task["extract"].todo)
       IN IF Verifies("extract", e)
          THEN Emit("extract", Idle, Changed(e, "verified"), "idle")
          ELSE /\ task' = [task EXCEPT !["extract"] = Idle]
               /\ UNCHANGED <<queue, events>>
    /\ UNCHANGED <<state, gate, ghosts, restarts>>

\* A harvest leaves candidates and verifies none.
Harvest ==
    /\ Starts("extract")
    /\ \E e \in Entry : NewEntry(e) /\ Emit("extract", Idle, Created(e, "candidate"), "idle")
    /\ UNCHANGED <<state, gate, ghosts, restarts>>

\* A REFINE action on an entry that exists, whatever its status.
ExtractRefine ==
    /\ Starts("extract")
    /\ \E e \in Entry : Exists(e) /\ Emit("extract", Idle, Refined(e), "idle")
    /\ UNCHANGED <<state, gate, ghosts, restarts>>

\* A MERGE action names two entries that exist, whatever their status.
ExtractMerge ==
    /\ Starts("extract")
    /\ \E e, f \in Entry : /\ Exists(e) /\ Exists(f)
                           /\ Emit("extract", Idle, Merged(e, f), "idle")
    /\ UNCHANGED <<state, gate, ghosts, restarts>>

-----------------------------------------------------------------------------
(* Maintenance services.                                                    *)

\* Pairs of the entries verified when the service starts, in some order.
DedupStart ==
    /\ Starts("dedup")
    /\ \E e, f \in Entry :
          /\ e # f
          /\ entries[e].status = "verified" /\ entries[f].status = "verified"
          /\ task' = [task EXCEPT !["dedup"].at = "compare", !["dedup"].todo = <<e, f>>]
    /\ UNCHANGED <<state, queue, gate, ghosts, events, restarts>>

Absorb(e, f) == Emit("dedup", Idle, Merged(e, f), "idle")

\* The vector store is asked for the first entry's neighbours: the second one
\* must be found there.  Near-identical pairs are merged at once.
DedupCompare ==
    /\ task["dedup"].at = "compare"
    /\ LET e == task["dedup"].todo[1]
           f == task["dedup"].todo[2]
       IN \/ /\ Found(f)
             /\ Absorb(e, f) \/ Absorb(f, e)
          \/ /\ task' = [task EXCEPT !["dedup"].at = IF Found(f) THEN "judge" ELSE "idle"]
             /\ UNCHANGED <<queue, events>>
    /\ UNCHANGED <<state, gate, ghosts, restarts>>

\* The model's answer on a similar pair: merge, or mark both as dismissed by
\* writing back the status they have.
DedupJudge ==
    /\ task["dedup"].at = "judge"
    /\ LET e == task["dedup"].todo[1]
           f == task["dedup"].todo[2]
       IN \/ Absorb(e, f)
          \/ Absorb(f, e)
          \/ Emit("dedup", task["dedup"], Changed(e, entries[e].status), "dismiss")
          \/ /\ task' = [task EXCEPT !["dedup"] = Idle]
             /\ UNCHANGED <<queue, events>>
    /\ UNCHANGED <<state, gate, ghosts, restarts>>

DedupDismiss ==
    /\ task["dedup"].at = "dismiss"
    /\ LET f == task["dedup"].todo[2]
       IN Emit("dedup", Idle, Changed(f, entries[f].status), "idle")
    /\ UNCHANGED <<state, gate, ghosts, restarts>>

\* Old and unread, or wrong too often.
StaleSweep ==
    /\ Starts("stale")
    /\ \E e \in Entry :
          /\ Exists(e) /\ entries[e].status \notin {"rejected", "stale"}
          /\ Emit("stale", Idle, Changed(e, "stale"), "idle")
    /\ UNCHANGED <<state, gate, ghosts, restarts>>

\* The version mark is set on the projected entry itself.
CredentialSweep ==
    /\ Starts("sweep")
    /\ \E e \in Entry :
          /\ Exists(e) /\ entries[e].status # "rejected" /\ ~entries[e].scanned
          /\ entries' = [entries EXCEPT ![e].scanned = TRUE]
          /\ IF e \in Secret
             THEN Emit("sweep", Idle, Changed(e, "rejected"), "idle")
             ELSE UNCHANGED <<queue, task, events>>
    /\ UNCHANGED <<journal, index, gate, ghosts, restarts>>

\* Credit that colonies' failures contradict is taken away altogether.
ConfidenceReset ==
    /\ Starts("stale")
    /\ \E e \in Entry : entries[e].credit > 0 /\ Emit("stale", Idle, Updated(e, 0), "idle")
    /\ UNCHANGED <<state, gate, ghosts, restarts>>

\* The archivist rewrites entries that were verified when it was asked.
Curate ==
    /\ Starts("stale")
    /\ \E e \in Entry : Exists(e) /\ Emit("stale", Idle, Refined(e), "idle")
    /\ UNCHANGED <<state, gate, ghosts, restarts>>

-----------------------------------------------------------------------------
(* People and agents: entries of their own, feedback, deletion, archival.   *)

CreateEntry ==
    /\ Starts("person")
    /\ \E e \in Entry : NewEntry(e) /\ Emit("person", Idle, Created(e, "verified"), "idle")
    /\ UNCHANGED <<state, gate, ghosts, restarts>>

LogFinding ==
    /\ Starts("person")
    /\ \E e \in Entry : NewEntry(e) /\ Emit("person", Idle, Created(e, "candidate"), "idle")
    /\ UNCHANGED <<state, gate, ghosts, restarts>>

EditEntry ==
    /\ Starts("person")
    /\ \E e \in Entry : Exists(e) /\ Emit("person", Idle, Refined(e), "idle")
    /\ UNCHANGED <<state, gate, ghosts, restarts>>

\* t rates e; a bad rating adds to conf_beta only and writes conf_alpha back.
Rates(t, e, positive) ==
    /\ Exists(e)
    /\ Emit(t, Idle, Updated(e, entries[e].credit + IF positive THEN 1 ELSE 0), "idle")
    /\ clicks' = [clicks EXCEPT ![e] = @ + IF positive THEN 1 ELSE 0]
    /\ UNCHANGED <<state, gate, credited, deleted, settled, restarts>>

SubmitFeedback ==
    Starts("person") /\ \E e \in Entry, positive \in BOOLEAN : Rates("person", e, positive)

ConfirmReview ==
    Starts("person") /\ \E e \in Entry : Rates("person", e, TRUE)

\* knowledge_feedback, a tool of the agents of a running colony.
AgentFeedback(c) ==
    /\ c \notin settled /\ Starts(c)
    /\ \E e \in Entry, helpful \in BOOLEAN : Rates(c, e, helpful)

\* Archiving a thread shrinks what its entries have learnt.
ArchiveThread ==
    /\ Starts("person")
    /\ \E e \in Entry : \E n \in 0..(entries[e].credit - 1) :
          Emit("person", Idle, Updated(e, n), "idle")
    /\ UNCHANGED <<state, gate, ghosts, restarts>>

DeleteEntry ==
    /\ Starts("person")
    /\ \E e \in Entry :
          /\ Exists(e)
          /\ Emit("person", [Idle EXCEPT !.todo = <<e>>], Updated(e, 0), "deprecate")
          /\ deleted' = deleted \cup {e}
    /\ UNCHANGED <<state, gate, credited, clicks, settled, restarts>>

\* The status is written to the projection; no event says so.
Deprecate ==
    /\ task["person"].at = "deprecate"
    /\ entries' = [entries EXCEPT ![Head(task["person"].todo)].status = "deprecated"]
    /\ task' = [task EXCEPT !["person"] = Idle]
    /\ UNCHANGED <<journal, index, queue, gate, ghosts, events, restarts>>

-----------------------------------------------------------------------------
\* Coroutines die, queued rows are lost, the rows are replayed and every entry
\* that is not rejected is written to the vector store, which is not emptied.
Restart ==
    /\ restarts < MaxRestarts
    /\ restarts' = restarts + 1
    /\ entries' = journal
    /\ index' = [e \in Entry |-> IF journal[e].status \in {"absent", "rejected"}
                                 THEN index[e] ELSE journal[e].status]
    /\ queue' = <<>>
    /\ task' = [t \in Task |-> Idle]
    /\ UNCHANGED <<journal, gate, ghosts, events>>

Next ==
    \/ Apply
    \/ \E t \in Task : SyncRead(t) \/ SyncWrite(t)
    \/ \E c \in Colony : \/ Settle(c) \/ HookSkip(c) \/ HookUpdate(c)
                         \/ HookPromote(c) \/ Trajectory(c) \/ AgentFeedback(c)
    \/ Extract \/ Verify \/ Harvest \/ ExtractRefine \/ ExtractMerge
    \/ DedupStart \/ DedupCompare \/ DedupJudge \/ DedupDismiss
    \/ StaleSweep \/ CredentialSweep \/ ConfidenceReset \/ Curate
    \/ CreateEntry \/ LogFinding \/ EditEntry \/ SubmitFeedback \/ ConfirmReview
    \/ ArchiveThread \/ DeleteEntry \/ Deprecate
    \/ Restart

Spec == Init /\ [][Next]_vars

-----------------------------------------------------------------------------
(* Every entry is an entry, every coroutine is somewhere (TypeOK).          *)
TypeOK ==
    /\ entries \in [Entry -> Item] /\ journal \in [Entry -> Item]
    /\ index \in [Entry -> Live \cup {"none", "deprecated"}]
    /\ credited \subseteq Colony \X Entry /\ settled \subseteq Colony
    /\ refused \cup admitted \cup extracted \cup deleted \subseteq Entry
    /\ \A i, j \in 1..Len(queue) : queue[i].who = queue[j].who => i = j
    /\ \A t \in Task : task[t].at = "lock" <=> \E i \in 1..Len(queue) : queue[i].who = t
    /\ \A t \in Task : task[t].at \in {"sync", "write"} <=> task[t].sync # <<>>

(* _hook_confidence_update and the feedback handlers write absolute counts  *)
(* computed before an await: an observation may be lost that way, but an    *)
(* entry never holds more credit than colonies succeeded with it and people *)
(* approved of it, however often a colony's rounds retrieved it and         *)
(* whatever ran in between.                                                 *)
CountedOnce ==
    \A e \in Entry :
        entries[e].credit
          <= clicks[e] + Cardinality({c \in Colony : <<c, e>> \in credited})

(* A replay of the event store leaves of an entry what the server knew of   *)
(* it: that it exists, its counts, and, unless a person has deleted it, its *)
(* status (projections.py); rows that waited for the lock were in neither.  *)
ReplayKeepsEntries ==
    \A e \in Entry :
        /\ Exists(e) <=> journal[e].status # "absent"
        /\ entries[e].credit = journal[e].credit
        /\ entries[e].status # journal[e].status => e \in deleted

(* What the admission gate rejected when it was created                     *)
(* (extract_institutional_memory) stays out: no promotion, verification,    *)
(* sweep or merge brings it back, and no search finds it.  A person's       *)
(* deletion overwrites the rejection, and so does an extraction that hands  *)
(* out its identifier again and admits it (_on_memory_entry_created asks    *)
(* for no earlier entry): this is said of the entries that every creation   *)
(* refused, however often one was repeated.                                 *)
AdmissionHolds ==
    \A e \in refused \ (admitted \cup deleted) :
        entries[e].status = "rejected" /\ index[e] = "none"
=============================================================================
