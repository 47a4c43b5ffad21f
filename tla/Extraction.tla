------------------------------ MODULE Extraction ------------------------------
(***************************************************************************)
(* What is learnt from a settled colony: the queue of post-colony work of   *)
(* surface/colony_manager.py and its single drain task, the two jobs it     *)
(* holds (extract_institutional_memory and _run_transcript_harvest), and    *)
(* the backfill by which surface/app.py repeats, after a restart, the       *)
(* extractions that left no MemoryExtractionCompleted receipt.              *)
(*                                                                          *)
(* One asyncio loop: a step is what a coroutine does between two awaits.    *)
(* An emission is one step here; ColonyLifecycle looks inside it.           *)
(* An extraction makes at most one entry, and what an entry says, the       *)
(* confidence counts, the REFINE and MERGE actions on other entries and the *)
(* entries of a harvest, which stay candidates, are left out.               *)
(***************************************************************************)
EXTENDS Naturals, Sequences, FiniteSets

CONSTANTS Colony,
          HasMemoryStore,   \* app.py has a vector store to keep entries in
          MaxCrashes,   \* bound: crashes in a behaviour
          MaxFaults,    \* bound: exceptions in a behaviour
          MaxCommands   \* bound: colonies killed or made a service

ASSUME BoundsAssumption ==
    /\ HasMemoryStore \in BOOLEAN
    /\ MaxCrashes \in Nat /\ MaxFaults \in Nat /\ MaxCommands \in Nat

VARIABLES
    status,    \* ColonyProjection.status
    entry,     \* status of the entry "mem-<colony>-s-0"
    receipts,  \* MemoryExtractionCompleted rows: who emitted one, for whom
    up,        \* the server is past its restart
    loop,      \* where each colony's round-loop task is; "none": no live task
    queue,     \* _deferred_post_colony_work
    draining,  \* _post_colony_drain_task exists and is not done
    todo,      \* colonies the backfill has still to extract
    job,       \* the work each worker is awaiting
    marked,    \* "cid:institutional" and "cid:harvest", in memory only
    runs,      \* extractions begun for each colony in this life
    raised,    \* colonies an extraction of which ended in an exception
    crashes, faults, commands

stored   == <<status, entry, receipts>>
work     == <<queue, draining, todo, job, marked>>
history  == <<runs, raised>>
counters == <<crashes, faults, commands>>
vars == <<stored, up, loop, work, history, counters>>

Kind    == {"extraction", "harvest"}
Worker  == {"drain", "backfill"}
Verdict == {"completed", "failed"}
Status  == Verdict \cup {"absent", "running", "killed", "service"}
Work    == [colony : Colony, kind : Kind, verdict : Status]
Place   == {"asking", "creating", "verifying", "confirming"}
Job     == [work : Work, at : Place]
Idle    == [at |-> "idle"]

Init ==
    /\ status = [c \in Colony |-> "absent"]
    /\ entry = [c \in Colony |-> "none"]
    /\ receipts = {}
    /\ up = TRUE
    /\ loop = [c \in Colony |-> "none"]
    /\ queue = <<>> /\ draining = FALSE /\ todo = {}
    /\ job = [w \in Worker |-> Idle]
    /\ marked = {}
    /\ runs = [c \in Colony |-> 0] /\ raised = {}
    /\ crashes = 0 /\ faults = 0 /\ commands = 0

Receipted(c) == \E k \in Kind : <<c, k>> \in receipts

-----------------------------------------------------------------------------
(* The colony and its round loop.                                           *)

Live == \E c \in Colony : loop[c] # "none"

SpawnColony(c) ==
    /\ up /\ status[c] = "absent"
    /\ status' = [status EXCEPT ![c] = "running"]
    /\ loop' = [loop EXCEPT ![c] = "rounds"]
    /\ UNCHANGED <<entry, receipts, up, work, history, counters>>

(* Mutated: nobody is asked to drain what is already queued.                *)
ScheduledNever(q) == FALSE

(* _schedule_post_colony_drain, called when work is queued and by the done  *)
(* callback of every loop: one drain task as long as there is work.         *)
Scheduled(q) == draining \/ q # <<>>

LoopEnds(c) ==
    /\ loop' = [loop EXCEPT ![c] = "none"]
    /\ draining' = Scheduled(queue)
    /\ UNCHANGED <<queue, todo, job, marked>>

(* The terminal event is out.  The hooks follow it, but not when the loop   *)
(* failed for an exception, its budget or the workspace's.                  *)
Settle(c) ==
    /\ loop[c] = "rounds"
    /\ \/ \E v \in Verdict :
             /\ status' = [status EXCEPT ![c] = v]
             /\ loop' = [loop EXCEPT ![c] = v]
             /\ UNCHANGED work
       \/ /\ status' = [status EXCEPT ![c] = "failed"]
          /\ LoopEnds(c)
    /\ UNCHANGED <<entry, receipts, up, history, counters>>

(* An emission outside run_round's try raises: the task ends, before the    *)
(* terminal event or between it and the hooks, and no one is told.          *)
LoopDies(c) ==
    /\ loop[c] \in {"rounds"} \cup Verdict
    /\ faults < MaxFaults
    /\ faults' = faults + 1
    /\ LoopEnds(c)
    /\ UNCHANGED <<stored, up, history, crashes, commands>>

Unmarked(c, k, v) ==
    IF <<c, k>> \in marked THEN <<>>
    ELSE <<[colony |-> c, kind |-> k, verdict |-> v]>>

(* Mutated: the harvest is queued first.                                    *)
DeferredHarvestFirst(c, v) ==
    Unmarked(c, "harvest", v) \o Unmarked(c, "extraction", v)

(* _hook_memory_extraction, then _hook_transcript_harvest.                  *)
Deferred(c, v) == Unmarked(c, "extraction", v) \o Unmarked(c, "harvest", v)

(* The two hooks run between two awaits; those that follow emit for other   *)
(* components and keep the task alive.                                      *)
PostColonyHooks(c) ==
    /\ loop[c] \in Verdict
    /\ queue' = queue \o Deferred(c, loop[c])
    /\ draining' = Scheduled(queue')
    /\ loop' = [loop EXCEPT ![c] = "closing"]
    /\ UNCHANGED <<stored, up, todo, job, marked, history, counters>>

(* _on_colony_task_done, when the last hook has returned.                   *)
TaskDone(c) ==
    /\ loop[c] = "closing"
    /\ LoopEnds(c)
    /\ UNCHANGED <<stored, up, history, counters>>

Command(c, s) ==
    /\ up /\ commands < MaxCommands
    /\ commands' = commands + 1
    /\ status' = [status EXCEPT ![c] = s]
    /\ UNCHANGED <<entry, receipts, up, history, crashes, faults>>

(* kill_colony asks nothing of the status; stop_colony cancels the task.    *)
KillColony(c) ==
    /\ status[c] # "absent"
    /\ Command(c, "killed")
    /\ LoopEnds(c)

ActivateService(c) ==
    /\ status[c] = "completed"
    /\ Command(c, "service")
    /\ UNCHANGED <<loop, work>>

-----------------------------------------------------------------------------
(* Taking work.                                                             *)

Begin(w, item) ==
    /\ job' = [job EXCEPT ![w] = [work |-> item, at |-> "asking"]]
    /\ runs' = [runs EXCEPT ![item.colony] =
                   IF item.kind = "extraction" THEN @ + 1 ELSE @]

(* Mutated: a harvest is not put off.                                       *)
MayDrainHarvest == queue # <<>> /\ (Head(queue).kind = "harvest" \/ ~Live)

(* _drain_deferred_post_colony_work asks before each item.                  *)
MayDrain == queue # <<>> /\ ~Live

DrainTakes ==
    /\ draining /\ job["drain"] = Idle
    /\ MayDrain
    /\ Begin("drain", Head(queue))
    /\ queue' = Tail(queue)
    /\ UNCHANGED <<stored, up, loop, draining, todo, marked, raised, counters>>

(* Mutated: the status is taken for a success.                              *)
BackfillItemCompleted(c) ==
    [colony |-> c, kind |-> "extraction", verdict |-> "completed"]

BackfillItem(c) ==
    [colony |-> c, kind |-> "extraction", verdict |-> status[c]]

(* The backfill looks at statuses, not at tasks.  It goes through the ids   *)
(* in their order, which says nothing of the colonies: any order.           *)
BackfillTakes(c) ==
    /\ job["backfill"] = Idle
    /\ c \in todo
    /\ \A d \in Colony : status[d] # "running"
    /\ Begin("backfill", BackfillItem(c))
    /\ todo' = todo \ {c}
    /\ UNCHANGED <<stored, up, loop, queue, draining, marked, raised, counters>>

-----------------------------------------------------------------------------
(* Doing it.                                                                *)

At(w, p) == job[w].at = p
Goto(w, p) == /\ job' = [job EXCEPT ![w].at = p]
              /\ UNCHANGED draining

(* Mutated: an "if" where the drain has a "while".                          *)
GoesOnOnce(w) == w # "drain" /\ draining

(* The drain ends with its queue.                                           *)
GoesOn(w) == IF w = "drain" THEN queue # <<>> ELSE draining

EndJob(w) == /\ job' = [job EXCEPT ![w] = Idle]
             /\ draining' = GoesOn(w)

JobFrame == UNCHANGED <<status, up, loop, queue, todo, crashes, commands>>

(* The archivist's answer.  Without one, or with nothing that passes the    *)
(* gates and the search for duplicates, an extraction is confirmed and a    *)
(* harvest is given up or confirmed; it is given up too without a turn.     *)
Answer(w) ==
    /\ At(w, "asking")
    /\ \/ job[w].work.kind = "extraction" /\ Goto(w, "creating")
       \/ Goto(w, "confirming")
       \/ job[w].work.kind = "harvest" /\ EndJob(w)
    /\ JobFrame /\ UNCHANGED <<entry, receipts, marked, history, faults>>

AfterCreation(item, s) ==
    IF s = "candidate" /\ item.verdict = "completed"
    THEN "verifying" ELSE "confirming"

(* MemoryEntryCreated.  The id is made of the colony's: another extraction  *)
(* of the colony writes over the entry, whatever its status.                *)
Create(w) ==
    LET item == job[w].work IN
    /\ At(w, "creating")
    /\ \E s \in {"candidate", "rejected"} :
          /\ entry' = [entry EXCEPT ![item.colony] = s]
          /\ Goto(w, AfterCreation(item, s))
    /\ JobFrame /\ UNCHANGED <<receipts, marked, history, faults>>

(* MemoryEntryStatusChanged.                                                *)
Verify(w) ==
    /\ At(w, "verifying")
    /\ entry' = [entry EXCEPT ![job[w].work.colony] = "verified"]
    /\ Goto(w, "confirming")
    /\ JobFrame /\ UNCHANGED <<receipts, marked, history, faults>>

(* MemoryExtractionCompleted, the same event for both kinds.  A failed LLM  *)
(* call leaves the extraction unmarked.                                     *)
Confirm(w) ==
    LET item == job[w].work IN
    /\ At(w, "confirming")
    /\ receipts' = receipts \cup {<<item.colony, item.kind>>}
    /\ \/ marked' = marked \cup {<<item.colony, item.kind>>}
       \/ item.kind = "extraction" /\ UNCHANGED marked
    /\ EndJob(w)
    /\ JobFrame /\ UNCHANGED <<entry, history, faults>>

(* Any exception but the LLM's: logged by the worker, which goes on.        *)
Raise(w) ==
    /\ job[w] # Idle
    /\ faults < MaxFaults
    /\ faults' = faults + 1
    /\ raised' = IF job[w].work.kind = "extraction"
                 THEN raised \cup {job[w].work.colony} ELSE raised
    /\ EndJob(w)
    /\ JobFrame /\ UNCHANGED <<entry, receipts, marked, runs>>

-----------------------------------------------------------------------------
(* Crash and restart.                                                       *)

Crash ==
    /\ up /\ crashes < MaxCrashes
    /\ crashes' = crashes + 1
    /\ up' = FALSE
    /\ loop' = [c \in Colony |-> "none"]
    /\ queue' = <<>> /\ draining' = FALSE /\ todo' = {}
    /\ job' = [w \in Worker |-> Idle]
    /\ marked' = {}
    /\ runs' = [c \in Colony |-> 0]
    /\ UNCHANGED <<stored, raised, faults, commands>>

(* Mutated: the colonies about to be rehydrated are extracted as well.      *)
MissingUnsettled ==
    {c \in Colony : status[c] \in Verdict \cup {"running"} /\ ~Receipted(c)}

Missing == {c \in Colony : status[c] \in Verdict /\ ~Receipted(c)}

(* What is missing is computed after the replay; the running colonies are   *)
(* rehydrated later in the lifespan, before which the backfill cannot move  *)
(* if there is one.  Without a memory store there is no backfill.           *)
Restart ==
    /\ ~up
    /\ up' = TRUE
    /\ todo' = IF HasMemoryStore THEN Missing ELSE {}
    /\ loop' = [c \in Colony |->
                   IF status[c] = "running" THEN "rounds" ELSE "none"]
    /\ UNCHANGED <<stored, queue, draining, job, marked, history, counters>>

-----------------------------------------------------------------------------
LoopStep(c) == Settle(c) \/ LoopDies(c) \/ PostColonyHooks(c) \/ TaskDone(c)
JobStep(w) == Answer(w) \/ Create(w) \/ Verify(w) \/ Confirm(w) \/ Raise(w)

Next == \/ \E c \in Colony : SpawnColony(c) \/ LoopStep(c) \/ KillColony(c)
                             \/ ActivateService(c) \/ BackfillTakes(c)
        \/ DrainTakes
        \/ \E w \in Worker : JobStep(w)
        \/ Crash \/ Restart

Spec == Init /\ [][Next]_vars

(* A round loop ends: rounds are counted and every call in one times out.   *)
(* The event loop resumes a task whose wait is over, a server that stopped  *)
(* is started again; nobody has to spawn, kill or crash.                    *)
Fairness ==
    /\ \A c \in Colony : WF_vars(LoopStep(c))
    /\ WF_vars(DrainTakes)
    /\ WF_vars(\E c \in Colony : BackfillTakes(c))
    /\ \A w \in Worker : WF_vars(JobStep(w))
    /\ WF_vars(Restart)

FairSpec == Spec /\ Fairness

-----------------------------------------------------------------------------
(* Properties.                                                              *)

(* Types, and work never waits without a drain task to take it.             *)
TypeOK ==
    /\ status \in [Colony -> Status]
    /\ entry \in [Colony -> {"none", "candidate", "verified", "rejected"}]
    /\ receipts \subseteq Colony \X Kind
    /\ up \in BOOLEAN
    /\ loop \in [Colony -> Verdict \cup {"none", "rounds", "closing"}]
    /\ queue \in Seq(Work)
    /\ draining \in BOOLEAN
    /\ todo \subseteq Colony
    /\ job \in [Worker -> Job \cup {Idle}]
    /\ marked \subseteq Colony \X Kind
    /\ runs \in [Colony -> Nat]
    /\ raised \subseteq Colony
    /\ crashes \in 0..MaxCrashes /\ faults \in 0..MaxFaults
    /\ commands \in 0..MaxCommands
    /\ queue # <<>> => draining

(* One extraction per colony and life of the process: neither the hooks and *)
(* the backfill of one life, nor a colony that is rehydrated, killed,       *)
(* served or failed on the way, make two (app.py:561).                      *)
RunsPerLife == \A c \in Colony : runs[c] <= 1

(* A receipt is final: no extraction of a colony that has one, be it one    *)
(* already under way, writes over the entry the colony left (app.py:565).   *)
ReceiptIsFinal ==
    [][\A c \in Colony :
          Receipted(c) => /\ runs'[c] <= runs[c]
                          /\ entry'[c] = entry[c]]_vars

(* Post-colony work never begins while a colony is in its rounds, whether   *)
(* the drain takes it (by tasks, colony_manager.py:501) or the backfill (by *)
(* statuses, app.py:586), rehydrated and late colonies included.            *)
WorkYields ==
    [][\A w \in Worker :
          (job[w] = Idle /\ job'[w] # Idle) =>
             ~\E c \in Colony : status[c] = "running" /\ loop[c] # "none"]_vars

(* What a failed colony leaves is never verified, neither by the job queued *)
(* with its verdict nor by a later life's backfill (colony_manager.py:2591).*)
FailureUnverified ==
    \A c \in Colony : entry[c] = "verified" => status[c] # "failed"

Owed(c) ==
    \/ c \in todo
    \/ \E i \in 1..Len(queue) : queue[i].colony = c /\ queue[i].kind = "extraction"
    \/ \E w \in Worker : job[w] # Idle /\ job[w].work.colony = c
                                       /\ job[w].work.kind = "extraction"

(* A colony nobody runs and no event settled; only a restart revives it.    *)
Orphaned == up /\ \E c \in Colony : status[c] = "running" /\ loop[c] = "none"

(* An extraction that is owed gets its receipt, in this life or the next,   *)
(* once colonies stop coming (a steady stream of them may starve it).  It   *)
(* may be lost in three ways: an exception in it; a colony killed or made a *)
(* service after its verdict, which the backfill of the next life passes    *)
(* over; a colony whose loop died, for which the backfill waits             *)
(* (colony_manager.py:501, app.py:586).  Without a memory store no later    *)
(* life pays what a crash left owed (app.py:560).                           *)
EventuallyReceipted ==
    HasMemoryStore => \A c \in Colony :
       Owed(c) ~> \/ Receipted(c)
                  \/ c \in raised
                  \/ status[c] \in {"killed", "service"}
                  \/ Orphaned
=============================================================================
