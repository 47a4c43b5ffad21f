------------------------------- MODULE Autonomy -------------------------------
(***************************************************************************)
(* Autonomous maintenance of one workspace: the operational sweep of        *)
(* surface/app.py, MaintenanceDispatcher (surface/self_maintenance.py), the *)
(* action queue (surface/action_queue.py), idle continuations               *)
(* (surface/continuation.py) and the operator's decisions (routes/api.py).  *)
(*                                                                          *)
(* The ledger is a file that every actor rereads and rewrites without       *)
(* awaiting, so an update is atomic; what an actor read before it awaited a *)
(* spawn may be stale when it updates.  A spawn is two steps: the colony    *)
(* exists, then its spawner goes on (or fan-out raised and it goes on with  *)
(* an exception).  Spending is counted in memory and mirrored to a file.    *)
(***************************************************************************)
EXTENDS Subsequences, FiniteSets

CONSTANTS Budget,        \* policy.daily_maintenance_budget
          MaxActive,     \* policy.max_maintenance_colonies
          Costs,         \* estimated costs of insights' colonies
          ContinueCost,  \* estimated cost of a continuation
          Compact, Keep, \* _COMPACT_THRESHOLD, _COMPACT_KEEP
          MaxFailures,   \* failures after which a thread is not proposed again
          MaxActions, MaxColonies, MaxDays, MaxCrashes  \* bounds

ASSUME AutonomyAssumption ==
    /\ {Budget, MaxActive, ContinueCost, Compact, Keep, MaxFailures,
        MaxActions, MaxColonies, MaxDays, MaxCrashes} \subseteq Nat
    /\ Costs \subseteq Nat

VARIABLES
    ledger,    \* actions.jsonl: what is proposed, in the file's order
    nextId,    \* ids are drawn by uuid4
    sweep,     \* where the operational sweep is
    asked,     \* approve_action handlers awaiting a spawn: [act, colony or 0]
    reviews,   \* review_action handlers that await an event
    colonies,  \* what was spawned, in order
    spend, lastReset, estimates,  \* _daily_spend, _last_reset, _estimated_costs
    persisted, \* daily_spend.json
    day, crashes,
    history    \* what the properties remember

autonomyVars == <<ledger, nextId, sweep, asked, reviews, colonies, spend, lastReset,
                  estimates, persisted, day, crashes, history>>

Kind   == {"maintenance", "continuation", "knowledge_review"}
Status == {"pending_review", "approved", "rejected", "executed",
           "self_rejected", "failed"}
Level  == {"suggest", "auto_notify", "autonomous"}
Id     == 1..MaxActions
Action == [id : Id, kind : Kind, status : Status]

Transitions == [s \in Status |->
    CASE s = "pending_review" -> {"approved", "rejected", "self_rejected"}
      [] s = "approved" -> {"executed", "failed"}
      [] s = "failed" -> {"pending_review"}
      [] OTHER -> {}]

Idle == [pc |-> "idle", spawn |-> "no", act |-> 0, cost |-> 0, active |-> 0,
         left |-> 0, level |-> "suggest", colony |-> 0, todo |-> <<>>]

AutonomyInit ==
    /\ ledger = <<>> /\ nextId = 1
    /\ sweep = Idle
    /\ asked = {} /\ reviews = {}
    /\ colonies = <<>>
    /\ spend = 0 /\ lastReset = 0 /\ estimates = {}
    /\ persisted = [date |-> 0, spend |-> 0]
    /\ day = 1 /\ crashes = 0
    /\ history = [approved |-> {}, charged |-> 0,
                  forgotten |-> 0, unbriefed |-> FALSE]

-----------------------------------------------------------------------------
(* The ledger.                                                              *)

Entry(id)   == {i \in DOMAIN ledger : ledger[i].id = id}
Present(id) == Entry(id) # {}
Record(id)  == ledger[CHOOSE i \in Entry(id) : TRUE]
Having(status) == {id \in Id : Present(id) /\ Record(id).status = status}

(* Mutated: any status may follow any other.                                *)
AllowsAny(id, status) == TRUE

(* update_action raises ValueError otherwise; an id that is not in the file *)
(* is no error.                                                             *)
Allows(id, status) ==
    Present(id) => status \in Transitions[Record(id).status]

UpdateAction(id, status) ==
    [i \in DOMAIN ledger |-> IF i \in Entry(id)
                             THEN [ledger[i] EXCEPT !.status = status]
                             ELSE ledger[i]]

AppendAction(kind, status) ==
    /\ nextId <= MaxActions
    /\ nextId' = nextId + 1
    /\ ledger' = Append(ledger, [id |-> nextId, kind |-> kind, status |-> status])

(* Mutated: pending proposals are archived with the others.                 *)
LivesOnNone(e) == FALSE

LivesOn(e) == e.status = "pending_review"

(* compact_action_log, with the archive left out.                           *)
Compacted ==
    LET pending == Kept(ledger, {e \in Action : LivesOn(e)})
        settled == Kept(ledger, {e \in Action : ~LivesOn(e)}) IN
    IF Len(ledger) <= Compact \/ Len(settled) <= Keep THEN ledger
    ELSE pending \o SubSeq(settled, Len(settled) - Keep + 1, Len(settled))

-----------------------------------------------------------------------------
(* Spending.                                                                *)

(* Mutated: the spending of the day is not reloaded.                        *)
AfterResetEmpty == IF lastReset = day THEN spend ELSE 0

(* _reset_daily_budget_if_needed                                            *)
AfterReset ==
    IF lastReset = day THEN spend
    ELSE IF persisted.date = day THEN persisted.spend ELSE 0

(* A colony of cost 0 runs on local models and is not counted.              *)
Charge(cost, colony) ==
    IF cost = 0 THEN UNCHANGED <<spend, persisted, estimates>>
    ELSE /\ spend' = spend + cost
         /\ persisted' = [date |-> day, spend |-> spend + cost]
         /\ estimates' = estimates \cup {colony}

(* reconcile_colony_cost                                                    *)
Reconcile(colony, actual) ==
    IF colony \notin estimates THEN UNCHANGED <<spend, persisted, estimates>>
    ELSE LET cost == colonies[colony].cost
             new  == IF spend + actual >= cost THEN spend + actual - cost ELSE 0 IN
         /\ estimates' = estimates \ {colony}
         /\ spend' = new
         /\ persisted' = IF actual = cost THEN persisted
                         ELSE [date |-> day, spend |-> new]

SpawnColony(act, cost) ==
    /\ Len(colonies) < MaxColonies
    /\ colonies' = Append(colonies,
         [act |-> act, cost |-> cost, status |-> "spawned"])

Colony == Len(colonies) + 1

(* What the file and the memory will never count.                           *)
Forget(cost) == history' = [history EXCEPT !.forgotten = @ + cost]

Spending == <<spend, lastReset, estimates, persisted>>
Clock    == <<day, crashes>>
Desk     == <<asked, reviews>>  \* the operator's requests

-----------------------------------------------------------------------------
(* The sweep.  Step 1, proactive dispatch: run_proactive_dispatch.          *)

(* No event gives a colony tags, and ColonyProjection has none.             *)
Tags(c) == {}
ActiveMaintenance ==
    Cardinality({c \in DOMAIN colonies :
                    colonies[c].status # "over" /\ "maintenance" \in Tags(c)})

(* policy.autonomy_level is whatever the operator set when it is read.      *)
StartSweep(level) ==
    /\ sweep.pc = "idle"
    /\ \/ /\ lastReset' = day
          /\ spend' = AfterReset
          /\ sweep' = [Idle EXCEPT !.pc = "dispatch", !.level = level,
                                   !.active = ActiveMaintenance,
                                   !.left = IF Budget > AfterReset
                                            THEN Budget - AfterReset ELSE 0]
          /\ UNCHANGED history
       \/ /\ sweep' = [Idle EXCEPT !.pc = "review"]  \* generate_briefing raises
          /\ history' = [history EXCEPT !.unbriefed = TRUE]
          /\ UNCHANGED <<spend, lastReset>>
    /\ UNCHANGED <<ledger, nextId, colonies, estimates, persisted,
                   Desk, Clock>>

(* evaluate_and_dispatch, one insight with a suggested colony.              *)
Insight(cost, optedIn, blast) ==
    LET held == \/ blast = "escalate"
                \/ blast = "notify" /\ sweep.level = "auto_notify"
        seen == sweep.level # "auto_notify" \/ optedIn IN
    /\ sweep.pc = "dispatch" /\ sweep.spawn = "no"
    /\ sweep.level # "suggest" =>
          sweep.active < MaxActive /\ (cost = 0 \/ cost <= sweep.left)
    /\ \/ /\ sweep.level = "suggest" \/ (seen /\ held)
          /\ AppendAction("maintenance", "pending_review")
          /\ UNCHANGED sweep
       \/ /\ sweep.level # "suggest" /\ ~seen
          /\ AppendAction("maintenance", "self_rejected")
          /\ UNCHANGED sweep
       \/ /\ sweep.level # "suggest" /\ seen /\ ~held
          /\ sweep' = [sweep EXCEPT !.spawn = "asked", !.cost = cost]
          /\ UNCHANGED <<ledger, nextId>>
    /\ UNCHANGED <<colonies, history, Spending, Desk, Clock>>

(* The insights run out, or the colonies the sweep may have active.         *)
EndDispatch ==
    /\ sweep.pc = "dispatch" /\ sweep.spawn = "no"
    /\ sweep' = [Idle EXCEPT !.pc = "review"]
    /\ UNCHANGED <<ledger, nextId, colonies, history, Spending, Desk, Clock>>

-----------------------------------------------------------------------------
(* Steps 2 and 3: scan_knowledge_for_review (of one entry) and              *)
(* queue_continuation_proposals (of one thread).  Steps 5 and 6 raise       *)
(* before they propose: the sweep hands them the projections for the        *)
(* outcomes they iterate over.                                              *)

Proposed(kind, status) ==
    {id \in Having(status) : Record(id).kind = kind}

Propose(kind) ==
    /\ sweep.pc = "review"
    /\ kind \in {"knowledge_review", "continuation"}
    /\ Proposed(kind, "pending_review") = {}
    /\ kind = "continuation" => Cardinality(Proposed(kind, "failed")) < MaxFailures
    /\ AppendAction(kind, "pending_review")
    /\ UNCHANGED <<sweep, colonies, history, Spending, Desk, Clock>>

EndProposals ==
    /\ sweep.pc = "review"
    /\ sweep' = [Idle EXCEPT !.pc = "continue"]
    /\ UNCHANGED <<ledger, nextId, colonies, history, Spending, Desk, Clock>>

(* Step 4: execute_idle_continuations, at most one a sweep.                 *)
Continuations ==
    Kept(ledger, {e \in Action : e.kind = "continuation" /\ e.status = "approved"})

Continue(level) ==
    /\ sweep.pc = "continue" /\ sweep.spawn = "no"
    /\ level = "autonomous"
    /\ Having("pending_review") = {}
    /\ Continuations # <<>>
    /\ spend + ContinueCost <= Budget
    /\ sweep' = [sweep EXCEPT !.spawn = "asked", !.cost = ContinueCost,
                              !.act = Head(Continuations).id]
    /\ UNCHANGED <<ledger, nextId, colonies, history, Spending, Desk, Clock>>

(* Mutated: pending proposals are executed too.                             *)
ToExecuteAll == {"approved", "pending_review"}

(* Mutated: an action approved earlier is left alone.                       *)
ToExecuteNone == {}

ToExecute == {"approved"}

(* Step 7 compacts the ledger and takes its list from it; step 4 did        *)
(* nothing (blast radius, operator not idle, a guard of Continue).          *)
EndContinue ==
    LET due == Kept(Compacted, {e \in Action :
                   e.kind # "knowledge_review" /\ e.status \in ToExecute}) IN
    /\ sweep.pc \in {"continue", "continued"} /\ sweep.spawn = "no"
    /\ ledger' = Compacted
    /\ sweep' = [Idle EXCEPT !.pc = "approved",
                             !.todo = [i \in DOMAIN due |-> due[i].id]]
    /\ UNCHANGED <<nextId, colonies, history, Spending, Desk, Clock>>

ExecuteApproved ==
    /\ sweep.pc = "approved" /\ sweep.spawn = "no"
    /\ sweep' = IF sweep.todo = <<>> THEN Idle
                ELSE [sweep EXCEPT !.spawn = "asked", !.act = Head(sweep.todo),
                                   !.todo = Tail(sweep.todo)]
    /\ UNCHANGED <<ledger, nextId, colonies, history, Spending, Desk, Clock>>

-----------------------------------------------------------------------------
(* What the sweep does when its spawn exists, returns or raises.            *)

SweepSpawns ==
    /\ sweep.spawn = "asked"
    /\ SpawnColony(sweep.act, sweep.cost)
    /\ sweep' = [sweep EXCEPT !.spawn = "made", !.colony = Colony]
    /\ history' = [history EXCEPT !.charged = @ + sweep.cost]
    /\ UNCHANGED <<ledger, nextId, Spending, Desk, Clock>>

Executed(id) == UpdateAction(id, "executed")

Failed(id) == UpdateAction(id, "failed")

(* The spawn returned: step 1 charges it, step 4 books it and charges it,   *)
(* step 7 only books it.                                                    *)
SweepBooks ==
    /\ sweep.spawn = "made"
    /\ sweep.pc = "dispatch" \/ Allows(sweep.act, "executed")
    /\ Charge(sweep.cost, sweep.colony)
    /\ sweep' =
         IF sweep.pc = "dispatch"
         THEN [sweep EXCEPT !.spawn = "no", !.cost = 0, !.colony = 0,
                            !.active = @ + 1, !.left = @ - sweep.cost]
         ELSE [Idle EXCEPT !.todo = sweep.todo,
                 !.pc = IF sweep.pc = "continue" THEN "continued" ELSE sweep.pc]
    /\ ledger' = IF sweep.pc = "dispatch" THEN ledger ELSE Executed(sweep.act)
    /\ UNCHANGED <<nextId, colonies, lastReset, history, Desk, Clock>>

(* The spawn raised, before or after the colony existed, or the booking did:*)
(* the handler marks the action failed, unless that raises as well, which   *)
(* ends step 7 but not the sweep before it.                                 *)
SweepFails ==
    LET noted == sweep.pc # "dispatch" /\ Allows(sweep.act, "failed") IN
    /\ \/ sweep.spawn = "asked"
       \/ sweep.spawn = "made"
    /\ ledger' = IF noted THEN Failed(sweep.act) ELSE ledger
    /\ sweep' = CASE sweep.pc = "dispatch" -> [Idle EXCEPT !.pc = "review"]
                  [] sweep.pc = "continue" -> [Idle EXCEPT !.pc = "continued"]
                  [] OTHER -> IF noted
                              THEN [Idle EXCEPT !.pc = "approved", !.todo = sweep.todo]
                              ELSE Idle
    /\ IF sweep.spawn = "made" THEN Forget(sweep.cost) ELSE UNCHANGED history
    /\ UNCHANGED <<nextId, colonies, Spending, Desk, Clock>>

-----------------------------------------------------------------------------
(* The operator.                                                            *)

(* approve_action: an action with a suggested colony is run at once.        *)
Approve(id) ==
    /\ Present(id) /\ Allows(id, "approved")
    /\ ledger' = UpdateAction(id, "approved")
    /\ asked' = IF Record(id).kind = "knowledge_review" THEN asked
                ELSE asked \cup {[act |-> id, colony |-> 0]}
    /\ history' = [history EXCEPT !.approved = @ \cup {id}]
    /\ UNCHANGED <<nextId, sweep, reviews, colonies, Spending, Clock>>

HandlerSpawns(h) ==
    /\ h.colony = 0
    /\ SpawnColony(h.act, 0)
    /\ asked' = (asked \ {h}) \cup {[h EXCEPT !.colony = Colony]}
    /\ UNCHANGED <<ledger, nextId, sweep, reviews, history, Spending, Clock>>

(* The handler books its colony.  If it may not, the sweep was here first:  *)
(* marking the action failed raises too and the request ends with a 500.    *)
HandlerBooks(h) ==
    /\ h.colony # 0
    /\ ledger' = IF Allows(h.act, "executed") THEN Executed(h.act) ELSE ledger
    /\ asked' = asked \ {h}
    /\ UNCHANGED <<nextId, sweep, reviews, colonies, history, Spending, Clock>>

(* Its spawn raised, before or after the colony existed.                    *)
HandlerFails(h) ==
    /\ ledger' = IF Allows(h.act, "failed") THEN Failed(h.act) ELSE ledger
    /\ asked' = asked \ {h}
    /\ UNCHANGED <<nextId, sweep, reviews, colonies, history, Spending, Clock>>

Reject(id) ==
    /\ Present(id) /\ Allows(id, "rejected")
    /\ ledger' = UpdateAction(id, "rejected")
    /\ UNCHANGED <<nextId, sweep, colonies, history, Spending, Desk, Clock>>

(* review_action emits its event whatever the status of the action.         *)
Review(id) ==
    /\ Present(id) /\ Record(id).kind = "knowledge_review"
    /\ reviews' = reviews \cup {id}
    /\ UNCHANGED <<ledger, nextId, sweep, asked, colonies, history,
                   Spending, Clock>>

(* Marking it executed raises unless it was approved: a pending review      *)
(* stays pending after its event.  The event may raise as well.             *)
ReviewEnds(id) ==
    /\ id \in reviews
    /\ reviews' = reviews \ {id}
    /\ \/ Allows(id, "executed") /\ ledger' = Executed(id)
       \/ UNCHANGED ledger
    /\ UNCHANGED <<nextId, sweep, asked, colonies, history, Spending, Clock>>

-----------------------------------------------------------------------------
(* Colonies, time and crashes.                                              *)

(* Only start_colony and rehydrate give a colony a task, and the spawners   *)
(* of this module call neither: a colony has one after a restart, which     *)
(* emptied _estimated_costs.                                                *)
ColonyEnds(c, actual) ==
    /\ colonies[c].status = "tasked"
    /\ colonies' = [colonies EXCEPT ![c].status = "over"]
    /\ Reconcile(c, actual)
    /\ UNCHANGED <<ledger, nextId, sweep, lastReset, history, Desk, Clock>>

NewDay ==
    /\ day < MaxDays
    /\ day' = day + 1
    /\ history' = [history EXCEPT !.charged = 0, !.forgotten = 0,
                                  !.unbriefed = FALSE]
    /\ UNCHANGED <<ledger, nextId, sweep, colonies, crashes, Spending, Desk>>

(* The files, and the colonies, survive.                                    *)
Crash ==
    /\ crashes < MaxCrashes
    /\ crashes' = crashes + 1
    /\ sweep' = Idle /\ asked' = {} /\ reviews' = {}
    /\ spend' = 0 /\ lastReset' = 0 /\ estimates' = {}
    /\ colonies' = [c \in DOMAIN colonies |->
                      [colonies[c] EXCEPT !.status =
                         IF @ = "spawned" THEN "tasked" ELSE @]]
    /\ IF sweep.spawn = "made" THEN Forget(sweep.cost) ELSE UNCHANGED history
    /\ UNCHANGED <<ledger, nextId, persisted, day>>

SweepStep ==
    \/ \E level \in Level : StartSweep(level) \/ Continue(level)
    \/ EndDispatch \/ EndProposals \/ EndContinue \/ ExecuteApproved
    \/ SweepSpawns \/ SweepBooks \/ SweepFails

HandlerStep ==
    \E h \in asked : HandlerSpawns(h) \/ HandlerBooks(h) \/ HandlerFails(h)

AutonomyNext ==
    \/ SweepStep
    \/ \E cost \in Costs, optedIn \in BOOLEAN,
          blast \in {"proceed", "notify", "escalate"} : Insight(cost, optedIn, blast)
    \/ \E kind \in Kind : Propose(kind)
    \/ HandlerStep
    \/ \E id \in Id : Approve(id) \/ Reject(id) \/ Review(id) \/ ReviewEnds(id)
    \/ \E c \in DOMAIN colonies, actual \in Costs : ColonyEnds(c, actual)
    \/ NewDay \/ Crash

(* A sweep runs every interval; its steps, a handler and a colony with a    *)
(* task go on.                                                              *)
Fairness ==
    /\ WF_autonomyVars(SweepStep) /\ WF_autonomyVars(HandlerStep)
    /\ \A c \in 1..MaxColonies :
         WF_autonomyVars(c \in DOMAIN colonies /\ \E actual \in Costs : ColonyEnds(c, actual))

AutonomySpec == AutonomyInit /\ [][AutonomyNext]_autonomyVars

FairSpec == AutonomySpec /\ Fairness

-----------------------------------------------------------------------------
(* Properties.                                                              *)

(* Every variable has its type: the ledger holds well-formed actions whose  *)
(* ids are their own, and a sweep or handler that made a colony names one   *)
(* that exists.                                                             *)
AutonomyTypeOK ==
    /\ ledger \in Seq(Action)
    /\ \A i, j \in DOMAIN ledger : ledger[i].id = ledger[j].id => i = j
    /\ nextId \in 1..(MaxActions + 1)
    /\ sweep.spawn \in {"no", "asked", "made"}
    /\ sweep.spawn = "made" => sweep.colony \in DOMAIN colonies
    /\ \A h \in asked : h.act \in Id /\ h.colony \in {0} \cup DOMAIN colonies
    /\ reviews \subseteq Id
    /\ {spend, lastReset, day, crashes} \subseteq Nat
    /\ estimates \subseteq DOMAIN colonies

(* Across any step of any actor, an action leaves pending_review only by a  *)
(* decision of the operator, leaves approved only as executed or failed,    *)
(* leaves no terminal status, and compaction archives no pending action     *)
(* (action_queue.py _VALID_TRANSITIONS, compact_action_log).                *)
Settles(before, after) ==
    \/ after = before
    \/ before = "pending_review" /\ after \in {"approved", "rejected"}
    \/ before = "approved" /\ after \in {"executed", "failed"}

LedgerMoves ==
    [][\A i \in DOMAIN ledger :
         \/ \E j \in DOMAIN ledger' :
               /\ ledger'[j].id = ledger[i].id
               /\ Settles(ledger[i].status, ledger'[j].status)
         \/ /\ \A j \in DOMAIN ledger' : ledger'[j].id # ledger[i].id
            /\ ledger[i].status # "pending_review"]_autonomyVars

(* A colony that runs a proposed action was approved by the operator, never *)
(* rejected, however stale the list of the sweep that spawned it            *)
(* (app.py step 7, continuation.py, approve_action).                        *)
SpawnedByApproval ==
    \A c \in DOMAIN colonies : colonies[c].act # 0 =>
        /\ colonies[c].act \in history.approved
        /\ colonies[c].act \notin Having("rejected")

(* One approval runs at most twice, once for the handler and once for the   *)
(* sweep that read the action while the handler awaited its spawn, and once *)
(* more per crash between a spawn and its booking.                          *)
RunsPerApproval ==
    \A id \in Id :
        Cardinality({c \in DOMAIN colonies : colonies[c].act = id}) <= 2 + crashes

(* What runs a proposed action was approved, and is spawned a bounded       *)
(* number of times.                                                         *)
RunsAsApproved == SpawnedByApproval /\ RunsPerApproval

(* The colonies that a day's sweeps spawned of their own accord cost no     *)
(* more than the budget, through restarts and midnight, except for those    *)
(* whose spawn was never booked and for the sweeps whose briefing raised    *)
(* before they read the day's spending (daily_maintenance_budget).          *)
DailyCap == ~history.unbriefed => history.charged <= Budget + history.forgotten

(* An approved action that suggests a colony is eventually executed, failed *)
(* or archived: the sweep picks up what a crash or a failed request left.   *)
ApprovedSettles ==
    \A id \in Id :
        [](Present(id) /\ Record(id).status = "approved"
              /\ Record(id).kind # "knowledge_review"
           => <>~(Present(id) /\ Record(id).status = "approved"))
=============================================================================
