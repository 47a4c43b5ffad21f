----------------------------- MODULE WorkPlans -----------------------------
(***************************************************************************)
(* A thread's work: colonies spawned one by one, for a workflow step, as a  *)
(* retry or as a parallel plan (queen_tools.py); the round loops that spend *)
(* the workspace's money (colony_manager.py, BudgetEnforcer in runtime.py); *)
(* the steps they close (projections.py, routes/api.py) and the follow-ups  *)
(* the Queen writes when they end (queen_runtime.py, parallel_plans.py).    *)
(*                                                                          *)
(* A step of this module is what a coroutine does between two awaits: what  *)
(* it read before emit_and_broadcast may be stale when its event is         *)
(* projected.  The Queen serves one turn of a thread at a time, so her tool *)
(* in progress is one record; so is the client's request.  Ids that         *)
(* _spawn_parallel allots before spawning are the tasks' own names: Runtime.*)
(* spawn_colony makes another id, so that the two never meet.               *)
(*                                                                          *)
(* A colony's terminal event and its projection are one step here: their    *)
(* race with a kill is the subject of ColonyLifecycle.  Descriptions, goals *)
(* and the status of the thread, which nothing below reads, are left out.   *)
(***************************************************************************)
EXTENDS Integers, Sequences, FiniteSets, SequencesExt, FiniteSetsExt

CONSTANTS Colony,       \* ids spawn_colony hands out
          Task,         \* tasks of the parallel plan, and their pre-allotted ids
          GroupOf,      \* [Task -> Nat]: the plan's parallel_groups
          InputFrom,    \* [Task -> SUBSET Task]: ColonyTask.input_from
          Limit,        \* the workspace's budget_limit
          ColonyLimit,  \* a colony's budget_limit
          RoundCost,    \* the most the calls of one round cost
          None,         \* no colony
          EditStatus,   \* statuses a client writes; "" leaves the old one
          MaxSteps,     \* bound: workflow steps in the thread
          MaxEdits,     \* bound: edits of steps and kills
          MaxRestarts   \* bound: restarts in a behaviour

ASSUME WorkPlansAssumption ==
    /\ GroupOf \in [Task -> Nat] /\ InputFrom \in [Task -> SUBSET Task]
    /\ Limit \in Nat \ {0} /\ ColonyLimit \in Nat \ {0} /\ RoundCost \in Nat
    /\ EditStatus \subseteq {"", "pending", "running", "completed", "failed", "skipped"}
    /\ IsFiniteSet(Colony)
    /\ MaxSteps \in Nat /\ MaxEdits \in Nat /\ MaxRestarts \in Nat
    /\ Task \cap Colony = {} /\ None \notin Task \cup Colony

VARIABLES
    status,    \* ColonyProjection.status; "none": not spawned
    paid,      \* TokensConsumed of each colony
    spent,     \* WorkspaceProjection.budget, its account
    loop,      \* where a colony's round loop is
    total,     \* total_cost, a local variable of the loop
    closing,   \* the step index _hook_step_completion has read
    steps,     \* ThreadProjection.workflow_steps
    depth,     \* ThreadProjection.continuation_depth
    tracker,   \* ParallelPlanTracker: [Task -> [col, state]] once registered
    pending,   \* _pending_parallel: which of a plan's ids have reported
    follow,    \* each colony's follow-up coroutine
    gathered,  \* spawn_parallel's colonies until the tracker knows them
    queen,     \* the Queen's tool in progress
    client,    \* the client's request in progress
    won,       \* colonies whose hooks ran with succeeded=True
    edits, restarts

money  == <<paid, spent, total>>
thread == <<steps, depth>>
plan   == <<tracker, pending>>
ops    == <<queen, client>>
counts == <<edits, restarts>>
vars   == <<status, money, loop, closing, thread, plan, gathered, follow, ops, won, counts>>

NoStep  == -1
Idle    == [at |-> "idle", col |-> None, step |-> NoStep, status |-> "", pos |-> NoStep]
Step    == [idx : Nat, status : {"pending", "running", "completed", "failed", "skipped"},
            col : Colony \cup {None}]
Ended   == {"completed", "failed"}

Init ==
    /\ status = [c \in Colony |-> "none"] /\ loop = [c \in Colony |-> "none"]
    /\ paid = [c \in Colony |-> 0] /\ spent = 0 /\ total = paid
    /\ closing = [c \in Colony |-> NoStep]
    /\ steps = <<>> /\ depth = 0
    /\ tracker = <<>> /\ pending = <<>> /\ gathered = <<>>
    /\ follow = [c \in Colony |-> "none"]
    /\ queen = Idle /\ client = Idle
    /\ won = {} /\ edits = 0 /\ restarts = 0

-----------------------------------------------------------------------------
(* Projections.                                                            *)

OnSpawned(c, i) ==
    LET k == SelectInSeq(steps, LAMBDA s : s.idx = i /\ s.status = "pending")
    IN steps' = IF i = NoStep \/ k = 0 THEN steps
                ELSE [steps EXCEPT ![k].status = "running", ![k].col = c]

OnStepDefined(i) ==
    steps' = Append(steps, [idx |-> i, status |-> "pending", col |-> None])

\* Mutated: without the break every step with that index counts.
ClosesEvery(c, i, ok) ==
    /\ steps' = [k \in DOMAIN steps |-> IF steps[k].idx # i THEN steps[k]
                 ELSE [steps[k] EXCEPT !.status = IF ok THEN "completed" ELSE "failed",
                                       !.col = c]]
    /\ depth' = depth + IF ok THEN Cardinality({k \in DOMAIN steps : steps[k].idx = i})
                              ELSE 0

OnStepCompleted(c, i, ok) ==
    LET k == SelectInSeq(steps, LAMBDA s : s.idx = i)
    IN /\ steps' = IF k = 0 THEN steps
                   ELSE [steps EXCEPT ![k].status = IF ok THEN "completed" ELSE "failed",
                                      ![k].col = c]
       /\ depth' = IF ok /\ k # 0 THEN depth + 1 ELSE depth

Moved(s, k, pos) ==
    LET rest == RemoveAt(s, k)
        at   == IF pos < Len(rest) THEN pos ELSE Len(rest)
        new  == InsertAt(rest, at + 1, s[k])
    IN [j \in DOMAIN new |-> [new[j] EXCEPT !.idx = j - 1]]

OnStepUpdated(i, new, pos) ==
    LET k == SelectInSeq(steps, LAMBDA s : s.idx = i)
        s == IF k = 0 \/ new = "" THEN steps ELSE [steps EXCEPT ![k].status = new]
    IN steps' = IF k # 0 /\ pos >= 0 /\ pos # i THEN Moved(s, k, pos) ELSE s

-----------------------------------------------------------------------------
(* The Queen's tools.                                                      *)

\* Mutated: no hard stop at a spawn nor at the head of a round.
NeverStops == FALSE

HardStop == spent >= Limit

Free(c) == status[c] = "none" /\ loop[c] = "none"
           /\ c \notin {queen.col, client.col} \cup Range(gathered)

\* spawn_colony: the budget is checked, then ColonySpawned is emitted.
SpawnColony(c, i) ==
    /\ queen.at = "idle" /\ Free(c) /\ ~HardStop
    /\ queen' = [Idle EXCEPT !.at = "spawn", !.col = c, !.step = i]
    /\ UNCHANGED <<status, money, loop, closing, thread, plan, gathered, follow, client, won, counts>>

SpawnForStep == \E c \in Colony, s \in Range(steps) : SpawnColony(c, s.idx)

\* retry_colony spawns without a step index, whatever the original was for.
RetryColony == \E c, o \in Colony : status[o] \in Ended /\ SpawnColony(c, NoStep)

Starts(c, i) ==
    /\ status' = [status EXCEPT ![c] = "running"]
    /\ loop' = [loop EXCEPT ![c] = "head"]
    /\ OnSpawned(c, i)

QueenSpawned ==
    /\ queen.at = "spawn" /\ Starts(queen.col, queen.step)
    /\ queen' = Idle
    /\ UNCHANGED <<money, closing, depth, plan, gathered, follow, client, won, counts>>

\* spawn_parallel: no budget check; the plan is registered under ids that no
\* colony will have; a task of the first group with an input finds no completed
\* source under such an id and is not spawned; later groups are left for later.
Spawnable == {t \in Task : GroupOf[t] = 0 /\ InputFrom[t] = {}}

SpawnParallel ==
    /\ queen.at = "idle" /\ tracker = <<>> /\ Task # {}
    /\ \E g \in [Spawnable -> {c \in Colony : Free(c)}] :
        /\ IsInjective(g)
        /\ gathered' = g
    /\ tracker' = [t \in Task |-> [col |-> t, state |-> "pending"]]
    /\ pending' = [t \in Task |-> FALSE]
    /\ queen' = [Idle EXCEPT !.at = "gather"]
    /\ UNCHANGED <<status, money, loop, closing, thread, follow, client, won, counts>>

GatherOne(t) ==
    LET c == gathered[t] IN
    /\ queen.at = "gather" /\ status[c] = "none"
    /\ status' = [status EXCEPT ![c] = "running"]
    /\ loop' = [loop EXCEPT ![c] = "ready"]
    /\ OnSpawned(c, NoStep)
    /\ UNCHANGED <<money, closing, depth, plan, gathered, follow, ops, won, counts>>

\* The started loops are staggered, so that the first may be over when the
\* tracker learns the colony's id.
StartOne(t) ==
    LET c == gathered[t] IN
    /\ queen.at = "gather" /\ loop[c] = "ready"
    /\ \A u \in Spawnable : status[gathered[u]] # "none"
    /\ loop' = [loop EXCEPT ![c] = "head"]
    /\ UNCHANGED <<status, money, closing, thread, plan, gathered, follow, ops, won, counts>>

Dispatched(t) ==
    IF t \in Spawnable THEN [col |-> gathered[t], state |-> "running"]
    ELSE IF GroupOf[t] = 0 THEN [tracker[t] EXCEPT !.state = "running"]
    ELSE tracker[t]

PlanDispatched ==
    /\ queen.at = "gather"
    /\ \A t \in Spawnable : loop[gathered[t]] \notin {"none", "ready"}
    /\ tracker' = [t \in DOMAIN tracker |-> Dispatched(t)]
    /\ gathered' = <<>> /\ queen' = Idle
    /\ UNCHANGED <<status, money, loop, closing, thread, pending, follow, client, won, counts>>

\* define_workflow_steps numbers from 0 in every call and emits one by one.
DefineSteps(n) ==
    /\ queen.at = "idle" /\ Len(steps) + n <= MaxSteps
    /\ queen' = [Idle EXCEPT !.at = "define", !.step = 0, !.pos = n]
    /\ UNCHANGED <<status, money, loop, closing, thread, plan, gathered, follow, client, won, counts>>

DefineOne ==
    /\ queen.at = "define" /\ OnStepDefined(queen.step)
    /\ queen' = IF queen.step + 1 = queen.pos THEN Idle
                ELSE [queen EXCEPT !.step = @ + 1]
    /\ UNCHANGED <<status, money, loop, closing, depth, plan, gathered, follow, client, won, counts>>

-----------------------------------------------------------------------------
(* Clients: routes/api.py, agui_endpoint.py and routes/a2a.py.             *)

\* Mutated: the index of the last step instead of the next one.
LastIndex == Len(steps) - 1

NextIndex == Len(steps)

AddStep ==
    /\ client.at = "idle" /\ edits < MaxEdits
    /\ Len(steps) < MaxSteps - (IF queen.at = "define" THEN queen.pos - queen.step ELSE 0)
    /\ client' = [Idle EXCEPT !.at = "add", !.step = NextIndex]
    /\ edits' = edits + 1
    /\ UNCHANGED <<status, money, loop, closing, thread, plan, gathered, follow, queen, won, restarts>>

StepAdded ==
    /\ client.at = "add" /\ OnStepDefined(client.step)
    /\ client' = Idle
    /\ UNCHANGED <<status, money, loop, closing, depth, plan, gathered, follow, queen, won, counts>>

EditStep(i, new, pos) ==
    /\ client.at = "idle" /\ edits < MaxEdits
    /\ \E k \in DOMAIN steps : steps[k].idx = i
    /\ client' = [Idle EXCEPT !.at = "edit", !.step = i, !.status = new, !.pos = pos]
    /\ edits' = edits + 1
    /\ UNCHANGED <<status, money, loop, closing, thread, plan, gathered, follow, queen, won, restarts>>

UpdateStep == \E s \in Range(steps), new \in EditStatus, pos \in -1..(MaxSteps - 1) :
                  EditStep(s.idx, new, pos)

DeleteStep == \E s \in Range(steps) : EditStep(s.idx, "skipped", NoStep)

StepEdited ==
    /\ client.at = "edit" /\ OnStepUpdated(client.step, client.status, client.pos)
    /\ client' = Idle
    /\ UNCHANGED <<status, money, loop, closing, depth, plan, gathered, follow, queen, won, counts>>

ClientSpawn(c) ==
    /\ client.at = "idle" /\ Free(c) /\ ~HardStop
    /\ client' = [Idle EXCEPT !.at = "spawn", !.col = c]
    /\ UNCHANGED <<status, money, loop, closing, thread, plan, gathered, follow, queen, won, counts>>

ClientSpawned ==
    /\ client.at = "spawn" /\ Starts(client.col, NoStep)
    /\ client' = Idle
    /\ UNCHANGED <<money, closing, depth, plan, gathered, follow, queen, won, counts>>

-----------------------------------------------------------------------------
(* A colony's round loop and its hooks.                                    *)

\* _on_tokens_consumed adds to the colony's and the workspace's account.
Pays(c, n) == paid' = [paid EXCEPT ![c] = @ + n] /\ spent' = spent + n

Goes(c, pc) == loop' = [loop EXCEPT ![c] = pc]

RoundHead(c) ==
    /\ loop[c] = "head"
    /\ IF HardStop THEN Goes(c, "done") /\ status' = [status EXCEPT ![c] = "failed"]
                   ELSE Goes(c, "round") /\ UNCHANGED status
    /\ total' = [total EXCEPT ![c] = IF HardStop THEN 0 ELSE @]
    /\ UNCHANGED <<paid, spent, closing, thread, plan, gathered, follow, ops, won, counts>>

\* _hook_step_detection: the colony closes a step and another one waits.
Continues(c) ==
    /\ \E s \in Range(steps) : s.col = c /\ s.status = "running"
    /\ \E s \in Range(steps) : s.status = "pending"

\* The terminal event, then the hooks up to their first await.
Ends(c, st) ==
    /\ status' = [status EXCEPT ![c] = st]
    /\ Goes(c, "steps")
    /\ follow' = [follow EXCEPT ![c] = IF Continues(c) THEN "continue" ELSE "due"]
    /\ won' = IF st = "completed" THEN won \cup {c} ELSE won

\* The calls of a round, then the colony's budget and the round's governance.  A
\* round that raises ends the colony like its budget does, without the hooks.
RunRound(c) ==
    /\ loop[c] = "round"
    /\ \E n \in 0..RoundCost :
        /\ Pays(c, n)
        /\ \/ /\ status' = [status EXCEPT ![c] = "failed"]
              /\ Goes(c, "done") /\ UNCHANGED <<follow, won>>
           \/ /\ total[c] + n < ColonyLimit
              /\ \/ Goes(c, "head") /\ UNCHANGED <<status, follow, won>>
                 \/ Ends(c, "completed")
                 \/ Ends(c, "failed")
        /\ total' = [total EXCEPT ![c] = IF loop'[c] = "head" THEN @ + n ELSE 0]
    /\ UNCHANGED <<closing, thread, plan, gathered, ops, counts>>

StepRead(c) ==
    LET k == SelectInSeq(steps, LAMBDA s : s.col = c /\ s.status = "running") IN
    /\ loop[c] = "steps"
    /\ IF k = 0 THEN Goes(c, "done") /\ UNCHANGED closing
       ELSE Goes(c, "closing") /\ closing' = [closing EXCEPT ![c] = steps[k].idx]
    /\ UNCHANGED <<status, money, thread, plan, gathered, follow, ops, won, counts>>

StepClosed(c) ==
    /\ loop[c] = "closing" /\ OnStepCompleted(c, closing[c], c \in won)
    /\ closing' = [closing EXCEPT ![c] = NoStep]
    /\ Goes(c, "done")
    /\ UNCHANGED <<status, money, plan, gathered, follow, ops, won, counts>>

\* kill_colony asks for no status; the loop is cancelled where it stands.
Kill(c) ==
    /\ status[c] \in {"running", "completed", "failed"}
    /\ loop[c] # "ready" /\ edits < MaxEdits
    /\ edits' = edits + 1
    /\ status' = [status EXCEPT ![c] = "killed"]
    /\ Goes(c, "done")
    /\ closing' = [closing EXCEPT ![c] = NoStep]
    /\ total' = [total EXCEPT ![c] = 0]
    /\ UNCHANGED <<paid, spent, thread, plan, gathered, follow, ops, won, restarts>>

-----------------------------------------------------------------------------
(* The follow-up of a finished colony.                                     *)

Verdict(c) == IF status[c] = "failed" THEN "failed" ELSE "completed"

\* Mutated: every task of the colony's group gets its verdict.
GroupMarked(c) ==
    [t \in DOMAIN tracker |->
        IF \E u \in DOMAIN tracker : tracker[u].col = c /\ GroupOf[u] = GroupOf[t]
        THEN [tracker[t] EXCEPT !.state = Verdict(c)] ELSE tracker[t]]

\* ParallelPlanTracker.mark_task_state
Marked(c) ==
    [t \in DOMAIN tracker |-> IF tracker[t].col # c THEN tracker[t]
     ELSE [tracker[t] EXCEPT !.state = Verdict(c)]]

Member(c) == c \in DOMAIN pending

Reported(c) == [i \in DOMAIN pending |-> pending[i] \/ i = c]

AllReported(c) == /\ \A i \in DOMAIN pending : Reported(c)[i]
                  /\ \A t \in DOMAIN tracker : Marked(c)[t].state \in Ended

Summarise(c) == pending' = <<>> /\ follow' = [follow EXCEPT ![c] = "summed"]

\* "told": a card for the colony; "summed": the plan's summary; "held": no card
\* because the plan is not over; "quiet": nobody has written for half an hour,
\* which is a choice here.
FollowUp(c) ==
    /\ follow[c] \in {"due", "continue"}
    /\ \/ /\ follow[c] = "due"
          /\ follow' = [follow EXCEPT ![c] = "quiet"] /\ UNCHANGED plan
       \/ /\ tracker' = Marked(c)
          /\ IF Member(c) /\ AllReported(c)
             THEN Summarise(c)
             ELSE /\ pending' = Reported(c)
                  /\ follow' = [follow EXCEPT ![c] = IF Member(c) THEN "held" ELSE "told"]
    /\ UNCHANGED <<status, money, loop, closing, thread, gathered, ops, won, counts>>

-----------------------------------------------------------------------------
\* A restart loses the tracker, the pending plans, the coroutines and what the
\* loops had counted; running colonies are started again.
Restart ==
    /\ restarts < MaxRestarts
    /\ restarts' = restarts + 1
    /\ tracker' = <<>> /\ pending' = <<>> /\ gathered' = <<>>
    /\ queen' = Idle /\ client' = Idle
    /\ loop' = [c \in Colony |-> IF status[c] = "running" THEN "head"
                                 ELSE IF status[c] = "none" THEN "none" ELSE "done"]
    /\ total' = [c \in Colony |-> 0]
    /\ closing' = [c \in Colony |-> NoStep]
    /\ follow' = [c \in Colony |-> IF follow[c] \in {"due", "continue"} THEN "lost" ELSE follow[c]]
    /\ UNCHANGED <<status, paid, spent, thread, won, edits>>

Next ==
    \/ SpawnForStep \/ RetryColony \/ QueenSpawned
    \/ SpawnParallel \/ PlanDispatched
    \/ \E t \in DOMAIN gathered : GatherOne(t) \/ StartOne(t)
    \/ DefineOne \/ \E n \in 1..2 : DefineSteps(n)
    \/ AddStep \/ StepAdded \/ UpdateStep \/ DeleteStep \/ StepEdited
    \/ ClientSpawned \/ Restart
    \/ \E c \in Colony : \/ ClientSpawn(c) \/ RoundHead(c) \/ RunRound(c)
                         \/ StepRead(c) \/ StepClosed(c) \/ Kill(c) \/ FollowUp(c)

Spec == Init /\ [][Next]_vars

-----------------------------------------------------------------------------
TypeOK ==
    /\ status \in [Colony -> {"none", "running", "completed", "failed", "killed"}]
    /\ paid \in [Colony -> Nat] /\ spent \in Nat /\ total \in [Colony -> Nat]
    /\ loop \in [Colony -> {"none", "ready", "head", "round", "steps", "closing", "done"}]
    /\ closing \in [Colony -> Nat \cup {NoStep}]
    /\ steps \in Seq(Step) /\ depth \in Nat
    /\ DOMAIN tracker \in {{}, Task} /\ DOMAIN pending \in {{}, Task}
    /\ follow \in [Colony -> {"none", "due", "continue", "told", "summed", "held", "quiet", "lost"}]
    /\ won \subseteq Colony

\* continuation_depth counts successes: a colony that succeeds takes the thread
\* at most one step further, however the steps are numbered, renumbered, reset
\* or bound meanwhile (colony_manager.py _hook_step_completion, projections.py
\* _on_workflow_step_completed).
DepthEarned == depth <= Cardinality(won)

\* The money a workspace can lose beyond its limit: the rounds in flight when it
\* is reached, one a colony, whatever was spawned on the old figure, with
\* parallel plans that do not ask and across restarts (BudgetEnforcer).  A
\* colony's own limit counts from the last restart.
OvershootBounded ==
    /\ spent <= Limit - 1 + RoundCost * Cardinality({c \in Colony : status[c] # "none"})
    /\ \A c \in Colony : paid[c] <= (restarts + 1) * (ColonyLimit - 1 + RoundCost)

\* The tracker's counts (parallel_plans.py): a task is over only when the
\* follow-up of its own colony has run, a task that failed had no success, and a
\* task that counts as completed had one, or its colony was killed before the
\* follow-up, which the follow-up takes for a success and a reconstruction from
\* the projections for a failure.  A plan is registered under ids that no colony
\* bears: every colony gets a card of its own and no plan is ever summed up.
TrackerHonest ==
    /\ \A t \in DOMAIN tracker :
        LET c == tracker[t].col IN
        /\ tracker[t].state \in Ended => c \in Colony /\ follow[c] = "told"
        /\ tracker[t].state = "failed" => c \notin won
        /\ tracker[t].state = "completed" => c \in won \/ status[c] = "killed"
    /\ \A c \in Colony : follow[c] \notin {"held", "summed"}
=============================================================================
