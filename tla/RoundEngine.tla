----------------------------- MODULE RoundEngine -----------------------------
(***************************************************************************)
(* The rounds of one colony: engine/runner.py, run_round and _run_agent,    *)
(* the strategies that order its agents, and what the colony's loop         *)
(* (surface/colony_manager.py) makes of each round's verdict.               *)
(*                                                                          *)
(* A round runs groups of agents one after the other, the agents of a group *)
(* concurrently in a TaskGroup; then governance weighs what the round came  *)
(* to against the counters the loop carries from round to round.  A restart *)
(* loses those counters, a redirect resets them.  A step is what runs       *)
(* between two awaits; what models, tools and embeddings return is a choice. *)
(* Prompts, and with them the correction of turns that only look, are left  *)
(* out: they change no state of the program.                                *)
(***************************************************************************)
EXTENDS Naturals, Sequences, FiniteSets, FiniteSetsExt, Functions

CONSTANTS Agent,
          Topology,        \* bound: the sets of active edges that occur
          Costs,           \* what a turn can cost
          BudgetLimit,     \* the colony's budget_limit
          RoutedFit,       \* the longest outputs that the budget of routed_outputs holds
          MaxIterations,   \* max_iterations of every recipe
          MaxRounds,       \* the colony's max_rounds
          StallFrom,       \* stalls count after this round (2)
          StallWarn, StallHalt,   \* stalled rounds for a warning (2), a halt (3)
          MaxRedirects,    \* max_redirects_per_colony (1)
          MaxAsked,        \* bound: redirects under way at a time
          MaxCrashes       \* bound

ASSUME RoundAssumption ==
    /\ Agent # {} /\ IsFiniteSet(Agent)
    /\ Topology \subseteq SUBSET {e \in Agent \X Agent : e[1] # e[2]}
    /\ Costs \subseteq Nat /\ BudgetLimit \in Nat /\ RoutedFit \in Nat
    /\ MaxIterations \in Nat \ {0} /\ MaxRounds \in Nat \ {0}
    /\ StallFrom \in Nat \ {0} /\ StallWarn \in Nat \ {0} /\ StallHalt \in Nat \ {0}
    /\ MaxRedirects \in Nat /\ MaxAsked \in Nat /\ MaxCrashes \in Nat

VARIABLES
    fast,      \* the colony runs on the fast path
    loop,      \* the colony's loop: where it is, and its local counters
    turn,      \* per agent: its turn in this round
    tally,     \* what the turns of this round left behind
    colony,    \* the projection: redirects and escalation, from events
    asked,     \* redirects the Queen has begun
    since,     \* history: the rounds since the counters were last started afresh
    crashes

vars == <<fast, loop, turn, tally, colony, asked, since, crashes>>

(* complete is told apart by its reason.                                    *)
Action == {"none", "continue", "warn", "converged", "verified", "force_halt"}

(* head: of the round loop; route, execute, compress: the phases; verdict:  *)
(* RoundCompleted and what the loop awaits before it looks at the action.   *)
LoopState ==
    [pc : {"head", "route", "execute", "compress", "verdict", "ended"},
     out : {"", "completed", "halted", "failed", "killed", "lost"},
     round : 0..MaxRounds,
     groups : Seq(SUBSET Agent),           \* those to run, the first one running
     before : SUBSET (Agent \X Agent),     \* history: who was put before whom
     total : Nat,                          \* the round's cost, as far as summed up
     action : Action,
     cost : Nat, stall : Nat, ran : BOOLEAN, productive : BOOLEAN,
     prev : BOOLEAN,                       \* there is a summary of a round before
     boundaries : Nat]                     \* the redirects it has taken note of

TurnState == [pc : {"idle", "starting", "model", "tools", "reporting", "done"},
              iteration : 0..MaxIterations,
              seen : Seq(Agent),           \* whose outputs its context holds
              cost : Nat]

(* What the productive calls of a round came to: the last that applies.     *)
Work == <<"none", "written", "ran", "broke">>

Tally == [outputs : Seq(Agent),            \* in the order they were finished
          text : BOOLEAN, costs : Nat, knowledge : BOOLEAN,
          work : DOMAIN Work,
          spent : Nat]                     \* history: the TokensConsumed rows

Idle == [pc |-> "idle", iteration |-> 0, seen |-> <<>>, cost |-> 0]

Blank == [outputs |-> <<>>, text |-> FALSE, costs |-> 0, knowledge |-> FALSE,
          work |-> 1, spent |-> 0]

(* _run_colony_inner before its loop; the rounds that were started count.   *)
Entered(round, redirects) ==
    [pc |-> "head", out |-> "", round |-> round, groups |-> <<>>, before |-> {},
     total |-> 0, action |-> "none", cost |-> 0, stall |-> 0, ran |-> FALSE,
     productive |-> FALSE, prev |-> FALSE, boundaries |-> redirects]

(* stalled, worked: since a redirect landed; old: the same before it, until *)
(* the loop takes note of it.                                               *)
Nothing == [stalled |-> 0, worked |-> FALSE]
Afresh == [stalled |-> 0, worked |-> FALSE, old |-> Nothing]

Init ==
    /\ fast \in BOOLEAN
    /\ loop = Entered(0, 0)
    /\ turn = [a \in Agent |-> Idle]
    /\ tally = Blank
    /\ colony = [redirects |-> 0, escalated |-> FALSE]
    /\ asked = 0
    /\ since = Afresh
    /\ crashes = 0

NoTurns == turn' = [a \in Agent |-> Idle] /\ tally' = Blank

(* A cancelled or failed round takes its turns with it (TaskGroup).         *)
Ends(out) ==
    /\ loop' = [Entered(loop.round, 0) EXCEPT !.pc = "ended", !.out = out]
    /\ NoTurns
    /\ since' = Afresh
    /\ UNCHANGED <<fast, colony, asked, crashes>>

-----------------------------------------------------------------------------
(* Goal, intent, route                                                      *)

(* The head of the loop: a workspace over its budget fails the colony;      *)
(* after the last round it is completed.                                    *)
NextRound ==
    /\ loop.pc = "head" /\ loop.round < MaxRounds
    /\ loop' = [loop EXCEPT !.pc = "route", !.round = @ + 1]
    /\ UNCHANGED <<fast, turn, tally, colony, asked, since, crashes>>

WorkspaceStops == loop.pc = "head" /\ loop.round < MaxRounds /\ Ends("failed")

RoundsExhausted == loop.pc = "head" /\ loop.round = MaxRounds /\ Ends("completed")

Order == Injection(1..Cardinality(Agent), Agent)

Backward(edges, p) ==
    {e \in edges : \E i, j \in DOMAIN p : i < j /\ e = <<p[j], p[i]>>}

(* _topological_sort.  Where there is a cycle, edges are broken in the      *)
(* order of their similarities, which can be any.                           *)
Orders(edges) ==
    LET straight == {p \in Order : Backward(edges, p) = {}}
    IN  IF straight = {} THEN Order ELSE straight

Earlier(edges, p, i) == {j \in 1..(i - 1) : <<p[j], p[i]>> \in edges}

\* Mutated: one level after the least of those it depends on.
LeastLevels(edges, p) ==
    {level \in [DOMAIN p -> DOMAIN p] :
        \A i \in DOMAIN p :
            LET before == {level[j] : j \in Earlier(edges, p, i)}
            IN  level[i] = IF before = {} THEN 1 ELSE 1 + Min(before)}
(* _collapse_into_groups: the level of each agent of the order, one after   *)
(* the last of those it depends on.                                         *)
Levels(edges, p) ==
    {level \in [DOMAIN p -> DOMAIN p] :
        \A i \in DOMAIN p :
            LET before == {level[j] : j \in Earlier(edges, p, i)}
            IN  level[i] = IF before = {} THEN 1 ELSE 1 + Max(before)}

Groups(p, level) ==
    [k \in 1..Max({level[i] : i \in DOMAIN p}) |->
        {p[i] : i \in {j \in DOMAIN p : level[j] = k}}]

(* What resolve_topology can come to, whatever the agents are like.         *)
Layering ==
    LET places == 1..Cardinality(Agent) IN
    {r \in [edges : Topology, order : Order, level : [places -> places]] :
        r.order \in Orders(r.edges) /\ r.level \in Levels(r.edges, r.order)}

Routes ==
    {[groups |-> Groups(r.order, r.level),
      before |-> r.edges \ Backward(r.edges, r.order)] : r \in Layering}

(* The group's tasks are created.                                           *)
Starting(group) ==
    [a \in Agent |-> IF a \in group THEN [Idle EXCEPT !.pc = "starting"] ELSE turn[a]]

Executes(groups, before) ==
    /\ loop' = [loop EXCEPT !.pc = "execute", !.groups = groups, !.before = before]
    /\ turn' = Starting(groups[1])
    /\ UNCHANGED <<fast, tally, colony, asked, since, crashes>>

(* StigmergicStrategy: an agent runs after those whose help it wants.       *)
RoutesStigmergic ==
    /\ loop.pc = "route"
    /\ \E r \in Routes : Executes(r.groups, r.before)

(* SequentialStrategy: one by one, in the order of definition.              *)
RoutesSequential ==
    /\ loop.pc = "route"
    /\ LET p == CHOOSE q \in Order : TRUE
       IN  Executes([i \in DOMAIN p |-> {p[i]}],
                    {e \in Agent \X Agent : e \notin Backward({e}, p) /\ e[1] # e[2]})

-----------------------------------------------------------------------------
(* Execute: the turns of the agents                                         *)

Turning(a, pc) == loop.pc = "execute" /\ turn[a].pc = pc

Steps(a, t, s) ==
    /\ turn' = [turn EXCEPT ![a] = t]
    /\ tally' = s
    /\ UNCHANGED <<fast, loop, colony, asked, since, crashes>>

(* assemble_context breaks off at the first output that would exceed the    *)
(* budget of routed outputs: those finished first, and RoutedFit at least,  *)
(* however long.                                                            *)
Routed ==
    {SubSeq(tally.outputs, 1, k) :
        k \in {n \in 0..Len(tally.outputs) : n = Len(tally.outputs) \/ n >= RoutedFit}}

(* AgentTurnStarted is out and the context is assembled, from the outputs   *)
(* there are by now.                                                        *)
StartsTurn(a) ==
    /\ Turning(a, "starting")
    /\ \E seen \in Routed, k \in BOOLEAN :
          Steps(a, [turn[a] EXCEPT !.pc = "model", !.seen = seen],
                [tally EXCEPT !.knowledge = @ \/ k])

\* Mutated: the last call offers tools as well.
AlwaysAsks(a) ==
    Turning(a, "model") /\ Steps(a, [turn[a] EXCEPT !.pc = "tools"], tally)
(* The last call offers no tools: what it asks for is not run.              *)
AsksTools(a) ==
    /\ Turning(a, "model") /\ turn[a].iteration < MaxIterations
    /\ Steps(a, [turn[a] EXCEPT !.pc = "tools"], tally)

(* A text, the last call, or no time left for another one.  The cost is     *)
(* known; a message on a turn that was cut short is sent in between.        *)
Answers(a) ==
    /\ Turning(a, "model")
    /\ \E c \in Costs, text \in {fast, FALSE} :
          Steps(a, [Idle EXCEPT !.pc = "reporting", !.cost = c],
                [tally EXCEPT !.outputs = Append(@, a), !.text = @ \/ text, !.costs = @ + c])

\* Mutated: the iterations are not counted.
ToolsOnly(a, s) == Steps(a, [turn[a] EXCEPT !.pc = "model"], s)
NextIteration(a, s) ==
    Steps(a, [turn[a] EXCEPT !.pc = "model", !.iteration = @ + 1], s)

(* Tools come to a text, whatever happens in them; those of                 *)
(* PRODUCTIVE_TOOLS count as such, and code_execute also for how it ended:  *)
(* one failure, and the round did not run.                                  *)
RunsTools(a) ==
    /\ Turning(a, "tools")
    /\ \E w \in DOMAIN Work :
          NextIteration(a, [tally EXCEPT !.work = IF w > @ THEN w ELSE @])

(* AgentTurnCompleted and TokensConsumed are out.                           *)
Reports(a) ==
    /\ Turning(a, "reporting")
    /\ Steps(a, [Idle EXCEPT !.pc = "done"],
             [tally EXCEPT !.spent = @ + turn[a].cost])

(* A model call, the assembly of a context or an emission raises: the       *)
(* TaskGroup cancels the other turns, and the colony fails.                 *)
TurnRaises(a) ==
    /\ loop.pc = "execute"
    /\ turn[a].pc \in {"starting", "model", "reporting"}
    /\ Ends("failed")

TurnStep(a) ==
    \/ StartsTurn(a) \/ AsksTools(a) \/ Answers(a) \/ RunsTools(a)
    \/ Reports(a) \/ TurnRaises(a)

GroupOver(group) == \A a \in group : turn[a].pc = "done"

NextGroup ==
    /\ loop.pc = "execute" /\ GroupOver(Head(loop.groups))
    /\ LET rest == Tail(loop.groups) IN
       /\ loop' = [loop EXCEPT !.groups = rest, !.total = tally.costs,
                               !.before = IF rest = <<>> THEN {} ELSE @,
                               !.pc = IF rest = <<>> THEN "compress" ELSE @]
       /\ turn' = IF rest = <<>> THEN turn ELSE Starting(Head(rest))
    /\ UNCHANGED <<fast, tally, colony, asked, since, crashes>>

-----------------------------------------------------------------------------
(* Compress: convergence and governance                                     *)

Came(w) == Work[tally.work] = w
Worked == Came("written") \/ Came("ran")
Progress == Worked \/ tally.knowledge

(* _compute_convergence and the near-identity of two summaries: what their  *)
(* thresholds leave possible.  A stall shows only in embeddings, and takes  *)
(* a round without progress; the goal alignment of a converged round is     *)
(* high.                                                                    *)
Reading == [stalled : BOOLEAN, alike : BOOLEAN, offTrack : BOOLEAN, converged : BOOLEAN]

Readings ==
    {r \in Reading :
        /\ r.stalled => loop.prev /\ loop.round > StallFrom /\ ~Progress
        /\ r.alike => loop.prev /\ loop.round > StallFrom
        /\ r.converged => loop.prev /\ ~r.stalled /\ ~r.offTrack}

StallCount(r) ==
    IF r.stalled \/ r.alike THEN loop.stall + 1
    ELSE IF loop.stall > 0 THEN loop.stall - 1 ELSE 0

Ran == (loop.ran \/ Came("ran")) /\ ~Came("broke")

Productive == loop.productive \/ Worked \/ (fast /\ Came("broke"))

(* _evaluate_governance, a cascade.                                         *)
Governance(r, stall) ==
    IF r.stalled /\ (Ran \/ Productive) /\ loop.round >= 2 THEN "verified"
    ELSE IF r.stalled /\ stall >= StallHalt THEN "force_halt"
    ELSE IF r.stalled /\ stall >= StallWarn THEN "warn"
    ELSE IF r.offTrack /\ loop.round > 3 THEN "warn"
    ELSE IF r.converged /\ loop.round >= 2 THEN "converged"
    ELSE "continue"

(* The round's result, and its counters, which the loop takes over.  On the *)
(* fast path no convergence is computed.                                    *)
Judged(action, stall) ==
    /\ loop' = [loop EXCEPT !.pc = "verdict", !.action = action,
                            !.stall = IF action = "verified" THEN 0 ELSE stall,
                            !.ran = Ran, !.productive = Productive,
                            !.prev = TRUE, !.cost = @ + loop.total]
    /\ UNCHANGED <<fast, turn, tally, colony, asked, crashes>>

JudgesFast ==
    /\ loop.pc = "compress" /\ fast
    /\ Judged(IF tally.text THEN "converged" ELSE "continue", 0)
    /\ since' = [since EXCEPT !.worked = @ \/ ~Came("none")]

Judges ==
    /\ loop.pc = "compress" /\ ~fast
    /\ \E r \in Readings :
          /\ Judged(Governance(r, StallCount(r)), StallCount(r))
          /\ since' = [since EXCEPT !.stalled = @ + (IF r.stalled \/ r.alike THEN 1 ELSE 0),
                                    !.worked = @ \/ Worked]

(* Embeddings fail, or the emission of a phase: the colony fails.  What     *)
(* raises after the round ends the loop without a verdict.                  *)
RoundRaises ==
    \/ loop.pc \in {"route", "compress", "verdict"} /\ Ends("failed")
    \/ loop.pc = "verdict" /\ Ends("lost")

-----------------------------------------------------------------------------
(* What the loop makes of the round                                         *)

Redirected == colony.redirects > loop.boundaries

\* Mutated: the stalled rounds before a redirect go on counting.
KeepsStall(l) == [l EXCEPT !.boundaries = colony.redirects]
(* A redirect that has landed since the loop last looked starts the         *)
(* counters afresh; the verdict on the round stands.                        *)
AfterRedirect(l) ==
    IF Redirected
    THEN [l EXCEPT !.stall = 0, !.ran = FALSE, !.productive = FALSE,
                   !.boundaries = colony.redirects]
    ELSE l

OverBudget == loop.cost >= BudgetLimit

Over(out) ==
    /\ loop.pc = "verdict"
    /\ Ends(out)

BudgetExhausted == OverBudget /\ Over("failed")

Completes == ~OverBudget /\ loop.action \in {"converged", "verified"} /\ Over("completed")

(* The loop goes on to its head.                                            *)
GoesOn(l) ==
    /\ loop.pc = "verdict" /\ ~OverBudget
    /\ loop' = [AfterRedirect(l) EXCEPT !.pc = "head", !.total = 0, !.action = "none"]
    /\ NoTurns
    /\ since' = IF Redirected THEN Afresh ELSE
                IF l.stall = 0 /\ loop.action = "force_halt" THEN [since EXCEPT !.stalled = 0]
                ELSE since
    /\ UNCHANGED <<fast, asked, crashes>>

Continues ==
    /\ loop.action \in {"continue", "warn"}
    /\ GoesOn(loop) /\ UNCHANGED colony

(* One more chance with a heavier tier, once, while there is budget.        *)
MayEscalate == ~colony.escalated /\ 10 * loop.cost < 9 * BudgetLimit

Escalates ==
    /\ loop.action = "force_halt" /\ MayEscalate
    /\ GoesOn([loop EXCEPT !.stall = 0])
    /\ colony' = [colony EXCEPT !.escalated = TRUE]

(* Not escalated before, or no heavier tier is viable.                      *)
Halts == ~OverBudget /\ loop.action = "force_halt" /\ Over("halted")

Verdict == BudgetExhausted \/ Completes \/ Continues \/ Escalates \/ Halts

-----------------------------------------------------------------------------
(* The rest of the program                                                  *)

(* _redirect_colony: the count is read before the event is out.             *)
AsksRedirect ==
    /\ loop.pc # "ended" /\ loop.round > 0
    /\ colony.redirects < MaxRedirects /\ asked < MaxAsked
    /\ asked' = asked + 1
    /\ UNCHANGED <<fast, loop, turn, tally, colony, since, crashes>>

RedirectLands ==
    /\ asked > 0
    /\ asked' = asked - 1
    /\ colony' = [colony EXCEPT !.redirects = @ + 1]
    /\ since' = [Afresh EXCEPT !.old = [stalled |-> since.old.stalled + since.stalled,
                                        worked |-> since.old.worked \/ since.worked]]
    /\ UNCHANGED <<fast, loop, turn, tally, crashes>>

(* A kill cancels the task, wherever it is (ColonyLifecycle).               *)
Killed == loop.pc # "ended" /\ Ends("killed")

(* Rehydrated: the loop starts over after the last round that was started.  *)
Restart ==
    /\ crashes < MaxCrashes /\ loop.pc # "ended"
    /\ crashes' = crashes + 1
    /\ loop' = Entered(loop.round, colony.redirects)
    /\ NoTurns
    /\ asked' = 0
    /\ since' = Afresh
    /\ UNCHANGED <<fast, colony>>

LoopStep ==
    \/ NextRound \/ WorkspaceStops \/ RoundsExhausted
    \/ RoutesStigmergic \/ RoutesSequential
    \/ NextGroup
    \/ JudgesFast \/ Judges \/ RoundRaises
    \/ Verdict

Next ==
    \/ LoopStep
    \/ \E a \in Agent : TurnStep(a)
    \/ AsksRedirect \/ RedirectLands
    \/ Killed \/ Restart

Spec == Init /\ [][Next]_vars

(* The event loop runs what is ready: models and tools answer or time out.  *)
Fairness == WF_vars(NextGroup) /\ \A a \in Agent : WF_vars(TurnStep(a))

FairSpec == Spec /\ Fairness

-----------------------------------------------------------------------------

TypeOK ==
    /\ fast \in BOOLEAN
    /\ loop \in LoopState
    /\ turn \in [Agent -> TurnState]
    /\ tally \in Tally
    /\ colony \in [redirects : Nat, escalated : BOOLEAN]
    /\ asked \in 0..MaxAsked
    /\ since \in [stalled : Nat, worked : BOOLEAN, old : [stalled : Nat, worked : BOOLEAN]]
    /\ crashes \in 0..MaxCrashes

\* A turn starts after those of the agents whose help it wants
\* (stigmergic.py:159, "predecessors are all in earlier groups").  Their outputs
\* are in its context, unless the budget of routed outputs is used up by
\* RoutedFit or more that were finished earlier (context.py:653-665): what is
\* left out is the latest there was.  And a round whose execution is over has
\* accounted for every agent: the cost that RoundCompleted reports is that of
\* the TokensConsumed events of the round (runner.py:1157-1190).
TurnsInOrder ==
    /\ loop.pc = "execute" =>
          \A e \in loop.before :
              LET t == turn[e[2]] IN
              /\ t.pc # "idle" => turn[e[1]].pc = "done"
              /\ t.pc \in {"model", "tools"} =>
                    /\ t.seen = SubSeq(tally.outputs, 1, Len(t.seen))
                    /\ e[1] \in Range(t.seen) \/ Len(t.seen) >= RoutedFit
    /\ loop.pc \in {"compress", "verdict"} =>
          /\ Range(tally.outputs) = Agent
          /\ loop.total = tally.spent

\* A colony is halted for stalling, or completed as verified, for what its
\* rounds did since its counters were started afresh by an escalation, a restart
\* or a redirect: a halt takes StallHalt stalled rounds and none that worked, a
\* verified completion one that worked.  A redirect starts them afresh only when
\* the round under way, or the next one, is over (colony_manager.py:996-1015): so
\* one verdict after it, and no more than one, may rest on rounds before it.
HaltEarned ==
    /\ loop.pc = "verdict" /\ loop.action = "force_halt" =>
          /\ since.stalled + since.old.stalled >= StallHalt
          /\ ~since.worked /\ ~since.old.worked
    /\ loop.pc = "verdict" /\ loop.action = "verified" => since.worked \/ since.old.worked
    /\ since.old # Nothing => Redirected

\* "the max-iterations guard remains the only hard stop for this loop"
\* (runner.py:95): whatever its agents ask for, the execution of a round ends.
RoundEnds == (loop.pc = "execute") ~> (loop.pc # "execute")
=============================================================================
