--------------------------- MODULE ColonyLifecycle ---------------------------
(***************************************************************************)
(* The life of a colony: surface/colony_manager.py (the round loop and its  *)
(* registry of tasks), surface/runtime.py (emit_and_broadcast, "the ONE     *)
(* mutation path", and the operator's commands) and the lifecycle handlers  *)
(* of surface/projections.py, over the SQLite store of                      *)
(* adapters/store_sqlite.py.                                                *)
(*                                                                          *)
(* All coroutines run on one asyncio loop, so a step is what one coroutine  *)
(* does between two awaits.  The awaits that matter are those of an         *)
(* emission: the append (the row is inserted, later committed), then the    *)
(* fan-out to WebSocket subscribers.  A client is one command being served. *)
(***************************************************************************)
EXTENDS Naturals, Sequences, FiniteSets

CONSTANTS Colony,       \* ids spawn_colony can hand out
          Client,       \* commands that can be served at the same time
          NoColony,
          MaxRounds,    \* colony.max_rounds
          MaxRequests,  \* bound: commands served in a behaviour
          MaxRestarts,  \* bound: crashes in a behaviour
          MaxSubs,      \* bound: WebSocket subscribers at a time
          MaxGen        \* bound: times the last subscriber may leave

ASSUME ConstantsAssumption ==
    /\ NoColony \notin Colony
    /\ Colony \cap Client = {}
    /\ MaxRounds \in Nat \ {0}
    /\ MaxRequests \in Nat
    /\ MaxRestarts \in Nat
    /\ MaxSubs \in Nat
    /\ MaxGen \in Nat

(* An actor emits: the task of a colony's round loop, named by its colony   *)
(* (start_colony is called once for a colony the process knows), or a       *)
(* client.                                                                  *)
Actor == Colony \cup Client

VARIABLES
    log,       \* rows of the events table, in seq order
    durable,   \* how many of them are committed
    applied,   \* seqs the live projections have applied
    mode,      \* "replaying", "rehydrating" or "serving"
    status,    \* ColonyProjection.status; "absent" before ColonySpawned
    round,     \* ColonyProjection.round_number
    override,  \* ColonyProjection.routing_override is not None
    active,    \* colonies registered in ColonyManager._active
    toStart,   \* colonies with a start_colony call on its way
    pc,        \* where each colony's task is in _run_colony_inner
    rnd,       \* its round_num
    op,        \* what each client is doing
    target,    \* the colony it does it to
    phase,     \* where each actor is inside emit_and_broadcast
    seq,       \* the row it is emitting
    aud,       \* the subscriber set its fan-out iterates over
    subs,      \* the workspace's subscriber set: identity and size
    requests, restarts

storeVars  == <<log, durable>>
projVars   == <<status, round, override>>
taskVars   == <<pc, rnd>>
clientVars == <<op, target, requests>>
emitVars   == <<phase, seq, aud>>
vars == <<storeVars, applied, mode, projVars, active, toStart, taskVars,
          clientVars, emitVars, subs, restarts>>

Settled == {"completed", "failed", "killed", "service"}
Status  == Settled \cup {"absent", "running"}

Verdict  == {"ColonyCompleted", "ColonyFailed"}
Terminal == Verdict \cup {"ColonyKilled", "ColonyServiceActivated"}
EventType == Terminal \cup {"ColonySpawned", "RoundStarted", "RoundCompleted",
                            "ColonyChatMessage", "ColonyEscalated"}
Event == [type : EventType, colony : Colony, round : 0..MaxRounds]

PC == {"idle", "ready", "loop", "prep", "starting", "working", "finishing",
       "judging", "chatting", "completing", "escalating", "failing",
       "halting", "hooks", "done"}
Op == {"idle", "spawn", "kill", "service", "escalate"}
Phase == {"none", "append", "fanout", "returned", "raised"}
Audience == [gen : 0..MaxGen + 1, n : 0..MaxSubs]
NoAudience == [gen |-> 0, n |-> 0]

Init ==
    /\ log = <<>> /\ durable = 0 /\ applied = {} /\ mode = "serving"
    /\ status = [c \in Colony |-> "absent"]
    /\ round = [c \in Colony |-> 0]
    /\ override = [c \in Colony |-> FALSE]
    /\ active = {} /\ toStart = {}
    /\ pc = [c \in Colony |-> "idle"]
    /\ rnd = [c \in Colony |-> 0]
    /\ op = [k \in Client |-> "idle"]
    /\ target = [k \in Client |-> NoColony]
    /\ phase = [a \in Actor |-> "none"]
    /\ seq = [a \in Actor |-> 0]
    /\ aud = [a \in Actor |-> NoAudience]
    /\ subs = NoAudience
    /\ requests = 0 /\ restarts = 0

-----------------------------------------------------------------------------
(* The projections' handlers.  Each writes its status whatever it finds     *)
(* there; all but ColonySpawned's ignore a colony that does not exist.      *)

StatusOf == [ColonySpawned |-> "running", ColonyCompleted |-> "completed",
             ColonyFailed |-> "failed", ColonyKilled |-> "killed",
             ColonyServiceActivated |-> "service"]

(* Mutated: RoundStarted's handler marks the colony running.                *)
StatusAfterRoundRuns(type, old) ==
    IF type = "RoundStarted" THEN "running"
    ELSE IF type \in DOMAIN StatusOf THEN StatusOf[type] ELSE old

StatusAfter(type, old) ==
    IF type \in DOMAIN StatusOf /\ (old # "absent" \/ type = "ColonySpawned")
    THEN StatusOf[type] ELSE old

RoundAfter(e, old) == IF e.type = "RoundStarted" THEN e.round ELSE old

OverrideAfter(e, old) == e.type = "ColonyEscalated" \/ old

Apply(e) ==
    LET c == e.colony IN
    /\ status' = [status EXCEPT ![c] = StatusAfter(e.type, @)]
    /\ round' = [round EXCEPT ![c] = RoundAfter(e, @)]
    /\ override' = [override EXCEPT ![c] = OverrideAfter(e, @)]

-----------------------------------------------------------------------------
(* emit_and_broadcast: append, project, fan out.                            *)

(* An actor whose emission just returned or raised is the coroutine that    *)
(* runs: no other one moves before it awaits again.                         *)
LoopFree == \A a \in Actor : phase[a] \notin {"returned", "raised"}

(* The INSERT is queued to the store's thread; rows get their seq in the    *)
(* order of the calls.                                                      *)
Emit(a, type, c, r) ==
    /\ log' = Append(log, [type |-> type, colony |-> c, round |-> r])
    /\ phase' = [phase EXCEPT ![a] = "append"]
    /\ seq' = [seq EXCEPT ![a] = Len(log) + 1]
    /\ UNCHANGED <<durable, aud>>

EndEmit(a) ==
    /\ phase' = [phase EXCEPT ![a] = "none"]
    /\ seq' = [seq EXCEPT ![a] = 0]
    /\ UNCHANGED <<storeVars, aud>>

NoEmit == UNCHANGED <<storeVars, emitVars>>

(* A commit on the one connection commits every row inserted before it,     *)
(* rows of cancelled coroutines included.                                   *)
Commit ==
    /\ durable < Len(log)
    /\ durable' = Len(log)
    /\ UNCHANGED <<log, applied, mode, projVars, active, toStart, taskVars,
                   clientVars, emitVars, subs, restarts>>

(* Mutated: the event is applied as soon as its row is inserted.            *)
AppendReturnsUncommitted(a) ==
    \A b \in Actor : phase[b] = "append" => seq[a] <= seq[b]

(* Appends return in the order they were made, each when its commit has.    *)
AppendReturns(a) ==
    /\ seq[a] <= durable
    /\ \A b \in Actor : phase[b] = "append" => seq[a] <= seq[b]

(* append returns: the event is applied and, in the same     *)
(* step, the fan-out starts; with no subscriber there is nothing to await.  *)
Deliver(a) ==
    /\ LoopFree
    /\ phase[a] = "append"
    /\ AppendReturns(a)
    /\ Apply(log[seq[a]])
    /\ applied' = applied \cup {seq[a]}
    /\ phase' = [phase EXCEPT ![a] = IF subs.n = 0 THEN "returned" ELSE "fanout"]
    /\ aud' = [aud EXCEPT ![a] = IF subs.n = 0 THEN @ ELSE subs]
    /\ UNCHANGED <<storeVars, mode, active, toStart, taskVars, clientVars,
                   seq, subs, restarts>>

(* "for ws in subs: await ws.send_text(payload)" over the live set: when    *)
(* the set is not the one the iteration began with, Python raises           *)
(* RuntimeError and the emission with it.  Sockets that turned out to be    *)
(* dead are discarded afterwards; the set stays, even if it is empty.       *)
FanOut(a) ==
    /\ LoopFree
    /\ phase[a] = "fanout"
    /\ \/ /\ subs = aud[a]
          /\ phase' = [phase EXCEPT ![a] = "returned"]
          /\ \E n \in 0..subs.n : subs' = [subs EXCEPT !.n = n]
       \/ /\ subs # aud[a]
          /\ phase' = [phase EXCEPT ![a] = "raised"]
          /\ UNCHANGED subs
    /\ aud' = [aud EXCEPT ![a] = NoAudience]
    /\ UNCHANGED <<storeVars, applied, mode, projVars, active, toStart,
                   taskVars, clientVars, seq, restarts>>

Subscribe ==
    /\ LoopFree
    /\ subs.n < MaxSubs
    /\ subs' = [subs EXCEPT !.n = @ + 1]
    /\ UNCHANGED <<storeVars, applied, mode, projVars, active, toStart,
                   taskVars, clientVars, emitVars, restarts>>

(* The last one to leave deletes the set; the next subscriber makes a new   *)
(* one.                                                                     *)
Unsubscribe ==
    /\ LoopFree
    /\ subs.n > 0 /\ subs.gen <= MaxGen
    /\ subs' = [n |-> subs.n - 1,
                gen |-> IF subs.n = 1 THEN subs.gen + 1 ELSE subs.gen]
    /\ UNCHANGED <<storeVars, applied, mode, projVars, active, toStart,
                   taskVars, clientVars, emitVars, restarts>>

-----------------------------------------------------------------------------
(* start_colony, the task's end and its done callback.                      *)

StartColony(c) ==
    /\ LoopFree /\ mode # "replaying"
    /\ c \in toStart
    /\ toStart' = toStart \ {c}
    /\ IF status[c] = "running" /\ c \notin active
       THEN /\ pc' = [pc EXCEPT ![c] = "ready"]
            /\ active' = active \cup {c}
       ELSE UNCHANGED <<pc, active>>
    /\ UNCHANGED <<storeVars, applied, mode, projVars, rnd, clientVars,
                   emitVars, subs, restarts>>

(* _on_colony_task_done.                                                    *)
TaskDone(c) ==
    /\ LoopFree
    /\ pc[c] = "done"
    /\ active' = active \ {c}
    /\ pc' = [pc EXCEPT ![c] = "idle"]
    /\ rnd' = [rnd EXCEPT ![c] = 0]
    /\ UNCHANGED <<storeVars, applied, mode, projVars, toStart, clientVars,
                   emitVars, subs, restarts>>

-----------------------------------------------------------------------------
(* The round loop, _run_colony_inner.                                       *)

AtPC(c, p) == LoopFree /\ pc[c] = p
Goto(c, p) == pc' = [pc EXCEPT ![c] = p]

LoopFrame == UNCHANGED <<applied, mode, projVars, active, toStart, clientVars,
                         subs, restarts>>

(* Fail, without ("failing") or with ("halting") the post-colony hooks.     *)
Fail(c, p) == Goto(c, p) /\ Emit(c, "ColonyFailed", c, 0)

(* The loop resumes after the last round that was started.                  *)
LastRound(c) == round[c]

RunColony(c) ==
    /\ AtPC(c, "ready")
    /\ rnd' = [rnd EXCEPT ![c] = LastRound(c)]
    /\ \/ Goto(c, "loop") /\ NoEmit
       \/ Fail(c, "failing")                      \* no agents could be built
    /\ LoopFrame

(* Mutated: one round too many.                                             *)
RoundsLeftOffByOne(c) == rnd[c] <= MaxRounds

(* Mutated: no status check at the head of the loop.                        *)
MayRunUnchecked(c) == TRUE

RoundsLeft(c) == rnd[c] < MaxRounds
MayRun(c) == status[c] = "running"

(* The head of the loop: the status check, then the workspace's hard stop,  *)
(* then, across further awaits (knowledge is fetched), the round.           *)
LoopHead(c) ==
    /\ AtPC(c, "loop") /\ RoundsLeft(c)
    /\ \/ /\ ~MayRun(c)
          /\ Goto(c, "done") /\ NoEmit /\ UNCHANGED rnd
       \/ /\ MayRun(c)                            \* workspace budget exhausted
          /\ Fail(c, "failing") /\ UNCHANGED rnd
       \/ /\ MayRun(c)
          /\ Goto(c, "prep") /\ NoEmit
          /\ rnd' = [rnd EXCEPT ![c] = @ + 1]
    /\ LoopFrame

StartRound(c) ==
    /\ AtPC(c, "prep")
    /\ Goto(c, "starting")
    /\ Emit(c, "RoundStarted", c, rnd[c])
    /\ UNCHANGED rnd /\ LoopFrame

(* The agents' turns end in RoundCompleted or in an exception.              *)
EndRound(c) ==
    /\ AtPC(c, "working")
    /\ \/ Goto(c, "finishing") /\ Emit(c, "RoundCompleted", c, rnd[c])
       \/ Fail(c, "failing")
    /\ UNCHANGED rnd /\ LoopFrame

(* "Wave 76: guard against kill/completion race"                            *)
MayComplete(c) == status[c] \notin {"killed", "failed"}

(* What follows a round: the budget, then the governance decision.          *)
Judge(c) ==
    /\ AtPC(c, "judging")
    /\ \/ Fail(c, "failing")                      \* budget_limit reached
       \/ Goto(c, "loop") /\ NoEmit               \* continue, warn
       \/ /\ MayComplete(c)                       \* complete
          /\ Goto(c, "chatting")
          /\ Emit(c, "ColonyChatMessage", c, 0)
       \/ /\ ~MayComplete(c)
          /\ Goto(c, "done") /\ NoEmit
       \/ /\ ~override[c]                         \* halt: one escalation
          /\ Goto(c, "escalating")
          /\ Emit(c, "ColonyEscalated", c, 0)
       \/ Fail(c, "halting")                      \* halt
    /\ UNCHANGED rnd /\ LoopFrame

(* Max rounds exhausted.                                                    *)
Exhaust(c) ==
    /\ AtPC(c, "loop") /\ ~RoundsLeft(c)
    /\ IF MayComplete(c)
       THEN Goto(c, "completing") /\ Emit(c, "ColonyCompleted", c, 0)
       ELSE Goto(c, "done") /\ NoEmit
    /\ UNCHANGED rnd /\ LoopFrame

(* The await of an emission ended: the loop goes on from where it emitted.  *)
After(p) == CASE p = "starting"   -> "working"
              [] p = "finishing"  -> "judging"
              [] p = "escalating" -> "loop"
              [] p \in {"completing", "halting"} -> "hooks"
              [] OTHER            -> "done"

Continue(c) ==
    /\ phase[c] = "returned"
    /\ IF pc[c] = "chatting"
       THEN Goto(c, "completing") /\ Emit(c, "ColonyCompleted", c, 0)
       ELSE Goto(c, After(pc[c])) /\ EndEmit(c)
    /\ UNCHANGED rnd /\ LoopFrame

(* Mutated: the try spans the completion as well.                           *)
InsideTryWide(p) == p \in {"starting", "finishing", "chatting", "completing"}

(* An emission raised.  Only those of run_round are inside the try that     *)
(* fails the colony; any other one ends the task and nothing else.          *)
InsideTry(p) == p \in {"starting", "finishing"}

Raise(c) ==
    /\ phase[c] = "raised"
    /\ IF InsideTry(pc[c])
       THEN Fail(c, "failing")
       ELSE Goto(c, "done") /\ EndEmit(c)
    /\ UNCHANGED rnd /\ LoopFrame

HooksDone(c) ==
    /\ AtPC(c, "hooks")
    /\ Goto(c, "done") /\ NoEmit
    /\ UNCHANGED rnd /\ LoopFrame

-----------------------------------------------------------------------------
(* Commands.                                                                *)

Accept(k, o, c) ==
    /\ LoopFree /\ mode = "serving"
    /\ op[k] = "idle" /\ requests < MaxRequests
    /\ op' = [op EXCEPT ![k] = o]
    /\ target' = [target EXCEPT ![k] = c]
    /\ requests' = requests + 1
    /\ UNCHANGED <<applied, mode, round, override, active, toStart, taskVars,
                   subs, restarts>>

(* Ids are fresh uuids.                                                     *)
SpawnColony(k, c) ==
    /\ \A i \in 1..Len(log) : log[i].colony # c
    /\ Accept(k, "spawn", c)
    /\ Emit(k, "ColonySpawned", c, 0)
    /\ UNCHANGED status

(* kill_colony asks nothing of the colony's status.                         *)
KillColony(k, c) ==
    /\ status[c] # "absent"
    /\ Accept(k, "kill", c)
    /\ Emit(k, "ColonyKilled", c, 0)
    /\ UNCHANGED status

MayServe(c) == status[c] = "completed"

(* activate_service sets the live status before it emits the event.         *)
ActivateService(k, c) ==
    /\ MayServe(c)
    /\ Accept(k, "service", c)
    /\ status' = [status EXCEPT ![c] = "service"]
    /\ Emit(k, "ColonyServiceActivated", c, 0)

EscalateColony(k, c) ==
    /\ status[c] = "running"
    /\ Accept(k, "escalate", c)
    /\ Emit(k, "ColonyEscalated", c, 0)
    /\ UNCHANGED status

Command(k, c) == \/ SpawnColony(k, c) \/ KillColony(k, c)
                 \/ ActivateService(k, c) \/ EscalateColony(k, c)

Finished(k) ==
    /\ op' = [op EXCEPT ![k] = "idle"]
    /\ target' = [target EXCEPT ![k] = NoColony]
    /\ UNCHANGED <<applied, mode, projVars, rnd, requests, subs, restarts>>

(* Runtime.spawn_colony starts nothing.  Commands, the Queen's tools, AG-UI, *)
(* A2A and MCP call start_colony next; maintenance sweeps, continuations,   *)
(* approved actions and the REST route do not, and their colony stays       *)
(* running with no loop until a restart finds it.                           *)
Spawned(k) ==
    /\ phase[k] = "returned" /\ op[k] = "spawn"
    /\ \/ toStart' = toStart \cup {target[k]}
       \/ UNCHANGED toStart
    /\ EndEmit(k)
    /\ Finished(k)
    /\ UNCHANGED <<active, pc>>

(* kill_colony goes on to stop_colony: pop the task and cancel it wherever  *)
(* it awaits.  The row of an append it was waiting for stays; nobody will   *)
(* apply it.                                                                *)
Killed(k) ==
    LET c == target[k]
        ended == {k} \cup ({c} \cap active) IN
    /\ phase[k] = "returned" /\ op[k] = "kill"
    /\ active' = active \ {c}
    /\ pc' = IF c \in active THEN [pc EXCEPT ![c] = "done"] ELSE pc
    /\ phase' = [a \in Actor |-> IF a \in ended THEN "none" ELSE phase[a]]
    /\ seq' = [a \in Actor |-> IF a \in ended THEN 0 ELSE seq[a]]
    /\ aud' = [a \in Actor |-> IF a \in ended THEN NoAudience ELSE aud[a]]
    /\ Finished(k)
    /\ UNCHANGED <<storeVars, toStart>>

(* The other commands end with their emission, and every command whose      *)
(* emission raised ends there: a spawned colony is then not started, a      *)
(* killed one not stopped.                                                  *)
Answered(k) ==
    /\ \/ phase[k] = "returned" /\ op[k] \in {"service", "escalate"}
       \/ phase[k] = "raised"
    /\ EndEmit(k)
    /\ Finished(k)
    /\ UNCHANGED <<active, toStart, pc>>

-----------------------------------------------------------------------------
(* Crash and restart.                                                       *)

Crash ==
    /\ mode = "serving" /\ restarts < MaxRestarts
    /\ restarts' = restarts + 1
    /\ log' = SubSeq(log, 1, durable)
    /\ applied' = {} /\ mode' = "replaying"
    /\ status' = [c \in Colony |-> "absent"]
    /\ round' = [c \in Colony |-> 0]
    /\ override' = [c \in Colony |-> FALSE]
    /\ active' = {} /\ toStart' = {}
    /\ pc' = [c \in Colony |-> "idle"]
    /\ rnd' = [c \in Colony |-> 0]
    /\ op' = [k \in Client |-> "idle"]
    /\ target' = [k \in Client |-> NoColony]
    /\ phase' = [a \in Actor |-> "none"]
    /\ seq' = [a \in Actor |-> 0]
    /\ aud' = [a \in Actor |-> NoAudience]
    /\ subs' = NoAudience
    /\ UNCHANGED <<durable, requests>>

(* "async for event in event_store.replay(): projections.apply(event)"      *)
Replay ==
    /\ mode = "replaying"
    /\ \E i \in 1..Len(log) :
          /\ applied = 1..(i - 1)
          /\ Apply(log[i])
          /\ applied' = 1..i
    /\ UNCHANGED <<storeVars, mode, active, toStart, taskVars, clientVars,
                   emitVars, subs, restarts>>


Rehydratable == {c \in Colony : status[c] = "running"}

Rehydrate ==
    /\ mode = "replaying" /\ applied = 1..Len(log)
    /\ mode' = "rehydrating"
    /\ toStart' = Rehydratable
    /\ UNCHANGED <<storeVars, applied, projVars, active, taskVars, clientVars,
                   emitVars, subs, restarts>>

Serve ==
    /\ mode = "rehydrating" /\ toStart = {}
    /\ mode' = "serving"
    /\ UNCHANGED <<storeVars, applied, projVars, active, toStart, taskVars,
                   clientVars, emitVars, subs, restarts>>

-----------------------------------------------------------------------------
TaskStep(c) ==
    \/ RunColony(c) \/ LoopHead(c) \/ StartRound(c) \/ EndRound(c)
    \/ Judge(c) \/ Exhaust(c) \/ Continue(c) \/ Raise(c)
    \/ HooksDone(c) \/ TaskDone(c)

ClientStep(k) == Spawned(k) \/ Killed(k) \/ Answered(k)

EmitStep(a) == Deliver(a) \/ FanOut(a)

Restart == Replay \/ Rehydrate \/ Serve

Next ==
    \/ \E c \in Colony : TaskStep(c)
    \/ \E k \in Client : ClientStep(k)
    \/ \E k \in Client, c \in Colony : Command(k, c)
    \/ \E a \in Actor : EmitStep(a)
    \/ \E c \in Colony : StartColony(c)
    \/ Commit \/ Subscribe \/ Unsubscribe \/ Crash \/ Restart

Spec == Init /\ [][Next]_vars

(* The event loop runs what is ready, the store's thread what is queued,    *)
(* and a server that is started finishes starting.  Nobody has to send a    *)
(* command, subscribe or crash.                                             *)
Fairness ==
    /\ \A c \in Colony : WF_vars(TaskStep(c))
    /\ \A k \in Client : WF_vars(ClientStep(k))
    /\ \A a \in Actor : WF_vars(EmitStep(a))
    /\ \A c \in Colony : WF_vars(StartColony(c))
    /\ WF_vars(Commit) /\ WF_vars(Restart)

FairSpec == Spec /\ Fairness

-----------------------------------------------------------------------------
(* Properties.                                                              *)

(* Every variable keeps its type (the fields of ColonyManager, the colony   *)
(* projection and the store).                                               *)
TypeOK ==
    /\ log \in Seq(Event)
    /\ durable \in 0..Len(log)
    /\ applied \subseteq 1..Len(log)
    /\ mode \in {"replaying", "rehydrating", "serving"}
    /\ status \in [Colony -> Status]
    /\ round \in [Colony -> 0..MaxRounds]
    /\ override \in [Colony -> BOOLEAN]
    /\ active \subseteq Colony
    /\ toStart \subseteq Colony
    /\ pc \in [Colony -> PC]
    /\ rnd \in [Colony -> 0..MaxRounds]
    /\ op \in [Client -> Op]
    /\ target \in [Client -> Colony \cup {NoColony}]
    /\ phase \in [Actor -> Phase]
    /\ seq \in [Actor -> Nat]
    /\ aud \in [Actor -> Audience]
    /\ subs \in Audience
    /\ requests \in 0..MaxRequests /\ restarts \in 0..MaxRestarts

Rows(type, c) ==
    {i \in 1..Len(log) : log[i].type = type /\ log[i].colony = c}
VerdictRows(c) == UNION {Rows(type, c) : type \in Verdict}

(* The event log holds at most one ColonyCompleted or ColonyFailed for a    *)
(* colony, whatever is killed, cancelled half-way through an append, lost   *)
(* in a crash and rehydrated: the thread counters and template success      *)
(* counts the handlers increment count each colony once.                    *)
VerdictOnce == \A c \in Colony : \A i, j \in VerdictRows(c) : i = j

(* The RoundStarted rows of a colony are rounds 1, 2, 3, ...: a rehydrated  *)
(* loop neither repeats a round number nor leaves one out.                  *)
RoundsConsecutive ==
    \A c \in Colony : \A i \in Rows("RoundStarted", c) :
        log[i].round = Cardinality({j \in Rows("RoundStarted", c) : j <= i})

(* After a ColonyKilled row at most one more round of that colony starts,   *)
(* even when the kill's own fan-out raises and the task is never cancelled: *)
(* the status check at the head of the loop is read before an await.        *)
OneRoundAfterKill ==
    \A c \in Colony : \A k \in Rows("ColonyKilled", c) :
        Cardinality({i \in Rows("RoundStarted", c) : i > k}) <= 1

(* What the log says of a colony's rounds: none is repeated or left out     *)
(* across restarts, and at most one follows a kill.                         *)
RoundsInLog == RoundsConsecutive /\ OneRoundAfterKill

(* A colony the server has shown as settled is never again served as        *)
(* anything else: no later event, and no crash, replay and rehydration,     *)
(* brings it back.                                                          *)
SettledForGood ==
    \A c \in Colony :
        [](status[c] \in Settled => [](mode = "serving" => status[c] \in Settled))

Writes(c) == {i \in 1..Len(log) : log[i].colony = c /\ log[i].type \in DOMAIN StatusOf}
Latest(i, rows) == i \in rows /\ \A j \in rows : j <= i

(* A colony's projection is what its applied rows make of it: the status    *)
(* that the last of them to write one wrote, the number of the last round   *)
(* started, an override if one escalated it, whatever was cancelled, raised *)
(* or cut between.  Only activate_service shows a status ahead of its row.  *)
ProjectionIsItsRows ==
    \A c \in Colony :
        LET writes == Writes(c) \cap applied
            starts == Rows("RoundStarted", c) \cap applied IN
        /\ \/ status[c] = "absent" /\ writes = {}
           \/ \E i \in writes : Latest(i, writes) /\ status[c] = StatusOf[log[i].type]
           \/ /\ status[c] = "service"
              /\ \E k \in Client : op[k] = "service" /\ target[k] = c /\ phase[k] = "append"
        /\ \/ round[c] = 0 /\ starts = {}
           \/ \E i \in starts : Latest(i, starts) /\ round[c] = log[i].round
        /\ override[c] <=> Rows("ColonyEscalated", c) \cap applied # {}

(* The status is the one a replay of the whole log ends in.                 *)
ShowsLastWrite(c) ==
    /\ Writes(c) = {} => status[c] = "absent"
    /\ \A i \in Writes(c) : Latest(i, Writes(c)) => status[c] = StatusOf[log[i].type]

(* A restart ends in the status the server showed, unless some row of the   *)
(* log was never applied: one whose emission was cancelled in its append,   *)
(* or is still in it (README.md:29).                                        *)
SameStateIfApplied ==
    applied = 1..Len(log) => \A c \in Colony : ShowsLastWrite(c)

(* The lifecycle over the store implements the abstract event log.          *)
Ledger == INSTANCE EventLog WITH ledger <- log, shown <- applied,
                                 serving <- mode # "replaying"
ImplementsEventLog == Ledger!Spec

(* Somebody is about to run the colony to a verdict: its loop, a pending     *)
(* call of start_colony, or the restart that finds it running.              *)
TakenUp(c) ==
    /\ status[c] = "running"
    /\ c \in toStart \/ pc[c] \notin {"idle", "done"} \/ mode = "replaying"

(* The two emissions that can raise out of the loop before the colony has a *)
(* verdict: the summary's chat message and the automatic escalation.        *)
CutShort(c) == phase[c] = "raised" /\ pc[c] \in {"chatting", "escalating"}


-----------------------------------------------------------------------------
(* What the repository says of the program and the code does not do.        *)

(* "guard against kill/completion race" (colony_manager.py:1054): a killed  *)
(* colony stays killed.                                                     *)
KilledStaysKilled ==
    [][\A c \in Colony : status[c] = "killed" => status'[c] # "completed"]_vars

(* "Crash, replay, same state" (README.md:29): with nothing in flight, the  *)
(* live status is the one a replay of the log ends in, the one the last row *)
(* that writes a status wrote.                                              *)
ReplaySameState ==
    (mode = "serving" /\ durable = Len(log) /\ \A a \in Actor : phase[a] = "none")
    => \A c \in Colony : ShowsLastWrite(c)
=============================================================================
