------------------------ MODULE ColonyLifecycle_proofs ------------------------
(***************************************************************************)
(* Proofs about ColonyLifecycle for any colonies, clients, rounds and       *)
(* number of crashes.  IInv is the inductive invariant: the facts about the *)
(* store, about what each actor is emitting, and about what the status of a *)
(* colony says of the rows of the log, that make VerdictOnce inductive.     *)
(* RoundInv and KillInv build on it: how rounds are counted, and where a    *)
(* loop may stand after a kill.                                             *)
(***************************************************************************)
EXTENDS ColonyLifecycle, TLAPS, SequenceTheorems, FiniteSetTheorems

Emitting   == {"starting", "finishing", "chatting", "completing", "escalating",
               "failing", "halting"}
PreVerdict == {"ready", "loop", "prep", "starting", "working", "finishing",
               "judging", "chatting", "escalating"}

(* The event an actor emits, from where it is.                              *)
TaskEvent(p) == CASE p = "starting"   -> "RoundStarted"
                  [] p = "finishing"  -> "RoundCompleted"
                  [] p = "chatting"   -> "ColonyChatMessage"
                  [] p = "completing" -> "ColonyCompleted"
                  [] p = "escalating" -> "ColonyEscalated"
                  [] OTHER            -> "ColonyFailed"
CommandEvent(o) == CASE o = "spawn"   -> "ColonySpawned"
                     [] o = "kill"    -> "ColonyKilled"
                     [] o = "service" -> "ColonyServiceActivated"
                     [] OTHER         -> "ColonyEscalated"

IsVerdict(i, c)  == log[i].type \in Verdict /\ log[i].colony = c
IsTerminal(i, c) == log[i].type \in Terminal /\ log[i].colony = c
IsSpawn(i, c)    == log[i].type = "ColonySpawned" /\ log[i].colony = c

(* Applied rows are committed; a row in flight comes after all of them, and *)
(* no two actors wait for the same row.                                     *)
StoreInv ==
    /\ applied \subseteq 1..durable
    /\ \A a \in Actor : phase[a] = "append" =>
          /\ seq[a] \in 1..Len(log)
          /\ \A i \in applied : i < seq[a]
    /\ \A a, b \in Actor :
          phase[a] = "append" /\ phase[b] = "append" /\ seq[a] = seq[b] => a = b

(* During a replay nothing is in flight.                                    *)
ReplayInv ==
    mode = "replaying" =>
        /\ durable = Len(log)
        /\ \A a \in Actor : phase[a] = "none"
        /\ \A c \in Colony : pc[c] = "idle"
        /\ \A k \in Client : op[k] = "idle"
        /\ \E n \in 0..Len(log) : applied = 1..n

CallInv == \A k \in Client : op[k] # "idle" => target[k] \in Colony

(* The part of the invariant that the store, the types and the refinement   *)
(* need; it is inductive by itself.                                         *)
BaseInv == TypeOK /\ StoreInv /\ ReplayInv /\ CallInv

(* A colony's first row is its one ColonySpawned.                           *)
LogInv ==
    \A i \in 1..Len(log) :
        /\ \E j \in 1..i : IsSpawn(j, log[i].colony)
        /\ log[i].type = "ColonySpawned"
           => \A j \in 1..Len(log) : log[j].colony = log[i].colony => i <= j

(* What a task is emitting; a loop that may still reach a verdict has none  *)
(* in the log.                                                              *)
TaskOK(c) ==
    /\ phase[c] # "none" => pc[c] \in Emitting
    /\ phase[c] = "append" =>
          log[seq[c]].type = TaskEvent(pc[c]) /\ log[seq[c]].colony = c
    /\ pc[c] \notin {"idle", "done"} => c \in active
    /\ pc[c] # "idle" => status[c] # "absent"
    /\ pc[c] \in PreVerdict => \A i \in 1..Len(log) : ~IsVerdict(i, c)

TaskInv == \A c \in Colony : TaskOK(c)

CallOK(k) ==
    /\ phase[k] # "none" => op[k] # "idle"
    /\ phase[k] = "append" => /\ log[seq[k]].type = CommandEvent(op[k])
                              /\ log[seq[k]].colony = target[k]
    /\ op[k] \notin {"idle", "spawn"} => status[target[k]] # "absent"
    /\ op[k] = "spawn" /\ phase[k] = "append" => status[target[k]] = "absent"
    /\ op[k] = "kill" /\ phase[k] \in {"fanout", "returned"}
       => status[target[k]] \in Settled

ClientInv == \A k \in Client : CallOK(k)

(* What a status says of the log.  A verdict nobody applied is one still    *)
(* being emitted, or belongs to a colony settled otherwise (killed).        *)
StatusInv ==
    \A c \in Colony :
        /\ status[c] # "absent" <=> \E i \in applied : IsSpawn(i, c)
        /\ status[c] \in Settled <=> \E i \in applied : IsTerminal(i, c)
        /\ mode # "replaying" =>
              \A i \in 1..Len(log) : IsVerdict(i, c) =>
                  \/ status[c] \in Settled
                  \/ phase[c] = "append" /\ seq[c] = i

Once == \A c \in Colony : \A i, j \in 1..Len(log) :
            IsVerdict(i, c) /\ IsVerdict(j, c) => i = j

IInv == BaseInv /\ LogInv /\ TaskInv /\ ClientInv /\ StatusInv /\ Once

-----------------------------------------------------------------------------
(* Layer one: types, store and restart.                                     *)

LEMMA Actors == /\ \A c \in Colony : c \in Actor
                /\ \A k \in Client : k \in Actor
                /\ \A a \in Actor : a \in Colony \/ a \in Client
  BY DEF Actor

(* What an emission does to the log and to the store's invariant.           *)
LEMMA EmitFacts ==
    ASSUME TypeOK, StoreInv, NEW a \in Actor, NEW t \in EventType,
           NEW c \in Colony, NEW r \in 0..MaxRounds, Emit(a, t, c, r),
           applied' = applied
    PROVE  /\ log' \in Seq(Event)
           /\ Len(log') = Len(log) + 1
           /\ \A i \in 1..Len(log) : log'[i] = log[i]
           /\ log'[Len(log) + 1] = [type |-> t, colony |-> c, round |-> r]
           /\ durable' = durable /\ durable' \in 0..Len(log')
           /\ applied' \subseteq 1..Len(log')
           /\ phase' \in [Actor -> Phase]
           /\ seq' \in [Actor -> Nat]
           /\ aud' \in [Actor -> Audience]
           /\ StoreInv'
  <1> DEFINE e == [type |-> t, colony |-> c, round |-> r]
  <1>1. e \in Event
    BY DEF Event
  <1>2. log \in Seq(Event) /\ log' = Append(log, e) /\ Len(log) \in Nat
    BY LenProperties DEF TypeOK, Emit
  <1>3. /\ log' \in Seq(Event) /\ Len(log') = Len(log) + 1
        /\ \A i \in 1..Len(log) : log'[i] = log[i]
        /\ log'[Len(log) + 1] = e
    BY <1>1, <1>2, AppendProperties
  <1>4. /\ durable' = durable /\ durable' \in 0..Len(log')
        /\ applied' \subseteq 1..Len(log')
        /\ phase' \in [Actor -> Phase] /\ seq' \in [Actor -> Nat]
        /\ aud' \in [Actor -> Audience]
    BY <1>2, <1>3 DEF TypeOK, Emit, Phase
  <1>5. StoreInv'
    <2>1. \A b \in Actor : b # a => phase'[b] = phase[b] /\ seq'[b] = seq[b]
      BY DEF Emit, TypeOK
    <2>2. phase'[a] = "append" /\ seq'[a] = Len(log) + 1
      BY DEF Emit, TypeOK
    <2>3. durable \in Nat /\ durable <= Len(log) /\ applied \subseteq 1..durable
      BY <1>2 DEF TypeOK, StoreInv
    <2>4. applied' \subseteq 1..durable'
      BY <1>4, <2>3
    <2>5. ASSUME NEW b \in Actor, phase'[b] = "append"
          PROVE  seq'[b] \in 1..Len(log') /\ \A i \in applied' : i < seq'[b]
      <3>1. CASE b = a
        BY <1>2, <1>3, <2>2, <2>3, <3>1
      <3>2. CASE b # a
        BY <1>2, <1>3, <2>1, <2>5, <3>2 DEF StoreInv
      <3> QED
        BY <3>1, <3>2
    <2>6. ASSUME NEW b \in Actor, NEW d \in Actor, phase'[b] = "append",
                 phase'[d] = "append", seq'[b] = seq'[d]
          PROVE  b = d
      <3>1. \A x \in Actor : x # a /\ phase'[x] = "append" =>
                seq'[x] \in 1..Len(log)
        BY <2>1 DEF StoreInv
      <3> QED
        BY <1>2, <2>1, <2>2, <2>6, <3>1 DEF StoreInv
    <2> QED
      BY <2>4, <2>5, <2>6 DEF StoreInv
  <1> QED
    BY <1>3, <1>4, <1>5

(* What a step of a round loop comes to: it moves the loop, and emits the   *)
(* event of the place it moves to or ends its emission.                     *)
TaskMove(c) ==
    /\ pc[c] \notin {"idle", "done"} \/ phase[c] # "none"
    /\ pc[c] \notin Emitting \/ phase[c] \in {"returned", "raised"}
    /\ pc' \in [Colony -> PC] /\ rnd' \in [Colony -> 0..MaxRounds]
    /\ \A d \in Colony : d # c => pc'[d] = pc[d]
    /\ pc'[c] # "idle"
    /\ pc'[c] \in PreVerdict \cup {"completing", "failing", "halting"}
       => pc[c] \in PreVerdict
    /\ \/ /\ pc'[c] \in Emitting
          /\ \E r \in 0..MaxRounds : Emit(c, TaskEvent(pc'[c]), c, r)
       \/ /\ pc'[c] \notin Emitting
          /\ (NoEmit /\ pc[c] \notin Emitting) \/ EndEmit(c)
    /\ LoopFrame

LEMMA TaskMoves ==
    ASSUME TypeOK, NEW c \in Colony, TaskStep(c), ~TaskDone(c)
    PROVE  TaskMove(c)
  <1>0. /\ MaxRounds \in Nat /\ 0 \in 0..MaxRounds
        /\ pc \in [Colony -> PC] /\ rnd \in [Colony -> 0..MaxRounds]
        /\ round \in [Colony -> 0..MaxRounds] /\ phase \in [Actor -> Phase]
        /\ pc[c] \in PC /\ rnd[c] \in 0..MaxRounds /\ c \in Actor
    BY ConstantsAssumption, Actors DEF TypeOK
  <1>1. CASE RunColony(c)
    BY <1>0, <1>1 DEF RunColony, TaskMove, AtPC, Goto, Fail, LastRound,
       TaskEvent, Emitting, PreVerdict, PC
  <1>2. CASE LoopHead(c)
    <2>1. CASE pc'[c] = "prep"
      BY <1>0, <1>2, <2>1 DEF LoopHead, TaskMove, AtPC, Goto, Fail, RoundsLeft,
         TaskEvent, Emitting, PreVerdict, PC, NoEmit
    <2>2. CASE pc'[c] # "prep"
      BY <1>0, <1>2, <2>2 DEF LoopHead, TaskMove, AtPC, Goto, Fail, RoundsLeft,
         TaskEvent, Emitting, PreVerdict, PC
    <2> QED
      BY <2>1, <2>2
  <1>3. CASE StartRound(c)
    BY <1>0, <1>3 DEF StartRound, TaskMove, AtPC, Goto, TaskEvent, Emitting,
       PreVerdict, PC
  <1>4. CASE EndRound(c)
    BY <1>0, <1>4 DEF EndRound, TaskMove, AtPC, Goto, Fail, TaskEvent, Emitting,
       PreVerdict, PC
  <1>5. CASE Judge(c)
    BY <1>0, <1>5 DEF Judge, TaskMove, AtPC, Goto, Fail, TaskEvent, Emitting,
       PreVerdict, PC
  <1>6. CASE Exhaust(c)
    BY <1>0, <1>6 DEF Exhaust, TaskMove, AtPC, Goto, TaskEvent, Emitting,
       PreVerdict, PC
  <1>7. CASE Continue(c)
    BY <1>0, <1>7 DEF Continue, TaskMove, Goto, After, TaskEvent, Emitting,
       PreVerdict, PC
  <1>8. CASE Raise(c)
    BY <1>0, <1>8 DEF Raise, TaskMove, Goto, Fail, InsideTry, TaskEvent, Emitting,
       PreVerdict, PC
  <1>9. CASE HooksDone(c)
    BY <1>0, <1>9 DEF HooksDone, TaskMove, AtPC, Goto, Emitting, PreVerdict, PC
  <1> QED
    BY <1>1, <1>2, <1>3, <1>4, <1>5, <1>6, <1>7, <1>8, <1>9 DEF TaskStep

(* Steps that touch neither store nor rows applied and emit nothing new     *)
(* keep the store's invariant.                                              *)
LEMMA QuietFacts ==
    ASSUME TypeOK, StoreInv, UNCHANGED <<storeVars, applied>>,
           \A a \in Actor : phase'[a] = "append" =>
                phase[a] = "append" /\ seq'[a] = seq[a]
    PROVE  StoreInv'
  <1>1. log' = log /\ durable' = durable /\ applied' = applied
    BY DEF storeVars
  <1> QED
    BY <1>1 DEF StoreInv

LEMMA TaskMoveBase ==
    ASSUME BaseInv, NEW c \in Colony, TaskMove(c)
    PROVE  BaseInv'
  <1> USE DEF BaseInv
  <1>1. c \in Actor /\ mode # "replaying" /\ mode' = mode
    BY Actors DEF TaskMove, ReplayInv, LoopFrame
  <1>4. ReplayInv' /\ CallInv'
    <2>1. op' = op /\ target' = target
      BY DEF TaskMove, LoopFrame, clientVars
    <2> QED
      BY <1>1, <2>1 DEF ReplayInv, CallInv
  <1>2. ASSUME NEW r \in 0..MaxRounds, Emit(c, TaskEvent(pc'[c]), c, r)
        PROVE  BaseInv'
    <2>1. TaskEvent(pc'[c]) \in EventType /\ applied' = applied
      BY DEF TaskEvent, EventType, Terminal, Verdict, TaskMove, LoopFrame
    <2>2. StoreInv' /\ TypeOK'
      BY <1>1, <1>2, <2>1, EmitFacts
         DEF TypeOK, TaskMove, LoopFrame, projVars, clientVars
    <2> QED
      BY <1>4, <2>2
  <1>3. ASSUME NoEmit \/ EndEmit(c)
        PROVE  BaseInv'
    <2>1. /\ UNCHANGED <<storeVars, applied>>
          /\ phase' \in [Actor -> Phase] /\ seq' \in [Actor -> Nat] /\ aud' = aud
          /\ \A a \in Actor : phase'[a] = "append" =>
                phase[a] = "append" /\ seq'[a] = seq[a]
      <3>1. CASE NoEmit
        BY <3>1 DEF TypeOK, TaskMove, LoopFrame, NoEmit, emitVars, storeVars
      <3>2. CASE EndEmit(c)
        BY <3>2 DEF TypeOK, TaskMove, LoopFrame, EndEmit, storeVars, Phase
      <3> QED
        BY <1>3, <3>1, <3>2
    <2>2. StoreInv' /\ TypeOK'
      BY <1>1, <2>1, QuietFacts
         DEF TypeOK, TaskMove, LoopFrame, projVars, clientVars, storeVars
    <2> QED
      BY <1>4, <2>2
  <1> QED
    BY <1>2, <1>3 DEF TaskMove

(* A command begins: it emits the event it is named for.                    *)
CommandMove(k, c) ==
    /\ mode = "serving" /\ op[k] = "idle" /\ requests < MaxRequests
    /\ op' \in [Client -> Op] /\ op'[k] # "idle"
    /\ \A j \in Client : j # k => op'[j] = op[j]
    /\ target' = [target EXCEPT ![k] = c]
    /\ Emit(k, CommandEvent(op'[k]), c, 0)
    /\ status' = IF op'[k] = "service" THEN [status EXCEPT ![c] = "service"] ELSE status
    /\ CASE op'[k] = "spawn"   -> \A i \in 1..Len(log) : log[i].colony # c
         [] op'[k] = "service" -> status[c] = "completed"
         [] OTHER              -> status[c] # "absent"
    /\ requests' = requests + 1
    /\ UNCHANGED <<applied, mode, round, override, active, toStart, taskVars,
                   subs, restarts>>

LEMMA CommandMoves ==
    ASSUME TypeOK, NEW k \in Client, NEW c \in Colony, Command(k, c)
    PROVE  CommandMove(k, c)
  <1>0. op \in [Client -> Op]
    BY DEF TypeOK
  <1>1. CASE SpawnColony(k, c)
    BY <1>0, <1>1 DEF SpawnColony, Accept, CommandMove, CommandEvent, Op
  <1>2. CASE KillColony(k, c)
    BY <1>0, <1>2 DEF KillColony, Accept, CommandMove, CommandEvent, Op
  <1>3. CASE ActivateService(k, c)
    BY <1>0, <1>3 DEF ActivateService, MayServe, Accept, CommandMove, CommandEvent, Op
  <1>4. CASE EscalateColony(k, c)
    BY <1>0, <1>4 DEF EscalateColony, Accept, CommandMove, CommandEvent, Op
  <1> QED
    BY <1>1, <1>2, <1>3, <1>4 DEF Command

LEMMA CommandMoveBase ==
    ASSUME BaseInv, NEW k \in Client, NEW c \in Colony, CommandMove(k, c)
    PROVE  BaseInv'
  <1> USE DEF BaseInv
  <1>1. k \in Actor /\ mode' = "serving" /\ 0 \in 0..MaxRounds
    BY Actors, ConstantsAssumption DEF CommandMove
  <1>2. CommandEvent(op'[k]) \in EventType /\ applied' = applied
    BY DEF CommandEvent, EventType, Terminal, Verdict, CommandMove
  <1>3. Emit(k, CommandEvent(op'[k]), c, 0)
    BY DEF CommandMove
  <1>4. StoreInv'
    BY <1>1, <1>2, <1>3, EmitFacts
  <1>6. requests' \in 0..MaxRequests
    BY ConstantsAssumption DEF CommandMove, TypeOK
  <1>5. TypeOK'
    BY <1>1, <1>2, <1>3, <1>6, EmitFacts
       DEF TypeOK, CommandMove, taskVars, Status, Settled
  <1>7. ReplayInv'
    BY <1>1 DEF ReplayInv
  <1>8. CallInv'
    BY DEF CallInv, CommandMove, TypeOK
  <1> QED
    BY <1>4, <1>5, <1>7, <1>8

(* Truncating the log at a crash.                                           *)
LEMMA Truncate ==
    ASSUME TypeOK, Crash
    PROVE  /\ log' \in Seq(Event) /\ Len(log') = durable /\ durable \in Nat
           /\ durable <= Len(log)
           /\ \A i \in 1..durable : log'[i] = log[i]
  <1>1. /\ Len(log) \in Nat /\ durable \in 0..Len(log)
        /\ \A i \in 1..durable : log[i] \in Event
    BY LenProperties DEF TypeOK
  <1>2. log' = SubSeq(log, 1, durable)
    BY DEF Crash
  <1>3. /\ SubSeq(log, 1, durable) \in Seq(Event)
        /\ Len(SubSeq(log, 1, durable)) = IF 1 <= durable THEN durable - 1 + 1 ELSE 0
        /\ \A i \in 1..(durable - 1 + 1) : SubSeq(log, 1, durable)[i] = log[1 + i - 1]
    BY <1>1, SubSeqProperties
  <1> QED
    BY <1>1, <1>2, <1>3

LEMMA BaseInit == Init => BaseInv
  <1> SUFFICES ASSUME Init PROVE BaseInv
    OBVIOUS
  <1>1. <<>> \in Seq(Event) /\ Len(<<>>) = 0
    OBVIOUS
  <1>2. MaxRounds \in Nat /\ MaxRequests \in Nat /\ MaxRestarts \in Nat
        /\ MaxGen \in Nat /\ MaxSubs \in Nat
    BY ConstantsAssumption
  <1>3. NoAudience \in Audience
    BY <1>2 DEF NoAudience, Audience
  <1>4. TypeOK
    BY <1>1, <1>2, <1>3 DEF Init, TypeOK, Status, PC, Op, Phase
  <1> QED
    BY <1>4 DEF Init, BaseInv, StoreInv, ReplayInv, CallInv

(* An applied row: the statuses it can lead to.                             *)
LEMMA ApplyFacts ==
    ASSUME TypeOK, NEW i \in 1..Len(log), Apply(log[i])
    PROVE  /\ log[i].colony \in Colony /\ log[i].type \in EventType
           /\ status' = [status EXCEPT ![log[i].colony] = StatusAfter(log[i].type, @)]
           /\ status' \in [Colony -> Status]
           /\ round' \in [Colony -> 0..MaxRounds]
           /\ override' \in [Colony -> BOOLEAN]
  <1>1. log[i] \in Event
    BY DEF TypeOK
  <1>2. /\ log[i].colony \in Colony /\ log[i].type \in EventType
        /\ log[i].round \in 0..MaxRounds
    BY <1>1 DEF Event
  <1>3. \A t \in EventType, o \in Status : StatusAfter(t, o) \in Status
    BY DEF StatusAfter, StatusOf, Status, Settled
  <1> QED
    BY <1>2, <1>3 DEF Apply, TypeOK, RoundAfter, OverrideAfter

LEMMA BaseStep == BaseInv /\ [Next]_vars => BaseInv'
  <1> SUFFICES ASSUME BaseInv, [Next]_vars PROVE BaseInv'
    OBVIOUS
  <1> USE DEF BaseInv
  <1>1. ASSUME NEW c \in Colony, TaskStep(c), ~TaskDone(c) PROVE BaseInv'
    BY <1>1, TaskMoves, TaskMoveBase
  <1>2. ASSUME NEW k \in Client, NEW c \in Colony, Command(k, c) PROVE BaseInv'
    BY <1>2, CommandMoves, CommandMoveBase
  <1>3. ASSUME NEW c \in Colony, TaskDone(c) PROVE BaseInv'
    <2>1. TypeOK'
      BY <1>3, ConstantsAssumption
         DEF TaskDone, TypeOK, storeVars, emitVars, clientVars, projVars, PC
    <2>2. StoreInv'
      BY <1>3, QuietFacts DEF TaskDone, emitVars
    <2> QED
      BY <1>3, <2>1, <2>2 DEF TaskDone, ReplayInv, CallInv, clientVars
  <1>4. ASSUME NEW c \in Colony, StartColony(c) PROVE BaseInv'
    <2>1. StoreInv'
      BY <1>4, QuietFacts DEF StartColony, emitVars
    <2>2. TypeOK'
      BY <1>4 DEF StartColony, TypeOK, storeVars, emitVars, clientVars, projVars, PC
    <2> QED
      BY <1>4, <2>1, <2>2 DEF StartColony, ReplayInv, CallInv, clientVars
  <1>5. ASSUME NEW k \in Client, Spawned(k) PROVE BaseInv'
    <2>1. /\ k \in Actor /\ mode # "replaying" /\ mode' = mode /\ target[k] \in Colony
      BY <1>5, Actors DEF Spawned, Finished, ReplayInv, CallInv, Op
    <2>2. StoreInv'
      BY <1>5, <2>1, QuietFacts DEF Spawned, Finished, EndEmit, TypeOK
    <2>3. TypeOK'
      BY <1>5, <2>1 DEF Spawned, Finished, EndEmit, TypeOK, storeVars, projVars, Op, Phase
    <2> QED
      BY <1>5, <2>1, <2>2, <2>3 DEF ReplayInv, CallInv, Spawned, Finished, TypeOK
  <1>6. ASSUME NEW k \in Client, Killed(k) PROVE BaseInv'
    <2>1. /\ k \in Actor /\ mode # "replaying" /\ mode' = mode /\ target[k] \in Colony
      BY <1>6, Actors DEF Killed, Finished, ReplayInv, CallInv, Op
    <2>2. StoreInv'
      <3>1. UNCHANGED <<storeVars, applied>>
        BY <1>6 DEF Killed, Finished
      <3>2. \A a \in Actor : phase'[a] = "append" =>
                phase[a] = "append" /\ seq'[a] = seq[a]
        BY <1>6 DEF Killed
      <3> QED
        BY <3>1, <3>2, QuietFacts
    <2>3. NoAudience \in Audience
      BY ConstantsAssumption DEF NoAudience, Audience
    <2>4. TypeOK'
      BY <1>6, <2>1, <2>3 DEF Killed, Finished, TypeOK, storeVars, projVars, Op, Phase, PC
    <2> QED
      BY <1>6, <2>1, <2>2, <2>4 DEF ReplayInv, CallInv, Killed, Finished, TypeOK
  <1>7. ASSUME NEW k \in Client, Answered(k) PROVE BaseInv'
    <2>1. k \in Actor /\ mode # "replaying" /\ mode' = mode
      BY <1>7, Actors DEF Answered, Finished, ReplayInv
    <2>2. StoreInv'
      BY <1>7, <2>1, QuietFacts DEF Answered, Finished, EndEmit, TypeOK
    <2>3. TypeOK'
      BY <1>7, <2>1 DEF Answered, Finished, EndEmit, TypeOK, storeVars, projVars, Op, Phase
    <2> QED
      BY <1>7, <2>1, <2>2, <2>3 DEF ReplayInv, CallInv, Answered, Finished, TypeOK
  <1>8. ASSUME NEW a \in Actor, Deliver(a) PROVE BaseInv'
    <2>1. mode # "replaying" /\ mode' = mode /\ UNCHANGED <<storeVars, clientVars>>
      BY <1>8 DEF Deliver, ReplayInv
    <2>2. seq[a] \in 1..Len(log) /\ seq[a] \in 1..durable
      BY <1>8 DEF Deliver, StoreInv, AppendReturns, TypeOK
    <2>3. TypeOK'
      BY <1>8, <2>1, <2>2, ApplyFacts
         DEF Deliver, TypeOK, storeVars, clientVars, taskVars, Phase
    <2>4. applied' \subseteq 1..durable'
      BY <1>8, <2>1, <2>2 DEF Deliver, StoreInv, storeVars
    <2>5. ASSUME NEW b \in Actor, phase'[b] = "append"
          PROVE  /\ phase[b] = "append" /\ seq'[b] = seq[b]
                 /\ seq'[b] \in 1..Len(log') /\ \A i \in applied' : i < seq'[b]
      <3>1. b # a /\ phase[b] = "append" /\ seq'[b] = seq[b]
        BY <1>8, <2>5 DEF Deliver, TypeOK
      <3>2. seq[a] < seq[b]
        BY <1>8, <2>2, <3>1 DEF Deliver, StoreInv, AppendReturns
      <3> QED
        BY <1>8, <2>1, <3>1, <3>2 DEF Deliver, StoreInv, storeVars
    <2>6. StoreInv'
      BY <2>4, <2>5 DEF StoreInv
    <2> QED
      BY <2>1, <2>3, <2>6 DEF ReplayInv, CallInv, clientVars
  <1>9. ASSUME NEW a \in Actor, FanOut(a) PROVE BaseInv'
    <2>1. mode # "replaying" /\ mode' = mode /\ NoAudience \in Audience
      BY <1>9, ConstantsAssumption DEF FanOut, ReplayInv, NoAudience, Audience
    <2>2. StoreInv'
      BY <1>9, QuietFacts DEF FanOut, TypeOK
    <2>4. subs' \in Audience
      <3>1. /\ subs = [gen |-> subs.gen, n |-> subs.n]
            /\ subs.gen \in 0..MaxGen + 1 /\ subs.n \in 0..MaxSubs
        BY DEF TypeOK, Audience
      <3>2. CASE UNCHANGED subs
        BY <3>2 DEF TypeOK
      <3>3. ASSUME NEW n \in 0..subs.n, subs' = [subs EXCEPT !.n = n]
            PROVE  subs' \in Audience
        <4>1. subs' = [gen |-> subs.gen, n |-> n]
          BY <3>1, <3>3
        <4>2. n \in 0..MaxSubs
          BY <3>1, ConstantsAssumption
        <4> QED
          BY <3>1, <4>1, <4>2 DEF Audience
      <3> QED
        BY <1>9, <3>2, <3>3 DEF FanOut
    <2>3. TypeOK'
      BY <1>9, <2>1, <2>4 DEF FanOut, TypeOK, storeVars, clientVars, taskVars, projVars, Phase
    <2> QED
      BY <1>9, <2>1, <2>2, <2>3 DEF FanOut, ReplayInv, CallInv, clientVars
  <1>10. CASE Commit
    <2>1. StoreInv' /\ TypeOK'
      BY <1>10 DEF Commit, StoreInv, TypeOK, emitVars, clientVars, taskVars, projVars
    <2> QED
      BY <1>10, <2>1 DEF Commit, ReplayInv, CallInv, emitVars, clientVars, taskVars
  <1>11. CASE Subscribe \/ Unsubscribe
    <2>1. subs' \in Audience
      <3>1. /\ subs = [gen |-> subs.gen, n |-> subs.n]
            /\ subs.gen \in 0..MaxGen + 1 /\ subs.n \in 0..MaxSubs
        BY DEF TypeOK, Audience
      <3>2. CASE Subscribe
        <4>1. subs' = [gen |-> subs.gen, n |-> subs.n + 1] /\ subs.n < MaxSubs
          BY <3>1, <3>2 DEF Subscribe
        <4>2. subs.n + 1 \in 0..MaxSubs
          BY <3>1, <4>1, ConstantsAssumption
        <4> QED
          BY <3>1, <4>1, <4>2 DEF Audience
      <3>3. CASE Unsubscribe
        <4> DEFINE newGen == IF subs.n = 1 THEN subs.gen + 1 ELSE subs.gen
        <4>1. /\ subs' = [gen |-> newGen, n |-> subs.n - 1]
              /\ subs.n > 0 /\ subs.gen <= MaxGen
          BY <3>3 DEF Unsubscribe
        <4>2. newGen \in 0..MaxGen + 1 /\ subs.n - 1 \in 0..MaxSubs
          BY <3>1, <4>1, ConstantsAssumption
        <4> HIDE DEF newGen
        <4> QED
          BY <4>1, <4>2 DEF Audience
      <3> QED
        BY <1>11, <3>2, <3>3
    <2>2. UNCHANGED <<storeVars, applied, mode, projVars, active, toStart, taskVars,
                      clientVars, emitVars, restarts>>
      BY <1>11 DEF Subscribe, Unsubscribe
    <2>3. StoreInv' /\ TypeOK'
      BY <2>1, <2>2 DEF StoreInv, TypeOK, storeVars, emitVars, clientVars, taskVars, projVars
    <2> QED
      BY <2>2, <2>3 DEF ReplayInv, CallInv, storeVars, emitVars, clientVars, taskVars
  <1>12. CASE Crash
    <2>1. NoAudience \in Audience /\ restarts' \in 0..MaxRestarts
      BY <1>12, ConstantsAssumption DEF Crash, TypeOK, NoAudience, Audience
    <2>2. TypeOK'
      BY <1>12, <2>1, Truncate, ConstantsAssumption
         DEF Crash, TypeOK, Status, PC, Op, Phase
    <2>3. CallInv' /\ StoreInv'
      BY <1>12 DEF Crash, StoreInv, CallInv
    <2>4. ReplayInv'
      <3>1. Len(log') = durable /\ durable \in Nat
        BY <1>12, Truncate
      <3>2. 0 \in 0..Len(log') /\ {} = 1..0
        BY <3>1
      <3> QED
        BY <1>12, <3>1, <3>2 DEF Crash, ReplayInv
    <2> QED
      BY <2>2, <2>3, <2>4
  <1>13. CASE Replay
    <2> PICK i \in 1..Len(log) : /\ applied = 1..(i - 1)
                                 /\ Apply(log[i])
                                 /\ applied' = 1..i
      BY <1>13 DEF Replay
    <2>1. Len(log) \in Nat /\ durable = Len(log) /\ UNCHANGED <<storeVars, emitVars>>
      BY <1>13, LenProperties DEF Replay, ReplayInv, TypeOK
    <2>2. TypeOK'
      BY <1>13, <2>1, ApplyFacts
         DEF Replay, TypeOK, storeVars, emitVars, clientVars, taskVars
    <2>3. StoreInv'
      BY <1>13, <2>1 DEF Replay, StoreInv, ReplayInv, storeVars, emitVars
    <2> QED
      BY <1>13, <2>1, <2>2, <2>3
         DEF Replay, ReplayInv, CallInv, storeVars, emitVars, clientVars, taskVars
  <1>14. CASE Rehydrate
    <2>1. StoreInv'
      BY <1>14, QuietFacts DEF Rehydrate, emitVars
    <2>2. TypeOK'
      BY <1>14 DEF Rehydrate, Rehydratable, TypeOK, storeVars, emitVars, clientVars,
                   taskVars, projVars
    <2> QED
      BY <1>14, <2>1, <2>2 DEF Rehydrate, ReplayInv, CallInv, clientVars
  <1>15. CASE Serve
    <2>1. StoreInv'
      BY <1>15, QuietFacts DEF Serve, emitVars
    <2>2. TypeOK'
      BY <1>15 DEF Serve, TypeOK, storeVars, emitVars, clientVars, taskVars, projVars
    <2> QED
      BY <1>15, <2>1, <2>2 DEF Serve, ReplayInv, CallInv, clientVars
  <1>16. CASE UNCHANGED vars
    BY <1>16 DEF vars, TypeOK, StoreInv, ReplayInv, CallInv, storeVars, emitVars,
                 clientVars, taskVars, projVars
  <1> QED
    BY <1>1, <1>2, <1>3, <1>4, <1>5, <1>6, <1>7, <1>8, <1>9, <1>10, <1>11, <1>12,
       <1>13, <1>14, <1>15, <1>16 DEF Next, TaskStep, ClientStep, EmitStep, Restart

LEMMA BaseCorrect == Spec => []BaseInv
  BY BaseInit, BaseStep, PTL DEF Spec

(* Every variable keeps its type, for any colonies, clients and bounds.     *)
THEOREM TypeCorrect == Spec => []TypeOK
  <1>1. BaseInv => TypeOK
    BY DEF BaseInv
  <1> QED
    BY <1>1, BaseCorrect, PTL

-----------------------------------------------------------------------------
(* The refinement: each step inserts a row, shows one, crashes, replays,    *)
(* resumes, or is a stutter of the abstract event log.                      *)

LEMMA EmitInserts ==
    ASSUME BaseInv, NEW a \in Actor, NEW t \in EventType, NEW c \in Colony,
           NEW r \in 0..MaxRounds, Emit(a, t, c, r), mode # "replaying",
           UNCHANGED <<applied, mode>>
    PROVE  Ledger!Insert
  <1>1. [type |-> t, colony |-> c, round |-> r] \in Event
    BY DEF Event
  <1> QED
    BY <1>1 DEF Emit, Ledger!Insert

LEMMA LedgerStep == BaseInv /\ [Next]_vars => [Ledger!Next]_(Ledger!vars)
  <1> SUFFICES ASSUME BaseInv, [Next]_vars PROVE [Ledger!Next]_(Ledger!vars)
    OBVIOUS
  <1> USE DEF BaseInv
  <1>1. ASSUME UNCHANGED <<log, applied, mode>> PROVE UNCHANGED Ledger!vars
    BY <1>1 DEF Ledger!vars
  <1>2. ASSUME NEW c \in Colony, TaskStep(c), ~TaskDone(c)
        PROVE  [Ledger!Next]_(Ledger!vars)
    <2>1. TaskMove(c)
      BY <1>2, TaskMoves
    <2>2. c \in Actor /\ mode # "replaying" /\ UNCHANGED <<applied, mode>>
      BY <2>1, Actors DEF TaskMove, ReplayInv, LoopFrame
    <2>3. TaskEvent(pc'[c]) \in EventType
      BY DEF TaskEvent, EventType, Terminal, Verdict
    <2>4. CASE \E r \in 0..MaxRounds : Emit(c, TaskEvent(pc'[c]), c, r)
      BY <2>2, <2>3, <2>4, EmitInserts DEF Ledger!Next
    <2>5. CASE NoEmit \/ EndEmit(c)
      BY <1>1, <2>2, <2>5 DEF NoEmit, EndEmit, storeVars
    <2> QED
      BY <2>1, <2>4, <2>5 DEF TaskMove
  <1>3. ASSUME NEW k \in Client, NEW c \in Colony, Command(k, c)
        PROVE  [Ledger!Next]_(Ledger!vars)
    <2>1. CommandMove(k, c)
      BY <1>3, CommandMoves
    <2>2. /\ k \in Actor /\ 0 \in 0..MaxRounds /\ mode = "serving"
          /\ UNCHANGED <<applied, mode>> /\ Emit(k, CommandEvent(op'[k]), c, 0)
      BY <2>1, Actors, ConstantsAssumption DEF CommandMove
    <2>3. CommandEvent(op'[k]) \in EventType
      BY DEF CommandEvent, EventType, Terminal, Verdict
    <2> QED
      BY <2>2, <2>3, EmitInserts DEF Ledger!Next
  <1>4. ASSUME NEW c \in Colony, TaskDone(c) \/ StartColony(c)
        PROVE  [Ledger!Next]_(Ledger!vars)
    BY <1>1, <1>4 DEF TaskDone, StartColony, storeVars
  <1>5. ASSUME NEW k \in Client, ClientStep(k) PROVE [Ledger!Next]_(Ledger!vars)
    BY <1>1, <1>5 DEF ClientStep, Spawned, Killed, Answered, Finished, EndEmit, storeVars
  <1>6. ASSUME NEW a \in Actor, Deliver(a) PROVE [Ledger!Next]_(Ledger!vars)
    <2>1. seq[a] \in 1..Len(log) /\ \A j \in applied : j < seq[a]
      BY <1>6 DEF Deliver, StoreInv
    <2>2. mode # "replaying" /\ applied' = applied \cup {seq[a]}
          /\ UNCHANGED <<log, mode>>
      BY <1>6 DEF Deliver, ReplayInv, storeVars
    <2>3. Ledger!Show
      BY <2>1, <2>2 DEF Ledger!Show
    <2> QED
      BY <2>3 DEF Ledger!Next
  <1>7. ASSUME NEW a \in Actor, FanOut(a) PROVE [Ledger!Next]_(Ledger!vars)
    BY <1>1, <1>7 DEF FanOut, storeVars
  <1>8. CASE Commit \/ Subscribe \/ Unsubscribe \/ Serve
    BY <1>8 DEF Commit, Subscribe, Unsubscribe, Serve, storeVars, Ledger!vars
  <1>9. CASE Crash
    <2>1. durable \in 0..Len(log) /\ applied \subseteq 1..durable
      BY DEF TypeOK, StoreInv
    <2>2. Ledger!Crash
      BY <1>9, <2>1 DEF Crash, Ledger!Crash
    <2> QED
      BY <2>2 DEF Ledger!Next
  <1>10. CASE Replay
    <2>1. mode = "replaying" /\ UNCHANGED <<log, mode>>
      BY <1>10 DEF Replay, storeVars
    <2>2. Ledger!Replay
      BY <1>10, <2>1 DEF Replay, Ledger!Replay
    <2> QED
      BY <2>2 DEF Ledger!Next
  <1>11. CASE Rehydrate
    <2>1. Ledger!Resume
      BY <1>11 DEF Rehydrate, Ledger!Resume, storeVars
    <2> QED
      BY <2>1 DEF Ledger!Next
  <1>12. CASE UNCHANGED vars
    BY <1>1, <1>12 DEF vars, storeVars
  <1> QED
    BY <1>2, <1>3, <1>4, <1>5, <1>6, <1>7, <1>8, <1>9, <1>10, <1>11, <1>12
       DEF Next, TaskStep, EmitStep, Restart

(* The lifecycle implements the abstract event log: what was shown survives *)
(* a crash, rows are shown in order, a restart shows every row before it    *)
(* serves.                                                                  *)
THEOREM LedgerRefined == Spec => ImplementsEventLog
  <1>1. Init => Ledger!Init
    BY DEF Init, Ledger!Init
  <1> QED
    BY <1>1, LedgerStep, BaseCorrect, PTL DEF Spec, ImplementsEventLog, Ledger!Spec

-----------------------------------------------------------------------------
(* Layer two: what the rows of the log say of tasks, commands and statuses. *)

(* A row that is appended, seen by the invariants.                          *)
LEMMA EmitRow ==
    ASSUME BaseInv, NEW a \in Actor, NEW t \in EventType, NEW c \in Colony,
           NEW r \in 0..MaxRounds, Emit(a, t, c, r), applied' = applied
    PROVE  /\ Len(log) \in Nat /\ Len(log') = Len(log) + 1
           /\ \A i \in 1..Len(log) : log'[i] = log[i]
           /\ log'[Len(log) + 1].type = t /\ log'[Len(log) + 1].colony = c
           /\ \A b \in Actor : b # a => phase'[b] = phase[b] /\ seq'[b] = seq[b]
           /\ phase'[a] = "append" /\ seq'[a] = Len(log) + 1
           /\ \A b \in Actor : phase[b] = "append" => seq[b] \in 1..Len(log)
           /\ applied \subseteq 1..Len(log)
  <1> USE DEF BaseInv
  <1>1. Len(log) \in Nat
    BY LenProperties DEF TypeOK
  <1>2. /\ Len(log') = Len(log) + 1
        /\ \A i \in 1..Len(log) : log'[i] = log[i]
        /\ log'[Len(log) + 1] = [type |-> t, colony |-> c, round |-> r]
    BY EmitFacts
  <1>3. /\ \A b \in Actor : b # a => phase'[b] = phase[b] /\ seq'[b] = seq[b]
        /\ phase'[a] = "append" /\ seq'[a] = Len(log) + 1
    BY DEF Emit, TypeOK
  <1>4. \A b \in Actor : phase[b] = "append" => seq[b] \in 1..Len(log)
    BY DEF StoreInv
  <1>5. applied \subseteq 1..Len(log)
    BY DEF TypeOK
  <1> QED
    BY <1>1, <1>2, <1>3, <1>4, <1>5

LEMMA TaskMoveIInv ==
    ASSUME IInv, NEW c \in Colony, TaskMove(c)
    PROVE  LogInv' /\ TaskInv' /\ ClientInv' /\ StatusInv' /\ Once'
  <1>1. BaseInv /\ LogInv /\ TaskInv /\ ClientInv /\ StatusInv /\ Once
    BY DEF IInv
  <1>2. UNCHANGED <<applied, mode, status, active, op, target>>
    BY DEF TaskMove, LoopFrame, projVars, clientVars
  <1>3. /\ c \in Actor /\ phase[c] # "append" /\ pc[c] \notin {"idle", "done"}
        /\ status[c] # "absent" /\ c \in active
    BY <1>1, Actors DEF TaskMove, TaskInv, TaskOK, Emitting
  <1>4. /\ \A d \in Colony : d # c => pc'[d] = pc[d]
        /\ pc'[c] \in PreVerdict \cup {"completing", "failing", "halting"}
           => pc[c] \in PreVerdict
        /\ pc'[c] # "idle"
    BY DEF TaskMove
  <1>5. ASSUME NEW r \in 0..MaxRounds, Emit(c, TaskEvent(pc'[c]), c, r),
               pc'[c] \in Emitting
        PROVE  LogInv' /\ TaskInv' /\ ClientInv' /\ StatusInv' /\ Once'
    <2> DEFINE n == Len(log) + 1
               t == TaskEvent(pc'[c])
    <2>1. /\ t \in EventType /\ t # "ColonySpawned"
          /\ t \in Terminal => t \in Verdict
          /\ t \in Verdict => pc'[c] \in {"completing", "failing", "halting"}
      BY <1>5 DEF TaskEvent, EventType, Terminal, Verdict, Emitting
    <2>2. /\ Len(log) \in Nat /\ Len(log') = n
          /\ \A i \in 1..Len(log) : log'[i] = log[i]
          /\ log'[n].type = t /\ log'[n].colony = c
          /\ \A b \in Actor : b # c => phase'[b] = phase[b] /\ seq'[b] = seq[b]
          /\ phase'[c] = "append" /\ seq'[c] = n
          /\ \A b \in Actor : phase[b] = "append" => seq[b] \in 1..Len(log)
          /\ applied \subseteq 1..Len(log)
      BY <1>1, <1>2, <1>3, <1>5, <2>1, EmitRow
    <2> HIDE DEF t
    <2>3. \A i \in 1..n : i \in 1..Len(log) \/ i = n
      BY <2>2
    <2>4. t \in Verdict => \A i \in 1..Len(log) : ~IsVerdict(i, c)
      BY <1>1, <1>4, <2>1 DEF TaskInv, TaskOK
    <2>5. LogInv'
      <3>1. \E j \in 1..Len(log) : IsSpawn(j, c)
        BY <1>1, <1>3, <2>2 DEF StatusInv
      <3>2. ASSUME NEW i \in 1..n PROVE (\E j \in 1..i : IsSpawn(j, log[i].colony))'
        <4>1. CASE i = n
          BY <2>2, <3>1, <4>1 DEF IsSpawn
        <4>2. CASE i \in 1..Len(log)
          <5>1. PICK j \in 1..i : IsSpawn(j, log[i].colony)
            BY <1>1, <4>2 DEF LogInv
          <5> QED
            BY <2>2, <4>2, <5>1 DEF IsSpawn
        <4> QED
          BY <2>3, <4>1, <4>2
      <3>3. ASSUME NEW i \in 1..n, log'[i].type = "ColonySpawned", NEW j \in 1..n,
                   log'[j].colony = log'[i].colony
            PROVE  i <= j
        <4>1. i \in 1..Len(log)
          BY <2>1, <2>2, <2>3, <3>3
        <4> QED
          BY <1>1, <2>2, <2>3, <3>3, <4>1 DEF LogInv
      <3> QED
        BY <2>2, <3>2, <3>3 DEF LogInv
    <2>6. TaskInv'
      <3>1. ASSUME NEW d \in Colony, d # c PROVE TaskOK(d)'
        BY <1>1, <1>2, <1>4, <2>2, <2>3, <3>1, Actors DEF TaskInv, TaskOK, IsVerdict
      <3>2. TaskOK(c)'
        BY <1>1, <1>2, <1>3, <1>4, <1>5, <2>1, <2>2, <2>3, <2>4
           DEF TaskInv, TaskOK, IsVerdict, PreVerdict, Emitting, t
      <3> QED
        BY <3>1, <3>2 DEF TaskInv
    <2>7. ClientInv'
      <3>1. \A k \in Client : k \in Actor /\ k # c
        BY Actors, ConstantsAssumption
      <3> QED
        BY <1>1, <1>2, <2>2, <3>1 DEF ClientInv, CallOK
    <2>8. StatusInv'
      <3>1. \A i \in applied : log'[i] = log[i]
        BY <2>2
      <3>2. ASSUME NEW d \in Colony, mode # "replaying", NEW i \in 1..n, IsVerdict(i, d)'
            PROVE  status[d] \in Settled \/ (phase'[d] = "append" /\ seq'[d] = i)
        <4>1. CASE i = n
          BY <2>2, <3>2, <4>1 DEF IsVerdict
        <4>2. CASE i \in 1..Len(log)
          <5>1. status[d] \in Settled \/ (phase[d] = "append" /\ seq[d] = i)
            BY <1>1, <2>2, <3>2, <4>2 DEF StatusInv, IsVerdict
          <5> QED
            BY <1>3, <2>2, <5>1, Actors
        <4> QED
          BY <2>3, <4>1, <4>2
      <3>3. ASSUME NEW d \in Colony
            PROVE  /\ status[d] # "absent" <=> \E i \in applied : IsSpawn(i, d)'
                   /\ status[d] \in Settled <=> \E i \in applied : IsTerminal(i, d)'
        BY <1>1, <3>1 DEF StatusInv, IsSpawn, IsTerminal
      <3>4. ASSUME NEW d \in Colony, mode # "replaying"
            PROVE  \A i \in 1..Len(log') : IsVerdict(i, d)' =>
                      status'[d] \in Settled \/ (phase'[d] = "append" /\ seq'[d] = i)
        BY <1>2, <2>2, <3>2, <3>4
      <3>5. status' = status /\ applied' = applied /\ mode' = mode
        BY <1>2
      <3> QED
        BY <3>3, <3>4, <3>5 DEF StatusInv
    <2>9. Once'
      BY <1>1, <2>2, <2>3, <2>4 DEF Once, IsVerdict
    <2> QED
      BY <2>5, <2>6, <2>7, <2>8, <2>9
  <1>6. ASSUME (NoEmit /\ pc[c] \notin Emitting) \/ EndEmit(c), pc'[c] \notin Emitting
        PROVE  LogInv' /\ TaskInv' /\ ClientInv' /\ StatusInv' /\ Once'
    <2>1. /\ log' = log
          /\ \A b \in Actor : b # c => phase'[b] = phase[b] /\ seq'[b] = seq[b]
          /\ phase'[c] = "none"
      BY <1>1, <1>3, <1>6
         DEF NoEmit, EndEmit, storeVars, emitVars, BaseInv, TypeOK, TaskInv, TaskOK
    <2>2. LogInv' /\ Once'
      BY <1>1, <2>1 DEF LogInv, Once, IsSpawn, IsVerdict
    <2>3. TaskInv'
      BY <1>1, <1>2, <1>3, <1>4, <2>1, Actors DEF TaskInv, TaskOK, IsVerdict
    <2>4. ClientInv'
      <3>1. \A k \in Client : k \in Actor /\ k # c
        BY Actors, ConstantsAssumption
      <3> QED
        BY <1>1, <1>2, <2>1, <3>1 DEF ClientInv, CallOK
    <2>5. StatusInv'
      BY <1>1, <1>2, <1>3, <2>1, Actors DEF StatusInv, IsSpawn, IsTerminal, IsVerdict
    <2> QED
      BY <2>2, <2>3, <2>4, <2>5
  <1> QED
    BY <1>5, <1>6 DEF TaskMove

LEMMA CommandMoveIInv ==
    ASSUME IInv, NEW k \in Client, NEW c \in Colony, CommandMove(k, c)
    PROVE  LogInv' /\ TaskInv' /\ ClientInv' /\ StatusInv' /\ Once'
  <1> DEFINE n == Len(log) + 1
             t == CommandEvent(op'[k])
  <1>1. BaseInv /\ LogInv /\ TaskInv /\ ClientInv /\ StatusInv /\ Once
    BY DEF IInv
  <1>2. /\ UNCHANGED <<applied, mode, pc, active>> /\ mode = "serving"
        /\ op[k] = "idle" /\ op'[k] # "idle" /\ op'[k] \in Op
        /\ target'[k] = c
        /\ \A j \in Client : j # k => op'[j] = op[j] /\ target'[j] = target[j]
    BY <1>1 DEF CommandMove, taskVars, BaseInv, TypeOK
  <1>3. /\ k \in Actor /\ k \notin Colony /\ 0 \in 0..MaxRounds
        /\ \A d \in Colony : d \in Actor /\ d # k
        /\ \A j \in Client : j \in Actor
    BY Actors, ConstantsAssumption
  <1>4. t \in EventType /\ t \notin Verdict
    BY DEF CommandEvent, EventType, Terminal, Verdict
  <1>5. /\ Len(log) \in Nat /\ Len(log') = n
        /\ \A i \in 1..Len(log) : log'[i] = log[i]
        /\ log'[n].type = t /\ log'[n].colony = c
        /\ \A b \in Actor : b # k => phase'[b] = phase[b] /\ seq'[b] = seq[b]
        /\ phase'[k] = "append" /\ seq'[k] = n
        /\ \A b \in Actor : phase[b] = "append" => seq[b] \in 1..Len(log)
        /\ applied \subseteq 1..Len(log)
    <2>1. Emit(k, t, c, 0)
      BY DEF CommandMove
    <2> QED
      BY <1>1, <1>2, <1>3, <1>4, <2>1, EmitRow
  <1>6. \A i \in 1..n : i \in 1..Len(log) \/ i = n
    BY <1>5
  <1>7. /\ t = "ColonySpawned" => \A i \in 1..Len(log) : log[i].colony # c
        /\ t # "ColonySpawned" => status[c] # "absent"
        /\ t = "ColonySpawned" <=> op'[k] = "spawn"
    BY <1>2 DEF CommandMove, CommandEvent, Op
  (* Activating a service keeps a settled colony settled.                   *)
  <1>8. \A d \in Colony : /\ status'[d] = "absent" <=> status[d] = "absent"
                          /\ status'[d] \in Settled <=> status[d] \in Settled
    BY <1>1, <1>2 DEF CommandMove, BaseInv, TypeOK, Settled
  <1>9. t = "ColonySpawned" => status[c] = "absent"
    BY <1>1, <1>5, <1>7 DEF StatusInv, IsSpawn
  <1> HIDE DEF t
  <1>10. LogInv'
    <2>1. ASSUME NEW i \in 1..n PROVE (\E j \in 1..i : IsSpawn(j, log[i].colony))'
      <3>1. CASE i = n /\ t # "ColonySpawned"
        <4>1. \E j \in 1..Len(log) : IsSpawn(j, c)
          BY <1>1, <1>5, <1>7, <3>1 DEF StatusInv
        <4> QED
          BY <1>5, <3>1, <4>1 DEF IsSpawn
      <3>2. CASE i = n /\ t = "ColonySpawned"
        BY <1>5, <3>2 DEF IsSpawn
      <3>3. CASE i \in 1..Len(log)
        <4>1. PICK j \in 1..i : IsSpawn(j, log[i].colony)
          BY <1>1, <3>3 DEF LogInv
        <4> QED
          BY <1>5, <3>3, <4>1 DEF IsSpawn
      <3> QED
        BY <1>6, <3>1, <3>2, <3>3
    <2>2. ASSUME NEW i \in 1..n, log'[i].type = "ColonySpawned", NEW j \in 1..n,
                 log'[j].colony = log'[i].colony
          PROVE  i <= j
      <3>1. CASE i = n
        BY <1>5, <1>6, <1>7, <2>2, <3>1
      <3>2. CASE i \in 1..Len(log)
        <4>1. CASE j \in 1..Len(log)
          <5>1. log[i].type = "ColonySpawned" /\ log[j].colony = log[i].colony
            BY <1>5, <2>2, <3>2, <4>1
          <5> QED
            BY <1>1, <3>2, <4>1, <5>1 DEF LogInv
        <4>2. CASE j = n
          BY <1>5, <3>2, <4>2
        <4> QED
          BY <1>6, <4>1, <4>2
      <3> QED
        BY <1>6, <3>1, <3>2
    <2> QED
      BY <1>5, <2>1, <2>2 DEF LogInv
  <1>11. TaskInv'
    BY <1>1, <1>2, <1>3, <1>4, <1>5, <1>6, <1>8 DEF TaskInv, TaskOK, IsVerdict
  <1>12. ClientInv'
    <2>1. ASSUME NEW j \in Client, j # k PROVE CallOK(j)'
      <3>1. CASE op[j] = "idle"
        BY <1>1, <1>2, <1>3, <1>5, <2>1, <3>1 DEF ClientInv, CallOK
      <3>2. CASE op[j] # "idle"
        <4>1. target[j] \in Colony
          BY <1>1, <3>2 DEF BaseInv, CallInv
        <4> QED
          BY <1>1, <1>2, <1>3, <1>5, <1>8, <2>1, <4>1 DEF ClientInv, CallOK
      <3> QED
        BY <3>1, <3>2
    <2>2. CallOK(k)'
      BY <1>2, <1>5, <1>7, <1>8, <1>9 DEF CallOK, t
    <2> QED
      BY <2>1, <2>2 DEF ClientInv
  <1>13. StatusInv'
    <2>1. \A i \in applied : log'[i] = log[i]
      BY <1>5
    <2>2. ASSUME NEW d \in Colony, mode # "replaying", NEW i \in 1..n, IsVerdict(i, d)'
          PROVE  status'[d] \in Settled \/ (phase'[d] = "append" /\ seq'[d] = i)
      <3>1. i \in 1..Len(log) /\ IsVerdict(i, d)
        BY <1>4, <1>5, <1>6, <2>2 DEF IsVerdict
      <3>2. status[d] \in Settled \/ (phase[d] = "append" /\ seq[d] = i)
        BY <1>1, <2>2, <3>1 DEF StatusInv
      <3> QED
        BY <1>3, <1>5, <1>8, <3>2
    <2>3. ASSUME NEW d \in Colony
          PROVE  /\ status'[d] # "absent" <=> \E i \in applied : IsSpawn(i, d)'
                 /\ status'[d] \in Settled <=> \E i \in applied : IsTerminal(i, d)'
      BY <1>1, <1>8, <2>1 DEF StatusInv, IsSpawn, IsTerminal
    <2>4. ASSUME NEW d \in Colony, mode # "replaying"
          PROVE  \A i \in 1..Len(log') : IsVerdict(i, d)' =>
                    status'[d] \in Settled \/ (phase'[d] = "append" /\ seq'[d] = i)
      BY <1>5, <2>2, <2>4
    <2>5. applied' = applied /\ mode' = mode
      BY <1>2
    <2> QED
      BY <2>3, <2>4, <2>5 DEF StatusInv
  <1>14. Once'
    BY <1>1, <1>4, <1>5, <1>6 DEF Once, IsVerdict
  <1> QED
    BY <1>10, <1>11, <1>12, <1>13, <1>14

(* What applying a row does to the statuses.                                *)
LEMMA StatusMove ==
    ASSUME TypeOK, NEW i \in 1..Len(log), Apply(log[i])
    PROVE  /\ \A d \in Colony : d # log[i].colony => status'[d] = status[d]
           /\ \A d \in Colony : IsSpawn(i, d) => status'[d] = "running"
           /\ \A d \in Colony : ~IsSpawn(i, d) /\ status[d] = "absent"
                               => status'[d] = "absent"
           /\ \A d \in Colony : IsTerminal(i, d) /\ status[d] # "absent"
                               => status'[d] \in Settled
           /\ \A d \in Colony : ~IsTerminal(i, d) /\ ~IsSpawn(i, d)
                               => status'[d] = status[d]
  <1>1. /\ log[i].colony \in Colony /\ log[i].type \in EventType
        /\ status \in [Colony -> Status]
        /\ status' = [status EXCEPT ![log[i].colony] = StatusAfter(log[i].type, @)]
    BY ApplyFacts DEF TypeOK
  <1> DEFINE c == log[i].colony
             t == log[i].type
  <1>2. t \in {"ColonySpawned", "ColonyCompleted", "ColonyFailed", "ColonyKilled",
               "ColonyServiceActivated", "RoundStarted", "RoundCompleted",
               "ColonyChatMessage", "ColonyEscalated"}
    BY <1>1 DEF EventType, Terminal, Verdict
  <1>3. /\ \A d \in Colony : d # c => status'[d] = status[d]
        /\ status'[c] = StatusAfter(t, status[c])
    BY <1>1
  <1> HIDE DEF c, t
  <1>4. t = "ColonySpawned" => status'[c] = "running"
    BY <1>3 DEF StatusAfter, StatusOf
  <1>5. t # "ColonySpawned" /\ status[c] = "absent" => status'[c] = "absent"
    BY <1>3 DEF StatusAfter
  <1>6. t \in Terminal /\ status[c] # "absent" => status'[c] \in Settled
    BY <1>3 DEF StatusAfter, StatusOf, Terminal, Verdict, Settled
  <1>7. t \notin Terminal /\ t # "ColonySpawned" => status'[c] = status[c]
    BY <1>2, <1>3 DEF StatusAfter, StatusOf, Terminal, Verdict
  <1> QED
    BY <1>3, <1>4, <1>5, <1>6, <1>7 DEF IsSpawn, IsTerminal, c, t

(* Steps that leave the log, the rows applied, the statuses and the mode    *)
(* alone, and put nothing in flight.                                        *)
LEMMA QuietIInv ==
    ASSUME IInv, log' = log, applied' = applied, status' = status, mode' = mode,
           \A a \in Actor : \/ phase'[a] = phase[a] /\ seq'[a] = seq[a]
                            \/ phase[a] # "append" /\ phase'[a] # "append"
    PROVE  LogInv' /\ StatusInv' /\ Once'
  <1>1. LogInv /\ StatusInv /\ Once
    BY DEF IInv
  <1> QED
    BY <1>1, Actors DEF LogInv, StatusInv, Once, IsSpawn, IsTerminal, IsVerdict

LEMMA DeliverIInv ==
    ASSUME IInv, NEW a \in Actor, Deliver(a)
    PROVE  LogInv' /\ TaskInv' /\ ClientInv' /\ StatusInv' /\ Once'
  <1>1. BaseInv /\ LogInv /\ TaskInv /\ ClientInv /\ StatusInv /\ Once
    BY DEF IInv
  <1> DEFINE i == seq[a]
             row == log[seq[a]]
  <1>2. i \in 1..Len(log) /\ TypeOK /\ applied \subseteq 1..Len(log)
    BY <1>1 DEF Deliver, BaseInv, StoreInv, TypeOK
  <1>3. /\ UNCHANGED <<log, mode, active, pc, op, target, seq>>
        /\ applied' = applied \cup {i} /\ phase[a] = "append"
        /\ phase'[a] \in {"returned", "fanout"}
        /\ \A b \in Actor : b # a => phase'[b] = phase[b]
        /\ mode # "replaying"
    BY <1>1, <1>2 DEF Deliver, BaseInv, ReplayInv, storeVars, taskVars, clientVars, TypeOK
  <1>4. /\ row.colony \in Colony /\ row.type \in EventType
        /\ \A d \in Colony : d # row.colony => status'[d] = status[d]
        /\ \A d \in Colony : IsSpawn(i, d) => status'[d] = "running"
        /\ \A d \in Colony : ~IsSpawn(i, d) /\ status[d] = "absent" => status'[d] = "absent"
        /\ \A d \in Colony : IsTerminal(i, d) /\ status[d] # "absent" => status'[d] \in Settled
        /\ \A d \in Colony : ~IsTerminal(i, d) /\ ~IsSpawn(i, d) => status'[d] = status[d]
    BY <1>2, ApplyFacts, StatusMove DEF Deliver
  (* A spawn is delivered to an absent colony, anything else to a present   *)
  (* one.                                                                   *)
  <1>5. IF row.type = "ColonySpawned" THEN status[row.colony] = "absent"
                                      ELSE status[row.colony] # "absent"
    <2>1. CASE a \in Colony
      BY <1>1, <1>3, <2>1 DEF TaskInv, TaskOK, TaskEvent, Emitting
    <2>2. CASE a \in Client
      BY <1>1, <1>3, <2>2 DEF ClientInv, CallOK, CommandEvent
    <2> QED
      BY <2>1, <2>2, Actors
  <1>6. \A d \in Colony : status[d] # "absent" => status'[d] # "absent"
    BY <1>4, <1>5 DEF IsSpawn, IsTerminal, Settled
  <1>7. \A d \in Colony : status[d] \in Settled => status'[d] \in Settled
    BY <1>4, <1>5 DEF IsSpawn, IsTerminal, Settled
  <1> HIDE DEF i, row
  <1>8. LogInv' /\ Once'
    BY <1>1, <1>3 DEF LogInv, Once, IsSpawn, IsVerdict
  <1>9. TaskInv'
    <2> SUFFICES ASSUME NEW d \in Colony PROVE TaskOK(d)'
      BY DEF TaskInv
    <2>1. TaskOK(d) /\ d \in Actor
      BY <1>1, Actors DEF TaskInv
    <2> QED
      BY <1>3, <1>6, <2>1 DEF TaskOK, IsVerdict
  <1>10. ClientInv'
    <2> SUFFICES ASSUME NEW k \in Client PROVE CallOK(k)'
      BY DEF ClientInv
    <2>1. CallOK(k) /\ k \in Actor /\ (op[k] # "idle" => target[k] \in Colony)
      BY <1>1, Actors DEF ClientInv, BaseInv, CallInv
    <2>2. CASE k = a
      <3>1. op[k] # "idle" /\ target[k] \in Colony
        BY <1>3, <2>1, <2>2 DEF CallOK
      <3>2. op[k] = "kill" => IsTerminal(i, target[k]) /\ status[target[k]] # "absent"
        BY <1>3, <2>1, <2>2 DEF CallOK, IsTerminal, CommandEvent, Terminal, i
      <3> QED
        BY <1>3, <1>4, <1>6, <2>1, <2>2, <3>1, <3>2 DEF CallOK
    <2>3. CASE k # a
      <3>1. ASSUME op[k] = "spawn", phase[k] = "append"
            PROVE  ~IsSpawn(i, target[k])
        <4>1. SUFFICES ASSUME IsSpawn(i, target[k]) PROVE FALSE
          OBVIOUS
        <4>2. seq[k] \in 1..Len(log) /\ IsSpawn(seq[k], target[k])
          BY <1>1, <2>1, <3>1 DEF CallOK, BaseInv, StoreInv, IsSpawn, CommandEvent
        <4>3. seq[k] = seq[a]
          BY <1>1, <1>2, <4>1, <4>2 DEF LogInv, IsSpawn, i
        <4> QED
          BY <1>1, <1>3, <2>1, <2>3, <3>1, <4>3 DEF BaseInv, StoreInv
      <3> QED
        BY <1>3, <1>4, <1>6, <1>7, <2>1, <2>3, <3>1 DEF CallOK
    <2> QED
      BY <2>2, <2>3
  <1>11. StatusInv'
    <2> SUFFICES ASSUME NEW d \in Colony
                 PROVE  /\ status'[d] # "absent" <=> \E j \in applied' : IsSpawn(j, d)'
                        /\ status'[d] \in Settled <=> \E j \in applied' : IsTerminal(j, d)'
                        /\ \A j \in 1..Len(log) : IsVerdict(j, d) =>
                             \/ status'[d] \in Settled
                             \/ phase'[d] = "append" /\ seq'[d] = j
      BY <1>3 DEF StatusInv, IsVerdict
    <2>1. \A j : /\ IsSpawn(j, d)' <=> IsSpawn(j, d)
                 /\ IsTerminal(j, d)' <=> IsTerminal(j, d)
      BY <1>3 DEF IsSpawn, IsTerminal
    <2>2. /\ status[d] # "absent" <=> \E j \in applied : IsSpawn(j, d)
          /\ status[d] \in Settled <=> \E j \in applied : IsTerminal(j, d)
          /\ \A j \in 1..Len(log) : IsVerdict(j, d) =>
                \/ status[d] \in Settled
                \/ phase[d] = "append" /\ seq[d] = j
      BY <1>1, <1>3 DEF StatusInv
    <2>3. CASE IsSpawn(i, d)
      <3>1. status[d] = "absent" /\ status'[d] = "running" /\ ~IsTerminal(i, d)
        BY <1>4, <1>5, <2>3 DEF IsSpawn, IsTerminal, Terminal, Verdict, i, row
      <3>2. d # a /\ d \in Actor
        BY <1>1, <1>3, <2>3, Actors DEF IsSpawn, TaskInv, TaskOK, TaskEvent, i
      <3> QED
        BY <1>3, <2>1, <2>2, <2>3, <3>1, <3>2 DEF Settled
    <2>4. CASE IsTerminal(i, d)
      <3>1. status[d] # "absent" /\ status'[d] \in Settled /\ ~IsSpawn(i, d)
        BY <1>4, <1>5, <2>4 DEF IsSpawn, IsTerminal, Terminal, Verdict, i, row
      <3> QED
        BY <1>3, <1>6, <2>1, <2>2, <2>4, <3>1
    <2>5. CASE ~IsSpawn(i, d) /\ ~IsTerminal(i, d)
      <3>1. status'[d] = status[d]
        BY <1>4, <2>5
      <3>2. d = a => ~IsVerdict(i, d)
        BY <2>5 DEF IsVerdict, IsTerminal, Terminal
      <3> QED
        BY <1>3, <2>1, <2>2, <2>5, <3>1, <3>2, Actors DEF i
    <2> QED
      BY <2>3, <2>4, <2>5
  <1> QED
    BY <1>8, <1>9, <1>10, <1>11

LEMMA IInit == Init => IInv
  <1> SUFFICES ASSUME Init PROVE IInv
    OBVIOUS
  <1>1. BaseInv
    BY BaseInit
  <1>2. LogInv /\ Once
    BY DEF Init, LogInv, Once
  <1>3. TaskInv
    BY Actors DEF Init, TaskInv, TaskOK, PreVerdict
  <1>4. ClientInv
    BY Actors DEF Init, ClientInv, CallOK
  <1>5. StatusInv
    BY DEF Init, StatusInv, Settled
  <1> QED
    BY <1>1, <1>2, <1>3, <1>4, <1>5 DEF IInv

LEMMA IStep == IInv /\ [Next]_vars => IInv'
  <1> SUFFICES ASSUME IInv, [Next]_vars
               PROVE  LogInv' /\ TaskInv' /\ ClientInv' /\ StatusInv' /\ Once'
    BY BaseStep DEF IInv
  <1>0. BaseInv /\ TypeOK /\ LogInv /\ TaskInv /\ ClientInv /\ StatusInv /\ Once
    BY DEF IInv, BaseInv
  <1> DEFINE Goal == LogInv' /\ TaskInv' /\ ClientInv' /\ StatusInv' /\ Once'
  <1>1. ASSUME NEW c \in Colony, TaskStep(c), ~TaskDone(c) PROVE Goal
    BY <1>0, <1>1, TaskMoves, TaskMoveIInv
  <1>2. ASSUME NEW k \in Client, NEW c \in Colony, Command(k, c) PROVE Goal
    BY <1>0, <1>2, CommandMoves, CommandMoveIInv
  <1>3. ASSUME NEW a \in Actor, Deliver(a) PROVE Goal
    BY <1>3, DeliverIInv
  <1>4. ASSUME NEW c \in Colony, TaskDone(c) PROVE Goal
    <2>1. UNCHANGED <<log, applied, status, mode, phase, seq, op, target>>
      BY <1>4 DEF TaskDone, storeVars, projVars, clientVars, emitVars
    <2>2. /\ pc[c] = "done" /\ pc'[c] = "idle" /\ active' = active \ {c}
          /\ \A d \in Colony : d # c => pc'[d] = pc[d]
      BY <1>0, <1>4 DEF TaskDone, TypeOK
    <2>3. LogInv' /\ StatusInv' /\ Once'
      BY <2>1, QuietIInv
    <2>4. TaskInv'
      BY <1>0, <2>1, <2>2, Actors DEF TaskInv, TaskOK, IsVerdict, Emitting, PreVerdict
    <2>5. ClientInv'
      BY <1>0, <2>1 DEF ClientInv, CallOK
    <2> QED
      BY <2>3, <2>4, <2>5
  <1>5. ASSUME NEW c \in Colony, StartColony(c) PROVE Goal
    <2>1. /\ UNCHANGED <<log, applied, status, mode, phase, seq, op, target>>
          /\ mode # "replaying"
      BY <1>5 DEF StartColony, storeVars, projVars, clientVars, emitVars
    <2>2. LogInv' /\ StatusInv' /\ Once'
      BY <2>1, QuietIInv
    <2>3. ClientInv'
      BY <1>0, <2>1 DEF ClientInv, CallOK
    <2>4. CASE UNCHANGED <<pc, active>>
      BY <1>0, <2>1, <2>2, <2>3, <2>4 DEF TaskInv, TaskOK, IsVerdict
    <2>5. CASE ~UNCHANGED <<pc, active>>
      <3>1. /\ status[c] = "running" /\ c \notin active /\ active' = active \cup {c}
            /\ pc'[c] = "ready" /\ \A d \in Colony : d # c => pc'[d] = pc[d]
        BY <1>0, <1>5, <2>5 DEF StartColony, TypeOK
      <3>2. phase[c] = "none"
        BY <1>0, <3>1 DEF TaskInv, TaskOK, Emitting
      (* Its verdict, had it one, would be in flight or applied.            *)
      <3>3. \A i \in 1..Len(log) : ~IsVerdict(i, c)
        BY <1>0, <2>1, <3>1, <3>2 DEF StatusInv, Settled
      <3>4. TaskInv'
        <4> SUFFICES ASSUME NEW d \in Colony PROVE TaskOK(d)'
          BY DEF TaskInv
        <4>1. CASE d = c
          BY <2>1, <3>1, <3>2, <3>3, <4>1 DEF TaskOK, IsVerdict
        <4>2. CASE d # c
          BY <1>0, <2>1, <3>1, <4>2 DEF TaskInv, TaskOK, IsVerdict
        <4> QED
          BY <4>1, <4>2
      <3> QED
        BY <2>2, <2>3, <3>4
    <2> QED
      BY <2>4, <2>5
  <1>6. ASSUME NEW k \in Client, Spawned(k) \/ Answered(k) PROVE Goal
    <2>1. k \in Actor /\ k \notin Colony /\ phase[k] \in {"returned", "raised"}
      BY <1>6, Actors, ConstantsAssumption DEF Spawned, Answered
    <2>2. /\ UNCHANGED <<log, applied, status, mode, pc, active>>
          /\ \A a \in Actor : a # k => phase'[a] = phase[a] /\ seq'[a] = seq[a]
          /\ phase'[k] = "none" /\ op'[k] = "idle"
          /\ \A j \in Client : j # k => op'[j] = op[j] /\ target'[j] = target[j]
      BY <1>0, <1>6, <2>1
         DEF Spawned, Answered, EndEmit, Finished, storeVars, projVars, TypeOK
    <2>3. LogInv' /\ StatusInv' /\ Once'
      BY <2>1, <2>2, QuietIInv
    <2>4. TaskInv'
      BY <1>0, <2>1, <2>2, Actors DEF TaskInv, TaskOK, IsVerdict
    <2>5. ClientInv'
      BY <1>0, <2>1, <2>2, Actors DEF ClientInv, CallOK
    <2> QED
      BY <2>3, <2>4, <2>5
  <1>7. ASSUME NEW k \in Client, Killed(k) PROVE Goal
    <2> DEFINE c == target[k]
               ended == {k} \cup ({c} \cap active)
    <2>1. /\ k \in Actor /\ k \notin Colony /\ phase[k] = "returned" /\ c \in Colony
          /\ \A j \in Client : j \in Actor /\ (j \in ended => j = k)
          /\ \A d \in Colony : d \in Actor /\ (d \in ended <=> d = c /\ c \in active)
          /\ status[c] \in Settled
      <3>1. op[k] = "kill" /\ phase[k] = "returned"
        BY <1>7 DEF Killed
      <3>2. c \in Colony /\ status[c] \in Settled
        BY <1>0, <3>1 DEF BaseInv, CallInv, ClientInv, CallOK
      <3> QED
        BY <3>1, <3>2, Actors, ConstantsAssumption
    <2>2. /\ UNCHANGED <<log, applied, status, mode>> /\ active' = active \ {c}
          /\ pc' = IF c \in active THEN [pc EXCEPT ![c] = "done"] ELSE pc
          /\ \A a \in Actor : a \in ended => phase'[a] = "none"
          /\ \A a \in Actor : a \notin ended => phase'[a] = phase[a] /\ seq'[a] = seq[a]
          /\ op'[k] = "idle"
          /\ \A j \in Client : j # k => op'[j] = op[j] /\ target'[j] = target[j]
      BY <1>0, <1>7 DEF Killed, Finished, storeVars, projVars, TypeOK
    <2>3. /\ \A d \in Colony : d # c => pc'[d] = pc[d]
          /\ c \in active => pc'[c] = "done" /\ pc[c] \in PC
          /\ c \notin active => pc'[c] = pc[c]
      BY <1>0, <2>1, <2>2 DEF TypeOK
    <2> HIDE DEF c, ended
    <2>4. LogInv' /\ Once'
      BY <1>0, <2>2 DEF LogInv, Once, IsSpawn, IsVerdict
    <2>5. StatusInv'
      BY <1>0, <2>1, <2>2 DEF StatusInv, IsSpawn, IsTerminal, IsVerdict
    <2>6. TaskInv'
      <3> SUFFICES ASSUME NEW d \in Colony PROVE TaskOK(d)'
        BY DEF TaskInv
      <3>1. TaskOK(d)
        BY <1>0 DEF TaskInv
      <3>2. CASE d = c /\ c \in active
        BY <2>1, <2>2, <2>3, <3>1, <3>2 DEF TaskOK, Settled, PreVerdict
      <3>3. CASE ~(d = c /\ c \in active)
        BY <2>1, <2>2, <2>3, <3>1, <3>3 DEF TaskOK, IsVerdict
      <3> QED
        BY <3>2, <3>3
    <2>7. ClientInv'
      <3> SUFFICES ASSUME NEW j \in Client PROVE CallOK(j)'
        BY DEF ClientInv
      <3>1. CallOK(j)
        BY <1>0 DEF ClientInv
      <3>2. CASE j = k
        <4>1. k \in ended
          BY DEF ended
        <4> QED
          BY <2>1, <2>2, <3>2, <4>1 DEF CallOK
      <3>3. CASE j # k
        BY <2>1, <2>2, <3>1, <3>3 DEF CallOK
      <3> QED
        BY <3>2, <3>3
    <2> QED
      BY <2>4, <2>5, <2>6, <2>7
  <1>8. ASSUME NEW a \in Actor, FanOut(a) PROVE Goal
    <2>1. /\ UNCHANGED <<log, applied, status, mode, pc, active, op, target, seq>>
          /\ \A b \in Actor : b # a => phase'[b] = phase[b]
          /\ phase[a] = "fanout" /\ phase'[a] \in {"returned", "raised"}
      BY <1>0, <1>8 DEF FanOut, storeVars, projVars, taskVars, clientVars, TypeOK
    <2>2. LogInv' /\ StatusInv' /\ Once'
      BY <2>1, QuietIInv
    <2>3. TaskInv' /\ ClientInv'
      BY <1>0, <2>1, Actors DEF TaskInv, TaskOK, ClientInv, CallOK, IsVerdict
    <2> QED
      BY <2>2, <2>3
  <1>9. CASE Commit \/ Subscribe \/ Unsubscribe \/ UNCHANGED vars
    <2>1. UNCHANGED <<log, applied, status, mode, pc, active, op, target, phase, seq>>
      BY <1>9 DEF Commit, Subscribe, Unsubscribe, vars, storeVars, projVars, taskVars,
                  clientVars, emitVars
    <2>2. LogInv' /\ StatusInv' /\ Once'
      BY <2>1, QuietIInv
    <2>3. TaskInv' /\ ClientInv'
      BY <1>0, <2>1 DEF TaskInv, TaskOK, ClientInv, CallOK, IsVerdict
    <2> QED
      BY <2>2, <2>3
  <1>10. CASE Crash
    <2>1. /\ Len(log') = durable /\ durable \in Nat /\ durable <= Len(log)
          /\ \A i \in 1..durable : log'[i] = log[i] /\ i \in 1..Len(log)
      BY <1>0, <1>10, Truncate, LenProperties DEF TypeOK
    <2>2. LogInv'
      <3>1. ASSUME NEW i \in 1..durable
            PROVE  (\E j \in 1..i : IsSpawn(j, log[i].colony))'
        <4>1. PICK j \in 1..i : IsSpawn(j, log[i].colony)
          BY <1>0, <2>1 DEF LogInv
        <4> QED
          BY <2>1, <4>1 DEF IsSpawn
      <3>2. ASSUME NEW i \in 1..durable, log'[i].type = "ColonySpawned",
                   NEW j \in 1..durable, log'[j].colony = log'[i].colony
            PROVE  i <= j
        BY <1>0, <2>1, <3>2 DEF LogInv
      <3> QED
        BY <2>1, <3>1, <3>2 DEF LogInv
    <2>3. Once'
      BY <1>0, <2>1 DEF Once, IsVerdict
    <2>4. TaskInv'
      BY <1>10, Actors DEF Crash, TaskInv, TaskOK, PreVerdict
    <2>5. ClientInv'
      BY <1>10, Actors DEF Crash, ClientInv, CallOK
    <2>6. StatusInv'
      BY <1>10 DEF Crash, StatusInv, Settled
    <2> QED
      BY <2>2, <2>3, <2>4, <2>5, <2>6
  <1>11. CASE Replay
    <2> PICK i \in 1..Len(log) : /\ applied = 1..(i - 1)
                                 /\ Apply(log[i])
                                 /\ applied' = 1..i
      BY <1>11 DEF Replay
    <2>1. /\ UNCHANGED <<log, mode, pc, active, op, target, phase, seq>>
          /\ mode = "replaying"
          /\ \A a \in Actor : phase[a] = "none"
          /\ \A c \in Colony : pc[c] = "idle"
          /\ \A k \in Client : op[k] = "idle"
          /\ applied' = applied \cup {i} /\ i \notin applied
      BY <1>0, <1>11 DEF Replay, storeVars, taskVars, clientVars, emitVars,
                         BaseInv, ReplayInv
    <2>2. LogInv' /\ Once'
      BY <1>0, <2>1 DEF LogInv, Once, IsSpawn, IsVerdict
    <2>3. TaskInv' /\ ClientInv'
      BY <2>1, Actors DEF TaskInv, TaskOK, ClientInv, CallOK, PreVerdict
    <2>4. StatusInv'
      <3> SUFFICES ASSUME NEW d \in Colony
                   PROVE  /\ status'[d] # "absent" <=> \E j \in applied' : IsSpawn(j, d)'
                          /\ status'[d] \in Settled <=> \E j \in applied' : IsTerminal(j, d)'
        BY <2>1 DEF StatusInv
      <3>1. \A j : /\ IsSpawn(j, d)' <=> IsSpawn(j, d)
                   /\ IsTerminal(j, d)' <=> IsTerminal(j, d)
        BY <2>1 DEF IsSpawn, IsTerminal
      <3>2. /\ status[d] # "absent" <=> \E j \in applied : IsSpawn(j, d)
            /\ status[d] \in Settled <=> \E j \in applied : IsTerminal(j, d)
        BY <1>0 DEF StatusInv
      (* Every earlier row is applied: the first of a colony is its spawn.  *)
      <3>3. IsSpawn(i, d) => ~ \E j \in applied : IsTerminal(j, d)
        <4> SUFFICES ASSUME IsSpawn(i, d), NEW j \in applied, IsTerminal(j, d)
                     PROVE  FALSE
          OBVIOUS
        <4>1. i \in 1..Len(log) /\ j \in 1..Len(log)
          BY <1>0 DEF TypeOK
        <4>2. i <= j
          BY <1>0, <4>1 DEF LogInv, IsSpawn, IsTerminal
        <4> QED
          BY <1>0, <4>1, <4>2
      <3>4. IsTerminal(i, d) => status[d] # "absent"
        <4> SUFFICES ASSUME IsTerminal(i, d) PROVE \E j \in applied : IsSpawn(j, d)
          BY <3>2
        <4>1. PICK j \in 1..i : IsSpawn(j, d)
          BY <1>0 DEF LogInv, IsTerminal
        <4>2. j # i
          BY <4>1 DEF IsSpawn, IsTerminal, Terminal, Verdict
        <4> QED
          BY <4>1, <4>2
      <3>5. ~(IsSpawn(i, d) /\ IsTerminal(i, d))
        BY DEF IsSpawn, IsTerminal, Terminal, Verdict
      <3>6. /\ IsSpawn(i, d) => status'[d] = "running"
            /\ IsTerminal(i, d) => status'[d] \in Settled
            /\ ~IsTerminal(i, d) /\ ~IsSpawn(i, d) => status'[d] = status[d]
        BY <1>0, <3>4, StatusMove
      <3> QED
        BY <2>1, <3>1, <3>2, <3>3, <3>4, <3>5, <3>6 DEF Settled
    <2> QED
      BY <2>2, <2>3, <2>4
  <1>12. CASE Rehydrate \/ Serve
    <2>1. /\ UNCHANGED <<log, applied, status, pc, active, op, target, phase, seq>>
          /\ mode = "replaying" => applied = 1..Len(log)
          /\ mode' # "replaying"
      BY <1>12 DEF Rehydrate, Serve, storeVars, projVars, taskVars, clientVars, emitVars
    <2>2. LogInv' /\ Once'
      BY <1>0, <2>1 DEF LogInv, Once, IsSpawn, IsVerdict
    <2>3. TaskInv' /\ ClientInv'
      BY <1>0, <2>1 DEF TaskInv, TaskOK, ClientInv, CallOK, IsVerdict
    <2>4. StatusInv'
      BY <1>0, <2>1 DEF StatusInv, IsSpawn, IsTerminal, IsVerdict, Terminal
    <2> QED
      BY <2>2, <2>3, <2>4
  <1> QED
    BY <1>1, <1>2, <1>3, <1>4, <1>5, <1>6, <1>7, <1>8, <1>9, <1>10, <1>11, <1>12
       DEF Next, TaskStep, ClientStep, EmitStep, Restart

LEMMA InvariantCorrect == Spec => []IInv
  BY IInit, IStep, PTL DEF Spec

(* At most one verdict of a colony is ever in the log, for any number of    *)
(* colonies, commands and crashes.                                          *)
THEOREM OneVerdict == Spec => []VerdictOnce
  <1>1. IInv => VerdictOnce
    BY DEF IInv, Once, IsVerdict, VerdictOnce, VerdictRows, Rows
  <1> QED
    BY <1>1, InvariantCorrect, PTL

-----------------------------------------------------------------------------
(* What is settled stays settled: the row that settled a colony is          *)
(* committed, so a crash keeps it and the replay applies it.                *)

(* Committed rows stay, and stay applied unless the server crashes; when a  *)
(* replay ends all of them are.                                             *)
LEMMA StoreStep ==
    ASSUME BaseInv, [Next]_vars, NEW i \in 1..durable
    PROVE  /\ i \in 1..durable' /\ log'[i] = log[i]
           /\ mode' # "replaying" /\ (mode # "replaying" => i \in applied)
              => i \in applied'
  <1> DEFINE Goal == /\ i \in 1..durable' /\ log'[i] = log[i]
                     /\ mode' # "replaying" /\ (mode # "replaying" => i \in applied)
                        => i \in applied'
  <1> USE DEF BaseInv
  <1>0. i \in 1..Len(log) /\ durable \in Nat /\ Len(log) \in Nat /\ durable <= Len(log)
    BY LenProperties DEF TypeOK
  <1>1. ASSUME UNCHANGED <<log, durable, applied, mode>>, mode # "replaying" PROVE Goal
    BY <1>1
  <1>2. ASSUME NEW a \in Actor, NEW t \in EventType, NEW c \in Colony,
               NEW r \in 0..MaxRounds, Emit(a, t, c, r), applied' = applied,
               mode' = mode, mode # "replaying"
        PROVE  Goal
    BY <1>0, <1>2, EmitFacts
  <1>3. ASSUME NEW c \in Colony, TaskStep(c), ~TaskDone(c) PROVE Goal
    <2>1. TaskMove(c)
      BY <1>3, TaskMoves
    <2>2. c \in Actor /\ mode # "replaying" /\ mode' = mode /\ applied' = applied
      BY <2>1, Actors DEF TaskMove, ReplayInv, LoopFrame
    <2>3. TaskEvent(pc'[c]) \in EventType
      BY DEF TaskEvent, EventType, Terminal, Verdict
    <2>4. CASE \E r \in 0..MaxRounds : Emit(c, TaskEvent(pc'[c]), c, r)
      BY <1>2, <2>2, <2>3, <2>4
    <2>5. CASE NoEmit \/ EndEmit(c)
      BY <1>1, <2>2, <2>5 DEF NoEmit, EndEmit, storeVars
    <2> QED
      BY <2>1, <2>4, <2>5 DEF TaskMove
  <1>4. ASSUME NEW k \in Client, NEW c \in Colony, Command(k, c) PROVE Goal
    <2>1. CommandMove(k, c)
      BY <1>4, CommandMoves
    <2>2. /\ k \in Actor /\ 0 \in 0..MaxRounds /\ mode # "replaying" /\ mode' = mode
          /\ applied' = applied /\ Emit(k, CommandEvent(op'[k]), c, 0)
      BY <2>1, Actors, ConstantsAssumption DEF CommandMove
    <2>3. CommandEvent(op'[k]) \in EventType
      BY DEF CommandEvent, EventType, Terminal, Verdict
    <2> QED
      BY <1>2, <2>2, <2>3
  <1>5. ASSUME NEW c \in Colony, TaskDone(c) \/ StartColony(c) PROVE Goal
    BY <1>5 DEF TaskDone, StartColony, storeVars
  <1>6. ASSUME NEW k \in Client, ClientStep(k) PROVE Goal
    BY <1>1, <1>6, Actors
       DEF ClientStep, Spawned, Killed, Answered, Finished, EndEmit, storeVars, ReplayInv
  <1>7. ASSUME NEW a \in Actor, EmitStep(a) PROVE Goal
    BY <1>7 DEF EmitStep, Deliver, FanOut, storeVars
  <1>8. CASE Commit
    BY <1>0, <1>8 DEF Commit
  <1>9. CASE Subscribe \/ Unsubscribe \/ Serve
    BY <1>9 DEF Subscribe, Unsubscribe, Serve, storeVars
  <1>10. CASE Crash
    <2>1. log'[i] = log[i]
      BY <1>10, Truncate
    <2> QED
      BY <1>10, <2>1 DEF Crash
  <1>11. CASE Replay
    BY <1>11 DEF Replay, storeVars
  <1>12. CASE Rehydrate
    BY <1>0, <1>12 DEF Rehydrate, storeVars
  <1>13. CASE UNCHANGED vars
    BY <1>13 DEF vars, storeVars
  <1> QED
    BY <1>3, <1>4, <1>5, <1>6, <1>7, <1>8, <1>9, <1>10, <1>11, <1>12, <1>13
       DEF Next, TaskStep, Restart

Kept(c) == \E i \in 1..durable : /\ IsTerminal(i, c)
                                 /\ mode # "replaying" => i \in applied

(* A colony that was once shown as settled is served as settled ever after, *)
(* whatever crashes: the property the operator's view of a colony rests on. *)
THEOREM SettledStays == Spec => SettledForGood
  <1> SUFFICES ASSUME NEW c \in Colony
               PROVE  Spec => [](status[c] \in Settled
                                 => [](mode = "serving" => status[c] \in Settled))
    BY DEF SettledForGood
  <1>1. IInv /\ status[c] \in Settled => Kept(c)
    <2> SUFFICES ASSUME IInv, status[c] \in Settled PROVE Kept(c)
      OBVIOUS
    <2>1. PICK i \in applied : IsTerminal(i, c)
      BY DEF IInv, StatusInv
    <2>2. i \in 1..durable
      BY DEF IInv, BaseInv, StoreInv
    <2> QED
      BY <2>1, <2>2 DEF Kept
  <1>2. IInv /\ Kept(c) /\ [Next]_vars => Kept(c)'
    <2> SUFFICES ASSUME IInv, Kept(c), [Next]_vars PROVE Kept(c)'
      OBVIOUS
    <2>1. PICK i \in 1..durable : /\ IsTerminal(i, c)
                                  /\ mode # "replaying" => i \in applied
      BY DEF Kept
    <2>2. /\ i \in 1..durable' /\ log'[i] = log[i]
          /\ mode' # "replaying" => i \in applied'
      BY <2>1, StoreStep DEF IInv
    <2> QED
      BY <2>1, <2>2 DEF Kept, IsTerminal
  <1>3. IInv /\ Kept(c) => (mode = "serving" => status[c] \in Settled)
    BY DEF IInv, StatusInv, Kept
  <1> QED
    BY <1>1, <1>2, <1>3, InvariantCorrect, PTL DEF Spec

-----------------------------------------------------------------------------
(* Rounds.  RoundInv is what makes RoundsConsecutive inductive: a task that *)
(* may run another round has seen every RoundStarted row of its colony, so  *)
(* its counter and the projection's are how many there are.                 *)

Started(c) == Rows("RoundStarted", c)
Upto(c, i) == {j \in Started(c) : j <= i}
Counting   == PreVerdict \ {"ready"}

(* A colony's task is started once in the life of a process.                *)
StartInv ==
    /\ \A c \in active : pc[c] # "idle"
    /\ \A c \in toStart :
          /\ pc[c] = "idle" /\ Started(c) \subseteq applied
          /\ \E i \in 1..Len(log) : log[i].colony = c
    /\ \A k \in Client : op[k] = "spawn" =>
          /\ pc[target[k]] = "idle" /\ target[k] \notin toStart
          /\ Started(target[k]) = {}
          /\ \E i \in 1..Len(log) : log[i].colony = target[k]
    /\ \A j, k \in Client :
          op[j] = "spawn" /\ op[k] = "spawn" /\ target[j] = target[k] => j = k

SeenInv ==
    \A c \in Colony : pc[c] \in PreVerdict =>
        \A i \in Started(c) :
            \/ i \in applied
            \/ pc[c] = "starting" /\ phase[c] = "append" /\ seq[c] = i

CounterInv ==
    \A c \in Colony :
        /\ round[c] = Cardinality(Started(c) \cap applied)
        /\ pc[c] \in Counting =>
              rnd[c] = Cardinality(Started(c)) + (IF pc[c] = "prep" THEN 1 ELSE 0)
        /\ \A i \in Started(c) : log[i].round = Cardinality(Upto(c, i))

RoundInv == StartInv /\ SeenInv /\ CounterInv


(* The rows of a type and a colony, as the log grows and as it is cut.      *)
LEMMA RowsFacts ==
    ASSUME TypeOK, NEW t, NEW c
    PROVE  /\ Rows(t, c) \subseteq 1..Len(log) /\ Len(log) \in Nat
           /\ \A S \in SUBSET Rows(t, c) : IsFiniteSet(S) /\ Cardinality(S) \in Nat
  <1>1. Len(log) \in Nat /\ Rows(t, c) \subseteq 1..Len(log)
    BY LenProperties DEF TypeOK, Rows
  <1>2. IsFiniteSet(1..Len(log))
    BY <1>1, FS_Interval
  <1> QED
    BY <1>1, <1>2, FS_Subset, FS_CardinalityType

LEMMA RowsSame ==
    ASSUME log' = log, NEW t, NEW c
    PROVE  Rows(t, c)' = Rows(t, c)
  BY DEF Rows

LEMMA RowsEmit ==
    ASSUME TypeOK, StoreInv, NEW a \in Actor, NEW t \in EventType,
           NEW d \in Colony, NEW r \in 0..MaxRounds, Emit(a, t, d, r), applied' = applied,
           NEW c, NEW u
    PROVE  /\ u = t /\ c = d => Rows(u, c)' = Rows(u, c) \cup {Len(log) + 1}
           /\ ~(u = t /\ c = d) => Rows(u, c)' = Rows(u, c)
           /\ \A i \in 1..Len(log) : log'[i] = log[i]
           /\ log'[Len(log) + 1].round = r
           /\ Len(log') = Len(log) + 1 /\ Len(log) \in Nat
           /\ applied \subseteq 1..Len(log)
  <1>1. /\ Len(log') = Len(log) + 1
        /\ \A i \in 1..Len(log) : log'[i] = log[i]
        /\ log'[Len(log) + 1] = [type |-> t, colony |-> d, round |-> r]
    BY EmitFacts
  <1>2. Len(log) \in Nat /\ applied \subseteq 1..Len(log)
    BY RowsFacts DEF TypeOK
  <1>3. Rows(u, c)' = {i \in 1..Len(log') : log'[i].type = u /\ log'[i].colony = c}
    BY DEF Rows
  <1>4. \A i : i \in 1..Len(log') <=> i \in 1..Len(log) \/ i = Len(log) + 1
    BY <1>1, <1>2
  <1>5. \A i : i \in Rows(u, c)' <=>
           \/ i \in Rows(u, c)
           \/ i = Len(log) + 1 /\ u = t /\ c = d
    <2>1. \A i \in 1..Len(log) : i \in Rows(u, c)' <=> i \in Rows(u, c)
      BY <1>1, <1>3, <1>4 DEF Rows
    <2>2. Len(log) + 1 \in Rows(u, c)' <=> (u = t /\ c = d)
      BY <1>1, <1>3, <1>4
    <2>3. \A i : i \in Rows(u, c) => i \in 1..Len(log)
      BY DEF Rows
    <2> QED
      BY <1>2, <1>3, <1>4, <2>1, <2>2, <2>3
  <1>6. u = t /\ c = d => Rows(u, c)' = Rows(u, c) \cup {Len(log) + 1}
    BY <1>5
  <1>7. ~(u = t /\ c = d) => Rows(u, c)' = Rows(u, c)
    BY <1>5
  <1> QED
    BY <1>1, <1>2, <1>6, <1>7

LEMMA RowsCrash ==
    ASSUME TypeOK, Crash, NEW t, NEW c
    PROVE  /\ Rows(t, c)' = Rows(t, c) \cap (1..durable)
           /\ \A i \in Rows(t, c)' : log'[i] = log[i]
  <1>1. /\ Len(log') = durable /\ durable \in Nat /\ durable <= Len(log)
        /\ \A i \in 1..durable : log'[i] = log[i]
    BY Truncate
  <1>2. Len(log) \in Nat
    BY RowsFacts
  <1> QED
    BY <1>1, <1>2 DEF Rows

LEMMA RoundInit == Init => RoundInv
  <1> SUFFICES ASSUME Init PROVE RoundInv
    OBVIOUS
  <1>1. /\ \A c : Started(c) = {} /\ Upto(c, 0) = {}
        /\ Cardinality({}) = 0
    BY FS_EmptySet DEF Init, Started, Rows, Upto
  <1> QED
    BY <1>1 DEF Init, RoundInv, StartInv, SeenInv, CounterInv, Counting, PreVerdict

(* How a step of a task counts rounds.                                      *)
RoundMove(c) ==
    /\ \A d \in Colony : d # c => rnd'[d] = rnd[d]
    /\ pc'[c] # "ready" /\ (pc'[c] = "starting" => pc[c] = "prep")
    /\ pc'[c] \in Counting =>
          \/ pc[c] = "ready" /\ pc'[c] = "loop" /\ rnd'[c] = round[c]
          \/ /\ pc[c] = "loop" /\ pc'[c] = "prep" /\ rnd'[c] = rnd[c] + 1
             /\ status[c] = "running"
          \/ /\ pc[c] = "prep" /\ pc'[c] = "starting" /\ rnd'[c] = rnd[c]
             /\ Emit(c, "RoundStarted", c, rnd[c])
          \/ /\ pc[c] \in Counting \ {"prep"} /\ pc'[c] \notin {"prep", "starting"}
             /\ rnd'[c] = rnd[c]

LEMMA RoundMoves ==
    ASSUME TypeOK, NEW c \in Colony, TaskStep(c), ~TaskDone(c)
    PROVE  RoundMove(c)
  <1>0. /\ pc \in [Colony -> PC] /\ rnd \in [Colony -> 0..MaxRounds]
    BY DEF TypeOK
  <1> USE <1>0 DEF RoundMove, Goto, Fail, Counting, PreVerdict
  <1>1. CASE RunColony(c)
    BY <1>1 DEF RunColony, AtPC, LastRound
  <1>2. CASE LoopHead(c)
    BY <1>2 DEF LoopHead, AtPC, MayRun
  <1>3. CASE StartRound(c)
    BY <1>3 DEF StartRound, AtPC
  <1>4. CASE EndRound(c)
    BY <1>4 DEF EndRound, AtPC
  <1>5. CASE Judge(c)
    BY <1>5 DEF Judge, AtPC
  <1>6. CASE Exhaust(c)
    BY <1>6 DEF Exhaust, AtPC
  <1>7. CASE Continue(c)
    BY <1>7 DEF Continue, After
  <1>8. CASE Raise(c)
    BY <1>8 DEF Raise
  <1>9. CASE HooksDone(c)
    BY <1>9 DEF HooksDone, AtPC
  <1> QED
    BY <1>1, <1>2, <1>3, <1>4, <1>5, <1>6, <1>7, <1>8, <1>9 DEF TaskStep

(* What a colony's part of the round invariant says, so that it can be kept *)
(* colony by colony.                                                        *)
SeenOK(c) ==
    pc[c] \in PreVerdict =>
        \A i \in Started(c) :
            \/ i \in applied
            \/ pc[c] = "starting" /\ phase[c] = "append" /\ seq[c] = i

CounterOK(c) ==
    /\ round[c] = Cardinality(Started(c) \cap applied)
    /\ pc[c] \in Counting =>
          rnd[c] = Cardinality(Started(c)) + (IF pc[c] = "prep" THEN 1 ELSE 0)
    /\ \A i \in Started(c) : log[i].round = Cardinality(Upto(c, i))

(* The rows of a colony that a step neither adds to nor removes.            *)
RowsKept(c) ==
    /\ Started(c)' = Started(c)
    /\ \A i \in Started(c) : log'[i] = log[i]

LEMMA CounterKept ==
    ASSUME NEW c \in Colony, CounterOK(c), RowsKept(c), round'[c] = round[c],
           Started(c) \cap applied' = Started(c) \cap applied,
           pc'[c] \in Counting => pc'[c] = pc[c] /\ rnd'[c] = rnd[c]
    PROVE  CounterOK(c)'
  <1>1. \A i : Upto(c, i)' = Upto(c, i)
    BY DEF RowsKept, Upto
  <1> QED
    BY <1>1 DEF CounterOK, RowsKept

LEMMA SeenKept ==
    ASSUME NEW c \in Colony, SeenOK(c), RowsKept(c), applied \subseteq applied',
           pc'[c] \in PreVerdict => pc'[c] = pc[c],
           phase[c] = "append" => phase'[c] = "append" /\ seq'[c] = seq[c]
    PROVE  SeenOK(c)'
  BY DEF SeenOK, RowsKept

LEMMA EmitKeeps ==
    ASSUME TypeOK, StoreInv, NEW a \in Actor, NEW t \in EventType,
           NEW d \in Colony, NEW r \in 0..MaxRounds, Emit(a, t, d, r), applied' = applied,
           NEW c \in Colony, ~(t = "RoundStarted" /\ c = d)
    PROVE  RowsKept(c)
  BY RowsEmit, RowsFacts DEF RowsKept, Started

LEMMA SameKeeps ==
    ASSUME log' = log, NEW c
    PROVE  RowsKept(c)
  BY DEF RowsKept, Started, Rows

(* The parts of the invariant that a round of colony c moves.               *)
LEMMA TaskRounds ==
    ASSUME IInv, RoundInv, NEW c \in Colony, TaskMove(c), RoundMove(c)
    PROVE  SeenOK(c)' /\ CounterOK(c)'
  <1>0. /\ TypeOK /\ StoreInv /\ SeenOK(c) /\ CounterOK(c) /\ c \in Actor
        /\ applied' = applied /\ round' = round /\ phase \in [Actor -> Phase]
        /\ MaxRounds \in Nat
    BY Actors, ConstantsAssumption
       DEF IInv, BaseInv, RoundInv, SeenInv, CounterInv, SeenOK, CounterOK, TaskMove,
           LoopFrame, projVars, TypeOK
  <1>1. CASE pc[c] = "prep" /\ pc'[c] = "starting"
    <2>1. rnd'[c] = rnd[c] /\ Emit(c, "RoundStarted", c, rnd[c])
      BY <1>1 DEF RoundMove, Counting, PreVerdict
    <2>2. rnd[c] = Cardinality(Started(c)) + 1 /\ rnd[c] \in 0..MaxRounds
      BY <1>0, <1>1 DEF CounterOK, Counting, PreVerdict, TypeOK
    <2> DEFINE n == Len(log) + 1
    <2>3. /\ Started(c)' = Started(c) \cup {n}
          /\ \A i \in 1..Len(log) : log'[i] = log[i]
          /\ log'[n].round = rnd[c] /\ Len(log) \in Nat /\ applied \subseteq 1..Len(log)
      <3>1. "RoundStarted" \in EventType
        BY DEF EventType
      <3> QED
        BY <1>0, <2>1, <2>2, <3>1, RowsEmit DEF Started
    <2>4. /\ Started(c) \subseteq 1..Len(log) /\ IsFiniteSet(Started(c))
          /\ Cardinality(Started(c)) \in Nat
      BY <1>0, RowsFacts DEF Started
    <2>5. n \notin Started(c) /\ n \notin applied
      BY <2>3, <2>4
    <2>6. Cardinality(Started(c)') = Cardinality(Started(c)) + 1
      BY <2>3, <2>4, <2>5, FS_AddElement
    <2>7. phase'[c] = "append" /\ seq'[c] = n
      BY <1>0, <2>1 DEF Emit, TypeOK
    <2>8. \A i \in Started(c) : i \in applied
      BY <1>0, <1>1 DEF SeenOK, PreVerdict
    <2>9. SeenOK(c)'
      BY <1>0, <1>1, <2>3, <2>7, <2>8 DEF SeenOK
    <2>10. Started(c)' \cap applied = Started(c) \cap applied
      BY <2>3, <2>5
    <2>11. ASSUME NEW i \in Started(c)'
           PROVE  log'[i].round = Cardinality(Upto(c, i)')
      <3>1. CASE i = n
        <4>1. Upto(c, i)' = Started(c)'
          BY <2>3, <2>4, <3>1 DEF Upto
        <4> QED
          BY <2>2, <2>3, <2>6, <3>1, <4>1
      <3>2. CASE i \in Started(c)
        <4>1. Upto(c, i)' = Upto(c, i)
          BY <2>3, <2>4, <3>2 DEF Upto
        <4> QED
          BY <1>0, <2>3, <2>4, <3>2, <4>1 DEF CounterOK
      <3> QED
        BY <2>3, <3>1, <3>2
    <2>12. round'[c] = Cardinality(Started(c)' \cap applied')
      <3>1. round[c] = Cardinality(Started(c) \cap applied)
        BY <1>0 DEF CounterOK
      <3> QED
        BY <1>0, <2>10, <3>1
    <2>13. rnd'[c] = Cardinality(Started(c)')
      BY <2>1, <2>2, <2>6
    <2> QED
      BY <1>1, <2>4, <2>6, <2>9, <2>11, <2>12, <2>13 DEF CounterOK
  <1>2. CASE ~(pc[c] = "prep" /\ pc'[c] = "starting")
    <2>1. pc'[c] # "starting"
      BY <1>2 DEF RoundMove
    <2>2. RowsKept(c)
      <3>1. CASE \E r \in 0..MaxRounds : Emit(c, TaskEvent(pc'[c]), c, r)
        <4>1. TaskEvent(pc'[c]) \in EventType /\ TaskEvent(pc'[c]) # "RoundStarted"
          BY <2>1 DEF TaskEvent, EventType, Terminal, Verdict
        <4> QED
          BY <1>0, <3>1, <4>1, EmitKeeps
      <3>2. CASE NoEmit \/ EndEmit(c)
        BY <3>2, SameKeeps DEF NoEmit, EndEmit, storeVars
      <3> QED
        BY <3>1, <3>2 DEF TaskMove
    (* Its emission, if there was one, is over.                             *)
    <2>3. phase[c] # "append"
      <3>1. phase[c] # "none" => pc[c] \in Emitting
        BY DEF IInv, TaskInv, TaskOK
      <3> QED
        BY <3>1 DEF TaskMove
    <2>4. pc'[c] \in PreVerdict => pc[c] \in PreVerdict /\ \A i \in Started(c) : i \in applied
      BY <1>0, <2>3 DEF SeenOK, TaskMove
    <2>5. SeenOK(c)'
      BY <1>0, <2>2, <2>4 DEF SeenOK, RowsKept
    <2>6. pc'[c] \in Counting =>
             rnd'[c] = Cardinality(Started(c)) + (IF pc'[c] = "prep" THEN 1 ELSE 0)
      <3>1. SUFFICES ASSUME pc'[c] \in Counting
                     PROVE  rnd'[c] = Cardinality(Started(c)) + (IF pc'[c] = "prep" THEN 1 ELSE 0)
        OBVIOUS
      <3>2. Cardinality(Started(c)) \in Nat
        BY <1>0, RowsFacts DEF Started
      <3>3. CASE pc[c] = "ready" /\ pc'[c] = "loop" /\ rnd'[c] = round[c]
        <4>1. Started(c) \cap applied = Started(c)
          BY <2>4, <3>1 DEF Counting
        <4>2. round[c] = Cardinality(Started(c) \cap applied)
          BY <1>0 DEF CounterOK
        <4>3. round[c] = Cardinality(Started(c))
          BY <4>1, <4>2
        <4> QED
          BY <3>2, <3>3, <4>3
      <3>4. CASE pc[c] = "loop" /\ pc'[c] = "prep" /\ rnd'[c] = rnd[c] + 1
        BY <1>0, <3>2, <3>4 DEF CounterOK, Counting, PreVerdict
      <3>5. CASE /\ pc[c] \in Counting \ {"prep"} /\ pc'[c] \notin {"prep", "starting"}
                 /\ rnd'[c] = rnd[c]
        BY <1>0, <3>2, <3>5 DEF CounterOK
      <3> QED
        BY <1>2, <3>1, <3>3, <3>4, <3>5 DEF RoundMove
    <2>7. \A i : Upto(c, i)' = Upto(c, i)
      BY <2>2 DEF RowsKept, Upto
    <2> QED
      BY <1>0, <2>2, <2>5, <2>6, <2>7 DEF CounterOK, RowsKept
  <1> QED
    BY <1>1, <1>2

(* Steps that leave the log and what the loops count alone.                 *)
LEMMA QuietRounds ==
    ASSUME RoundInv, UNCHANGED <<log, round, applied>>,
           \A c \in Colony :
              /\ pc'[c] \in PreVerdict => pc'[c] = pc[c] /\ rnd'[c] = rnd[c]
              /\ pc'[c] \in PreVerdict /\ phase[c] = "append"
                 => phase'[c] = "append" /\ seq'[c] = seq[c]
    PROVE  SeenInv' /\ CounterInv'
  <1> SUFFICES ASSUME NEW c \in Colony
               PROVE  SeenOK(c)' /\ CounterOK(c)'
    BY DEF SeenInv, CounterInv, SeenOK, CounterOK
  <1>1. SeenOK(c) /\ CounterOK(c) /\ RowsKept(c)
    BY SameKeeps DEF RoundInv, SeenInv, CounterInv, SeenOK, CounterOK
  <1>2. CounterOK(c)'
    BY <1>1, CounterKept DEF Counting
  <1>3. SeenOK(c)'
    BY <1>1 DEF SeenOK, RowsKept
  <1> QED
    BY <1>2, <1>3

LEMMA QuietStart ==
    ASSUME StartInv, UNCHANGED <<log, op, target, toStart>>, applied \subseteq applied',
           active' \subseteq active,
           \A c \in Colony : pc'[c] = "idle" <=> pc[c] = "idle",
           TypeOK, CallInv
    PROVE  StartInv'
  <1>1. \A c : Started(c)' = Started(c)
    BY RowsSame DEF Started
  <1>2. active \subseteq Colony /\ toStart \subseteq Colony
    BY DEF TypeOK
  <1>3. \A k \in Client : op[k] = "spawn" => target[k] \in Colony
    BY DEF CallInv
  <1> QED
    BY <1>1, <1>2, <1>3 DEF StartInv

(* A task never starts a colony, and never runs one that waits to start.    *)
LEMMA TaskStart ==
    ASSUME IInv, RoundInv, NEW c \in Colony, TaskMove(c)
    PROVE  StartInv'
  <1>0. /\ TypeOK /\ StoreInv /\ CallInv /\ StartInv /\ TaskOK(c) /\ c \in Actor
        /\ UNCHANGED <<applied, op, target, toStart, active>>
    BY Actors DEF IInv, BaseInv, RoundInv, TaskInv, TaskMove, LoopFrame, clientVars
  <1>1. pc[c] # "idle" /\ pc'[c] # "idle"
    BY <1>0 DEF TaskMove, TaskOK, Emitting
  <1>2. \A d \in Colony : pc'[d] = "idle" <=> pc[d] = "idle"
    BY <1>1 DEF TaskMove
  <1>3. CASE NoEmit \/ EndEmit(c)
    BY <1>0, <1>2, <1>3, QuietStart DEF NoEmit, EndEmit, storeVars
  <1>4. CASE \E r \in 0..MaxRounds : Emit(c, TaskEvent(pc'[c]), c, r)
    <2>1. TaskEvent(pc'[c]) \in EventType
      BY DEF TaskEvent, EventType, Terminal, Verdict
    <2>2. /\ \A d : d # c => Started(d)' = Started(d)
          /\ Len(log') = Len(log) + 1 /\ Len(log) \in Nat
          /\ \A i \in 1..Len(log) : log'[i] = log[i]
      BY <1>0, <1>4, <2>1, RowsEmit DEF Started
    <2>3. \A i \in 1..Len(log) : i \in 1..Len(log') /\ log'[i] = log[i]
      BY <2>2
    <2>4. \A k \in Client : op[k] = "spawn" => target[k] # c /\ target[k] \in Colony
      BY <1>0, <1>1 DEF StartInv, CallInv
    <2>5. active \subseteq Colony /\ toStart \subseteq Colony \ {c}
      BY <1>0, <1>1 DEF TypeOK, StartInv
    <2>6. \A d \in active' : pc'[d] # "idle"
      BY <1>0, <1>2, <2>5 DEF StartInv
    <2>7. \A d \in toStart' : /\ pc'[d] = "idle" /\ Started(d)' \subseteq applied'
                              /\ \E i \in 1..Len(log') : log'[i].colony = d
      <3> SUFFICES ASSUME NEW d \in toStart
                   PROVE  /\ pc'[d] = "idle" /\ Started(d)' \subseteq applied'
                          /\ \E i \in 1..Len(log') : log'[i].colony = d
        BY <1>0
      <3>1. d \in Colony /\ d # c /\ pc[d] = "idle" /\ Started(d) \subseteq applied
        BY <1>0, <2>5 DEF StartInv, TypeOK
      <3>2. PICK i \in 1..Len(log) : log[i].colony = d
        BY <1>0 DEF StartInv
      <3>3. i \in 1..Len(log') /\ log'[i].colony = d
        BY <2>3, <3>2
      <3>4. pc'[d] = "idle" /\ Started(d)' \subseteq applied'
        BY <1>0, <1>2, <2>2, <3>1
      <3> QED
        BY <3>3, <3>4
    <2>8. \A k \in Client : op'[k] = "spawn" =>
             /\ pc'[target'[k]] = "idle" /\ target'[k] \notin toStart'
             /\ Started(target[k])' = {}
             /\ \E i \in 1..Len(log') : log'[i].colony = target'[k]
      <3> SUFFICES ASSUME NEW k \in Client, op[k] = "spawn"
                   PROVE  /\ pc'[target[k]] = "idle" /\ target[k] \notin toStart
                          /\ Started(target[k])' = {}
                          /\ \E i \in 1..Len(log') : log'[i].colony = target[k]
        BY <1>0
      <3>1. /\ target[k] # c /\ target[k] \in Colony
            /\ pc[target[k]] = "idle" /\ target[k] \notin toStart
            /\ Started(target[k]) = {}
        BY <1>0, <2>4 DEF StartInv
      <3>2. PICK i \in 1..Len(log) : log[i].colony = target[k]
        BY <1>0 DEF StartInv
      <3>3. i \in 1..Len(log') /\ log'[i].colony = target[k]
        BY <2>3, <3>2
      <3>4. Started(target[k])' = {}
        <4>1. target'[k] = target[k]
          BY <1>0
        <4> QED
          BY <2>2, <3>1, <4>1 DEF Started
      <3> QED
        BY <1>2, <3>1, <3>3, <3>4
    <2> QED
      BY <1>0, <2>6, <2>7, <2>8 DEF StartInv
  <1> QED
    BY <1>3, <1>4 DEF TaskMove

LEMMA CommandRounds ==
    ASSUME IInv, RoundInv, NEW k \in Client, NEW c \in Colony, CommandMove(k, c)
    PROVE  RoundInv'
  <1>0. /\ TypeOK /\ StoreInv /\ CallInv /\ StartInv /\ TaskOK(c)
        /\ k \in Actor /\ k \notin Colony /\ 0 \in 0..MaxRounds
        /\ UNCHANGED <<applied, round, toStart, active, pc, rnd>>
    BY Actors, ConstantsAssumption
       DEF IInv, BaseInv, RoundInv, TaskInv, CommandMove, taskVars
  <1>1. Emit(k, CommandEvent(op'[k]), c, 0)
    BY DEF CommandMove
  <1>2. CommandEvent(op'[k]) \in EventType /\ CommandEvent(op'[k]) # "RoundStarted"
    BY DEF CommandEvent, EventType, Terminal, Verdict
  <1>3. \A d \in Colony : RowsKept(d)
    BY <1>0, <1>1, <1>2, EmitKeeps
  <1>4. \A d \in Colony : d \in Actor /\ phase'[d] = phase[d] /\ seq'[d] = seq[d]
    BY <1>0, <1>1, Actors DEF Emit, TypeOK
  <1>5. SeenInv' /\ CounterInv'
    <2> SUFFICES ASSUME NEW d \in Colony
                 PROVE  SeenOK(d)' /\ CounterOK(d)'
      BY DEF SeenInv, CounterInv, SeenOK, CounterOK
    <2>1. SeenOK(d) /\ CounterOK(d)
      BY DEF RoundInv, SeenInv, CounterInv, SeenOK, CounterOK
    <2> QED
      BY <1>0, <1>3, <1>4, <2>1, SeenKept, CounterKept
  <1>6. /\ \A i \in 1..Len(log) : i \in 1..Len(log') /\ log'[i] = log[i]
        /\ Len(log) + 1 \in 1..Len(log') /\ log'[Len(log) + 1].colony = c
    <2>1. /\ Len(log') = Len(log) + 1 /\ \A i \in 1..Len(log) : log'[i] = log[i]
          /\ log'[Len(log) + 1] = [type |-> CommandEvent(op'[k]), colony |-> c, round |-> 0]
      BY <1>0, <1>1, <1>2, EmitFacts
    <2>2. Len(log) \in Nat
      BY <1>0, RowsFacts
    <2> QED
      BY <2>1, <2>2
  <1>7. \A d \in Colony : Started(d)' = Started(d)
    BY <1>3 DEF RowsKept
  <1>8. op'[k] = "spawn" =>
           /\ \A i \in 1..Len(log) : log[i].colony # c
           /\ pc[c] = "idle" /\ c \notin toStart /\ Started(c) = {}
    <2> SUFFICES ASSUME op'[k] = "spawn"
                 PROVE  /\ \A i \in 1..Len(log) : log[i].colony # c
                        /\ pc[c] = "idle" /\ c \notin toStart /\ Started(c) = {}
      OBVIOUS
    <2>1. \A i \in 1..Len(log) : log[i].colony # c
      BY DEF CommandMove
    <2>2. status[c] = "absent"
      BY <1>0, <2>1 DEF IInv, StatusInv, IsSpawn, TypeOK
    <2> QED
      BY <1>0, <2>1, <2>2 DEF TaskOK, StartInv, Started, Rows
  <1>9. \A j \in Client : j # k => op'[j] = op[j] /\ target'[j] = target[j]
    BY <1>0 DEF CommandMove, TypeOK
  <1>10. target'[k] = c
    BY <1>0 DEF CommandMove, TypeOK
  <1>11. \A j \in Client : op[j] = "spawn" =>
            /\ target[j] \in Colony
            /\ \E i \in 1..Len(log) : log[i].colony = target[j]
    BY <1>0 DEF StartInv, CallInv
  <1>12. StartInv'
    <2>1. \A d \in active' : pc'[d] # "idle"
      BY <1>0 DEF StartInv
    <2>2. \A d \in toStart' : /\ pc'[d] = "idle" /\ Started(d)' \subseteq applied'
                              /\ \E i \in 1..Len(log') : log'[i].colony = d
      <3> SUFFICES ASSUME NEW d \in toStart
                   PROVE  /\ pc'[d] = "idle" /\ Started(d)' \subseteq applied'
                          /\ \E i \in 1..Len(log') : log'[i].colony = d
        BY <1>0
      <3>1. d \in Colony /\ pc[d] = "idle" /\ Started(d) \subseteq applied
        BY <1>0 DEF StartInv, TypeOK
      <3>2. PICK i \in 1..Len(log) : log[i].colony = d
        BY <1>0 DEF StartInv
      <3>3. i \in 1..Len(log') /\ log'[i].colony = d
        BY <1>6, <3>2
      <3> QED
        BY <1>0, <1>7, <3>1, <3>3
    <2>3. ASSUME NEW j \in Client, op'[j] = "spawn"
          PROVE  /\ pc'[target'[j]] = "idle" /\ target'[j] \notin toStart'
                 /\ Started(target[j])' = {}
                 /\ \E i \in 1..Len(log') : log'[i].colony = target'[j]
      <3>1. CASE j = k
        <4>1. target'[j] = c /\ op'[k] = "spawn"
          BY <1>10, <2>3, <3>1
        <4>2. \E i \in 1..Len(log') : log'[i].colony = c
          BY <1>6
        <4>3. pc'[c] = "idle" /\ c \notin toStart'
          BY <1>0, <1>8, <4>1
        <4>4. Started(target[j])' = {}
          <5>1. Started(c)' = {}
            BY <1>7, <1>8, <4>1
          <5>2. Started(target[j])' = Started(c)'
            BY <4>1 DEF Started
          <5> QED
            BY <5>1, <5>2
        <4> QED
          BY <4>1, <4>2, <4>3, <4>4
      <3>2. CASE j # k
        <4>1. op[j] = "spawn" /\ target'[j] = target[j] /\ target[j] \in Colony
          BY <1>9, <1>11, <2>3, <3>2
        <4>2. /\ pc[target[j]] = "idle" /\ target[j] \notin toStart
              /\ Started(target[j]) = {}
          BY <1>0, <4>1 DEF StartInv
        <4>3. Started(target[j])' = {}
          BY <1>7, <4>1, <4>2
        <4>4. \E i \in 1..Len(log') : log'[i].colony = target'[j]
          BY <1>6, <1>11, <4>1
        <4> QED
          BY <1>0, <4>1, <4>2, <4>3, <4>4
      <3> QED
        BY <3>1, <3>2
    <2>4. ASSUME NEW i \in Client, NEW j \in Client, op'[i] = "spawn", op'[j] = "spawn",
                 target'[i] = target'[j]
          PROVE  i = j
      <3>1. \A x \in Client : x # k /\ op'[x] = "spawn" /\ op'[k] = "spawn" => target'[x] # c
        BY <1>8, <1>9, <1>11
      <3> QED
        BY <1>0, <1>9, <1>10, <2>4, <3>1 DEF StartInv
    <2> QED
      BY <2>1, <2>2, <2>3, <2>4 DEF StartInv
  <1> QED
    BY <1>5, <1>12 DEF RoundInv

(* A row is applied: the newest of its colony's, when it starts a round.    *)
LEMMA DeliverRounds ==
    ASSUME IInv, RoundInv, NEW a \in Actor, Deliver(a)
    PROVE  RoundInv'
  <1> DEFINE i == seq[a]
  <1>0. /\ TypeOK /\ StoreInv /\ CallInv /\ StartInv /\ TaskInv /\ ClientInv
        /\ phase[a] = "append" /\ Apply(log[i]) /\ applied' = applied \cup {i}
        /\ UNCHANGED <<log, active, toStart, pc, rnd, op, target, seq>>
        /\ \A b \in Actor : b # a => phase'[b] = phase[b]
        /\ phase \in [Actor -> Phase]
    BY DEF IInv, BaseInv, RoundInv, Deliver, storeVars, taskVars, clientVars, TypeOK
  <1>1. i \in 1..Len(log) /\ \A j \in applied : j < i
    BY <1>0 DEF StoreInv
  <1>2. StartInv'
    <2>1. \A c : Started(c)' = Started(c)
      BY <1>0, RowsSame DEF Started
    <2> QED
      BY <1>0, <2>1 DEF StartInv
  <1>3. log[i].colony \in Colony /\ round \in [Colony -> 0..MaxRounds]
    BY <1>0, <1>1, ApplyFacts DEF TypeOK
  <1>4. \A c \in Colony : round'[c] = IF c = log[i].colony /\ log[i].type = "RoundStarted"
                                      THEN log[i].round ELSE round[c]
    BY <1>0, <1>3 DEF Apply, RoundAfter
  <1> HIDE DEF i
  <1>5. ASSUME NEW c \in Colony
        PROVE  SeenOK(c)' /\ CounterOK(c)'
    <2>1. SeenOK(c) /\ CounterOK(c) /\ RowsKept(c)
      BY <1>0, SameKeeps DEF RoundInv, SeenInv, CounterInv, SeenOK, CounterOK
    <2>2. /\ Started(c) \subseteq 1..Len(log) /\ Len(log) \in Nat
      BY <1>0, RowsFacts DEF Started
    <2>3. i \in Started(c) <=> (c = log[i].colony /\ log[i].type = "RoundStarted")
      BY <1>1 DEF Started, Rows
    <2>4. CASE i \notin Started(c)
      <3>1. Started(c) \cap applied' = Started(c) \cap applied
        BY <1>0, <2>4
      <3>2. round'[c] = round[c]
        BY <1>4, <2>3, <2>4
      <3>3. CounterOK(c)'
        BY <1>0, <2>1, <3>1, <3>2, CounterKept
      <3>4. SeenOK(c)'
        <4>1. phase[c] = "append" /\ seq[c] # i => phase'[c] = "append"
          BY <1>0, Actors DEF i
        <4> QED
          BY <1>0, <2>1, <2>4, <4>1 DEF SeenOK, RowsKept
      <3> QED
        BY <3>3, <3>4
    <2>5. CASE i \in Started(c)
      <3>1. log[i].colony = c /\ log[i].type = "RoundStarted"
        BY <2>3, <2>5
      <3>2. a = c /\ pc[c] = "starting"
        <4>1. a \notin Client
          <5>1. \A o : CommandEvent(o) # "RoundStarted"
            BY DEF CommandEvent
          <5> QED
            BY <1>0, <3>1, <5>1 DEF ClientInv, CallOK, i
        <4>2. a \in Colony
          BY <4>1, Actors
        <4>3. log[i].type = TaskEvent(pc[a]) /\ log[i].colony = a
          BY <1>0, <4>2 DEF TaskInv, TaskOK, i
        <4> QED
          BY <3>1, <4>3 DEF TaskEvent
      <3>3. \A j \in Started(c) : j \in applied \/ j = i
        BY <2>1, <3>2 DEF SeenOK, PreVerdict, i
      <3>4. Started(c) \cap applied' = Started(c)
        BY <1>0, <3>3
      <3>5. Upto(c, i) = Started(c)
        BY <1>1, <2>2, <3>3 DEF Upto
      <3>6. round'[c] = Cardinality(Upto(c, i))
        BY <1>4, <2>1, <2>5, <3>1 DEF CounterOK
      <3>7. round'[c] = Cardinality(Started(c)' \cap applied')
        <4>1. Started(c)' \cap applied' = Started(c)
          BY <2>1, <3>4 DEF RowsKept
        <4> QED
          BY <3>5, <3>6, <4>1
      <3>8. \A j : Upto(c, j)' = Upto(c, j)
        BY <2>1 DEF RowsKept, Upto
      <3>9. CounterOK(c)'
        <4>1. Started(c)' = Started(c) /\ log' = log /\ pc' = pc /\ rnd' = rnd
          BY <1>0, <2>1 DEF RowsKept
        <4>2. \A j \in Started(c) : log[j].round = Cardinality(Upto(c, j))
          BY <2>1 DEF CounterOK
        <4>3. pc[c] \in Counting =>
                rnd[c] = Cardinality(Started(c)) + (IF pc[c] = "prep" THEN 1 ELSE 0)
          BY <2>1 DEF CounterOK
        <4> QED
          BY <3>7, <3>8, <4>1, <4>2, <4>3 DEF CounterOK
      <3>10. SeenOK(c)'
        BY <1>0, <2>1, <3>3 DEF SeenOK, RowsKept
      <3> QED
        BY <3>9, <3>10
    <2> QED
      BY <2>4, <2>5
  <1> QED
    BY <1>2, <1>5 DEF RoundInv, SeenInv, CounterInv, SeenOK, CounterOK

LEMMA CrashRounds ==
    ASSUME IInv, RoundInv, Crash
    PROVE  RoundInv'
  <1>0. /\ TypeOK /\ applied' = {} /\ active' = {} /\ toStart' = {}
        /\ \A c \in Colony : pc'[c] = "idle" /\ round'[c] = 0
        /\ \A k \in Client : op'[k] = "idle"
    BY DEF IInv, BaseInv, Crash
  <1>1. StartInv'
    BY <1>0 DEF StartInv
  <1>2. SeenInv'
    BY <1>0 DEF SeenInv, PreVerdict
  <1>3. CounterInv'
    <2> SUFFICES ASSUME NEW c \in Colony
                 PROVE  CounterOK(c)'
      BY DEF CounterInv, CounterOK
    <2>1. /\ Started(c)' = Started(c) \cap (1..durable)
          /\ \A i \in Started(c)' : log'[i] = log[i]
      BY <1>0, RowsCrash DEF Started
    <2>2. durable \in Nat /\ Started(c) \subseteq 1..Len(log) /\ Len(log) \in Nat
      BY <1>0, RowsFacts DEF TypeOK, Started
    <2>3. ASSUME NEW i \in Started(c)'
          PROVE  log'[i].round = Cardinality(Upto(c, i)')
      <3>1. Upto(c, i)' = Upto(c, i)
        BY <2>1, <2>2 DEF Upto
      <3>2. i \in Started(c) /\ log'[i] = log[i]
        BY <2>1
      <3> QED
        BY <3>1, <3>2 DEF RoundInv, CounterInv
    <2>4. Started(c)' \cap applied' = {} /\ Cardinality({}) = 0
      BY <1>0, FS_EmptySet
    <2>5. round'[c] = Cardinality(Started(c)' \cap applied')
      BY <1>0, <2>4
    <2> QED
      BY <1>0, <2>3, <2>5 DEF CounterOK, Counting, PreVerdict
  <1> QED
    BY <1>1, <1>2, <1>3 DEF RoundInv

LEMMA ReplayRounds ==
    ASSUME IInv, RoundInv, Replay
    PROVE  RoundInv'
  <1> PICK i \in 1..Len(log) : /\ applied = 1..(i - 1)
                               /\ Apply(log[i])
                               /\ applied' = 1..i
    BY DEF Replay
  <1>0. /\ TypeOK /\ CallInv /\ StartInv /\ Len(log) \in Nat
        /\ UNCHANGED <<log, active, toStart, pc, rnd, op, target, phase, seq>>
        /\ \A c \in Colony : pc[c] = "idle"
        /\ applied \subseteq applied'
    BY RowsFacts DEF IInv, BaseInv, ReplayInv, RoundInv, Replay, storeVars, taskVars,
                     clientVars, emitVars
  <1>1. StartInv'
    BY <1>0, QuietStart
  <1>2. SeenInv'
    BY <1>0 DEF SeenInv, PreVerdict
  <1>3. log[i].colony \in Colony /\ round \in [Colony -> 0..MaxRounds]
    BY <1>0, ApplyFacts DEF TypeOK
  <1>4. \A c \in Colony : round'[c] = IF c = log[i].colony /\ log[i].type = "RoundStarted"
                                      THEN log[i].round ELSE round[c]
    BY <1>3 DEF Apply, RoundAfter
  <1>5. ASSUME NEW c \in Colony
        PROVE  CounterOK(c)'
    <2>1. CounterOK(c) /\ RowsKept(c)
      BY <1>0, SameKeeps DEF RoundInv, CounterInv, CounterOK
    <2>2. i \in Started(c) <=> (c = log[i].colony /\ log[i].type = "RoundStarted")
      BY DEF Started, Rows
    <2>3. pc'[c] \notin Counting
      BY <1>0 DEF Counting, PreVerdict
    <2>4. CASE i \notin Started(c)
      <3>1. Started(c) \cap applied' = Started(c) \cap applied
        BY <2>4
      <3>2. round'[c] = round[c]
        BY <1>4, <2>2, <2>4
      <3> QED
        BY <2>1, <2>3, <3>1, <3>2, CounterKept
    <2>5. CASE i \in Started(c)
      <3>1. round'[c] = Cardinality(Upto(c, i))
        BY <1>4, <2>1, <2>2, <2>5 DEF CounterOK
      <3>2. Started(c) \subseteq 1..Len(log)
        BY <1>0, RowsFacts DEF Started
      <3>3. Started(c)' \cap applied' = Upto(c, i)
        BY <1>0, <2>1, <3>2 DEF Upto, RowsKept
      <3>4. round'[c] = Cardinality(Started(c)' \cap applied')
        BY <3>1, <3>3
      <3>5. \A j : Upto(c, j)' = Upto(c, j)
        BY <2>1 DEF RowsKept, Upto
      <3>6. \A j \in Started(c) : log'[j].round = Cardinality(Upto(c, j))
        BY <1>0, <2>1 DEF CounterOK
      <3> QED
        BY <2>1, <2>3, <3>4, <3>5, <3>6 DEF CounterOK, RowsKept
    <2> QED
      BY <2>4, <2>5
  <1>6. CounterInv'
    BY <1>5 DEF CounterInv, CounterOK
  <1> QED
    BY <1>1, <1>2, <1>6 DEF RoundInv

LEMMA RoundStep == IInv /\ RoundInv /\ [Next]_vars => RoundInv'
  <1> SUFFICES ASSUME IInv, RoundInv, [Next]_vars PROVE RoundInv'
    OBVIOUS
  <1>0. /\ TypeOK /\ StoreInv /\ CallInv /\ TaskInv /\ StartInv /\ SeenInv /\ CounterInv
        /\ Len(log) \in Nat
    BY RowsFacts DEF IInv, BaseInv, RoundInv
  <1>1. ASSUME NEW c \in Colony, TaskStep(c), ~TaskDone(c) PROVE RoundInv'
    <2>1. TaskMove(c) /\ RoundMove(c)
      BY <1>0, <1>1, TaskMoves, RoundMoves
    <2>2. \A d \in Colony : SeenOK(d)' /\ CounterOK(d)'
      <3> SUFFICES ASSUME NEW d \in Colony, d # c
                   PROVE  SeenOK(d)' /\ CounterOK(d)'
        BY <2>1, TaskRounds
      <3>1. SeenOK(d) /\ CounterOK(d) /\ d \in Actor /\ c \in Actor
        BY <1>0, Actors DEF SeenInv, CounterInv, SeenOK, CounterOK
      <3>2. /\ applied' = applied /\ round' = round /\ pc'[d] = pc[d] /\ rnd'[d] = rnd[d]
        BY <2>1 DEF TaskMove, RoundMove, LoopFrame, projVars
      <3>3. CASE \E r \in 0..MaxRounds : Emit(c, TaskEvent(pc'[c]), c, r)
        <4>1. TaskEvent(pc'[c]) \in EventType
          BY DEF TaskEvent, EventType, Terminal, Verdict
        <4>2. RowsKept(d)
          BY <1>0, <3>1, <3>2, <3>3, <4>1, EmitKeeps
        <4>3. phase'[d] = phase[d] /\ seq'[d] = seq[d]
          BY <1>0, <3>1, <3>3 DEF Emit, TypeOK
        <4> QED
          BY <3>1, <3>2, <4>2, <4>3, SeenKept, CounterKept
      <3>4. CASE NoEmit \/ EndEmit(c)
        <4>1. RowsKept(d)
          BY <3>4, SameKeeps DEF NoEmit, EndEmit, storeVars
        <4>2. phase'[d] = phase[d] /\ seq'[d] = seq[d]
          BY <1>0, <3>1, <3>4 DEF NoEmit, EndEmit, emitVars, TypeOK
        <4> QED
          BY <3>1, <3>2, <4>1, <4>2, SeenKept, CounterKept
      <3> QED
        BY <2>1, <3>3, <3>4 DEF TaskMove
    <2>3. StartInv'
      BY <2>1, TaskStart
    <2> QED
      BY <2>2, <2>3 DEF RoundInv, SeenInv, CounterInv, SeenOK, CounterOK
  <1>2. ASSUME NEW k \in Client, NEW c \in Colony, Command(k, c) PROVE RoundInv'
    BY <1>0, <1>2, CommandMoves, CommandRounds
  <1>3. ASSUME NEW c \in Colony, TaskDone(c) PROVE RoundInv'
    <2>1. /\ UNCHANGED <<log, round, applied, op, target, toStart, phase, seq>>
          /\ active' = active \ {c} /\ pc[c] = "done" /\ pc'[c] = "idle"
          /\ \A d \in Colony : d # c => pc'[d] = pc[d] /\ rnd'[d] = rnd[d]
      BY <1>0, <1>3 DEF TaskDone, storeVars, projVars, clientVars, emitVars, TypeOK
    <2>2. SeenInv' /\ CounterInv'
      BY <2>1, QuietRounds DEF PreVerdict
    <2>3. StartInv'
      <3>1. \A d : Started(d)' = Started(d)
        BY <2>1, RowsSame DEF Started
      <3>2. c \notin toStart /\ \A k \in Client : op[k] = "spawn" => target[k] # c
        BY <1>0, <2>1 DEF StartInv
      <3>3. /\ active \subseteq Colony /\ toStart \subseteq Colony
            /\ \A k \in Client : op[k] = "spawn" => target[k] \in Colony
        BY <1>0 DEF TypeOK, CallInv
      <3>4. \A d \in active' : pc'[d] # "idle"
        BY <1>0, <2>1, <3>3 DEF StartInv
      <3>5. \A d \in toStart' : /\ pc'[d] = "idle" /\ Started(d)' \subseteq applied'
                                /\ \E i \in 1..Len(log') : log'[i].colony = d
        BY <1>0, <2>1, <3>1, <3>2, <3>3 DEF StartInv
      <3>6. ASSUME NEW k \in Client, op[k] = "spawn"
            PROVE  /\ pc'[target[k]] = "idle" /\ target[k] \notin toStart
                   /\ Started(target[k]) = {}
                   /\ \E i \in 1..Len(log) : log[i].colony = target[k]
        BY <1>0, <2>1, <3>2, <3>3, <3>6 DEF StartInv
      <3>7. \A i, j \in Client : op[i] = "spawn" /\ op[j] = "spawn" /\ target[i] = target[j]
                                    => i = j
        BY <1>0 DEF StartInv
      <3> QED
        BY <2>1, <3>1, <3>4, <3>5, <3>6, <3>7 DEF StartInv
    <2> QED
      BY <2>2, <2>3 DEF RoundInv
  <1>4. ASSUME NEW c \in Colony, StartColony(c) PROVE RoundInv'
    <2>1. /\ UNCHANGED <<log, round, applied, op, target, rnd, phase, seq>>
          /\ c \in toStart /\ toStart' = toStart \ {c}
          /\ \A d \in Colony : d # c => pc'[d] = pc[d]
          /\ \/ pc'[c] = "ready" /\ active' = active \cup {c}
             \/ pc'[c] = pc[c] /\ active' = active
      BY <1>0, <1>4 DEF StartColony, storeVars, projVars, clientVars, emitVars, TypeOK
    <2>2. pc[c] = "idle" /\ Started(c) \subseteq applied
      BY <1>0, <2>1 DEF StartInv
    <2>3. \A d : Started(d)' = Started(d) /\ RowsKept(d)
      BY <2>1, RowsSame, SameKeeps DEF Started
    <2>4. \A d \in Colony : SeenOK(d)' /\ CounterOK(d)'
      <3> SUFFICES ASSUME NEW d \in Colony
                   PROVE  SeenOK(d)' /\ CounterOK(d)'
        OBVIOUS
      <3>1. SeenOK(d) /\ CounterOK(d)
        BY <1>0 DEF SeenInv, CounterInv, SeenOK, CounterOK
      <3>2. CounterOK(d)'
        BY <2>1, <2>2, <2>3, <3>1, CounterKept DEF Counting, PreVerdict
      <3>3. SeenOK(d)'
        <4>1. CASE d = c
          BY <2>1, <2>2, <2>3, <4>1 DEF SeenOK
        <4>2. CASE d # c
          BY <2>1, <2>3, <3>1, <4>2, SeenKept
        <4> QED
          BY <4>1, <4>2
      <3> QED
        BY <3>2, <3>3
    <2>5. StartInv'
      <3>1. \A k \in Client : op[k] = "spawn" => target[k] # c /\ target[k] \in Colony
        BY <1>0, <2>1 DEF StartInv, CallInv
      <3>2. active \subseteq Colony /\ toStart \subseteq Colony /\ c \in Colony
        BY <1>0 DEF TypeOK
      <3>3. \A d \in active' : pc'[d] # "idle"
        BY <1>0, <2>1, <3>2 DEF StartInv
      <3>4. \A d \in toStart' : /\ pc'[d] = "idle" /\ Started(d)' \subseteq applied'
                                /\ \E i \in 1..Len(log') : log'[i].colony = d
        BY <1>0, <2>1, <2>3, <3>2 DEF StartInv
      <3>5. ASSUME NEW k \in Client, op'[k] = "spawn"
            PROVE  /\ pc'[target'[k]] = "idle" /\ target'[k] \notin toStart'
                   /\ Started(target[k])' = {}
                   /\ \E i \in 1..Len(log') : log'[i].colony = target'[k]
        <4>1. /\ op[k] = "spawn" /\ target'[k] = target[k] /\ target[k] \in Colony
              /\ target[k] # c
          BY <2>1, <3>1, <3>5
        <4>2. /\ pc[target[k]] = "idle" /\ target[k] \notin toStart
              /\ Started(target[k]) = {}
              /\ \E i \in 1..Len(log) : log[i].colony = target[k]
          BY <1>0, <4>1 DEF StartInv
        <4> QED
          BY <2>1, <2>3, <4>1, <4>2
      <3>6. \A i, j \in Client : op'[i] = "spawn" /\ op'[j] = "spawn" /\ target'[i] = target'[j]
                                    => i = j
        BY <1>0, <2>1 DEF StartInv
      <3> QED
        BY <3>3, <3>4, <3>5, <3>6 DEF StartInv
    <2> QED
      BY <2>4, <2>5 DEF RoundInv, SeenInv, CounterInv, SeenOK, CounterOK
  <1>5. ASSUME NEW k \in Client, Spawned(k) \/ Answered(k) PROVE RoundInv'
    <2>1. k \in Actor /\ k \notin Colony /\ \A d \in Colony : d \in Actor /\ d # k
      BY Actors, ConstantsAssumption
    <2>2. /\ UNCHANGED <<log, round, applied, active, pc, rnd>>
          /\ \A a \in Actor : a # k => phase'[a] = phase[a] /\ seq'[a] = seq[a]
          /\ op'[k] = "idle"
          /\ \A j \in Client : j # k => op'[j] = op[j] /\ target'[j] = target[j]
          /\ \/ op[k] = "spawn" /\ toStart' = toStart \cup {target[k]}
             \/ toStart' = toStart
      BY <1>0, <1>5, <2>1 DEF Spawned, Answered, EndEmit, Finished, storeVars, projVars, TypeOK
    <2>3. SeenInv' /\ CounterInv'
      BY <2>1, <2>2, QuietRounds
    <2>4. StartInv'
      <3>1. \A d : Started(d)' = Started(d)
        BY <2>2, RowsSame DEF Started
      <3>2. ASSUME NEW d \in toStart'
            PROVE  /\ pc[d] = "idle" /\ Started(d) \subseteq applied
                   /\ \E i \in 1..Len(log) : log[i].colony = d
                   /\ \A j \in Client : op'[j] = "spawn" => target'[j] # d
        <4>0. \A j \in Client : op'[j] = "spawn" =>
                 j # k /\ op[j] = "spawn" /\ target'[j] = target[j]
          BY <2>2
        <4>1. CASE d \in toStart
          BY <1>0, <4>0, <4>1 DEF StartInv
        <4>2. CASE d \notin toStart
          <5>1. op[k] = "spawn" /\ d = target[k]
            BY <2>2, <3>2, <4>2
          <5>2. /\ pc[d] = "idle" /\ Started(d) = {}
                /\ \E i \in 1..Len(log) : log[i].colony = d
            BY <1>0, <5>1 DEF StartInv
          <5>3. \A j \in Client : op'[j] = "spawn" => target'[j] # d
            BY <1>0, <4>0, <5>1 DEF StartInv
          <5> QED
            BY <5>2, <5>3
        <4> QED
          BY <4>1, <4>2
      <3>3. ASSUME NEW j \in Client, op'[j] = "spawn"
            PROVE  /\ op[j] = "spawn" /\ target'[j] = target[j]
                   /\ pc[target[j]] = "idle" /\ Started(target[j]) = {}
                   /\ \E i \in 1..Len(log) : log[i].colony = target[j]
                   /\ target[j] \notin toStart'
        BY <1>0, <2>2, <3>2, <3>3 DEF StartInv
      <3>4. \A d \in active : pc[d] # "idle"
        BY <1>0 DEF StartInv
      <3>5. \A i, j \in Client : op'[i] = "spawn" /\ op'[j] = "spawn" /\ target'[i] = target'[j]
                                    => i = j
        BY <1>0, <3>3 DEF StartInv
      <3>6. /\ \A d \in toStart' : /\ pc'[d] = "idle" /\ Started(d)' \subseteq applied'
                                   /\ \E i \in 1..Len(log') : log'[i].colony = d
        BY <2>2, <3>1, <3>2
      <3>7. \A j \in Client : op'[j] = "spawn" =>
                /\ pc'[target'[j]] = "idle" /\ target'[j] \notin toStart'
                /\ Started(target[j])' = {}
                /\ \E i \in 1..Len(log') : log'[i].colony = target'[j]
        BY <2>2, <3>1, <3>3
      <3>8. \A d \in active' : pc'[d] # "idle"
        BY <2>2, <3>4
      <3> QED
        BY <3>5, <3>6, <3>7, <3>8 DEF StartInv
    <2> QED
      BY <2>3, <2>4 DEF RoundInv
  <1>6. ASSUME NEW k \in Client, Killed(k) PROVE RoundInv'
    <2> DEFINE c == target[k]
               ended == {k} \cup ({c} \cap active)
    <2>1. /\ c \in Colony /\ k \notin Colony /\ \A d \in Colony : d \in Actor
          /\ \A d \in Colony : d \in ended <=> d = c /\ c \in active
      BY <1>0, <1>6, Actors, ConstantsAssumption DEF Killed, CallInv
    <2>2. /\ UNCHANGED <<log, round, applied, toStart, rnd>>
          /\ active' = active \ {c}
          /\ pc' = IF c \in active THEN [pc EXCEPT ![c] = "done"] ELSE pc
          /\ \A a \in Actor : a \notin ended => phase'[a] = phase[a] /\ seq'[a] = seq[a]
          /\ op'[k] = "idle"
          /\ \A j \in Client : j # k => op'[j] = op[j] /\ target'[j] = target[j]
      BY <1>0, <1>6 DEF Killed, Finished, storeVars, projVars, TypeOK
    <2>3. /\ \A d \in Colony : d # c => pc'[d] = pc[d]
          /\ c \in active => pc'[c] = "done" /\ pc[c] # "idle"
          /\ c \notin active => pc'[c] = pc[c]
      BY <1>0, <2>1, <2>2 DEF TypeOK, StartInv
    <2> HIDE DEF c, ended
    <2>4. \A d \in Colony : pc'[d] = "idle" <=> pc[d] = "idle"
      BY <2>1, <2>3
    <2>5. \A d \in Colony : pc'[d] \in PreVerdict =>
             pc'[d] = pc[d] /\ phase'[d] = phase[d] /\ seq'[d] = seq[d]
      BY <2>1, <2>2, <2>3 DEF PreVerdict
    <2>6. SeenInv' /\ CounterInv'
      BY <2>2, <2>5, QuietRounds
    <2>7. StartInv'
      <3>1. \A d : Started(d)' = Started(d)
        BY <2>2, RowsSame DEF Started
      <3>2. /\ active \subseteq Colony /\ toStart \subseteq Colony
            /\ \A j \in Client : op[j] = "spawn" => target[j] \in Colony
        BY <1>0 DEF TypeOK, CallInv
      <3>3. \A j \in Client : op'[j] = "spawn" => op[j] = "spawn" /\ target'[j] = target[j]
        BY <2>2
      <3>4. \A d \in active' : pc'[d] # "idle"
        BY <1>0, <2>2, <2>4, <3>2 DEF StartInv
      <3>5. \A d \in toStart' : /\ pc'[d] = "idle" /\ Started(d)' \subseteq applied'
                                /\ \E i \in 1..Len(log') : log'[i].colony = d
        BY <1>0, <2>2, <2>4, <3>1, <3>2 DEF StartInv
      <3>6. ASSUME NEW j \in Client, op'[j] = "spawn"
            PROVE  /\ pc'[target'[j]] = "idle" /\ target'[j] \notin toStart'
                   /\ Started(target[j])' = {}
                   /\ \E i \in 1..Len(log') : log'[i].colony = target'[j]
        <4>1. op[j] = "spawn" /\ target'[j] = target[j] /\ target[j] \in Colony
          BY <3>2, <3>3, <3>6
        <4>2. /\ pc[target[j]] = "idle" /\ target[j] \notin toStart
              /\ Started(target[j]) = {}
              /\ \E i \in 1..Len(log) : log[i].colony = target[j]
          BY <1>0, <4>1 DEF StartInv
        <4> QED
          BY <2>2, <2>4, <3>1, <4>1, <4>2
      <3>7. \A i, j \in Client : op'[i] = "spawn" /\ op'[j] = "spawn" /\ target'[i] = target'[j]
                                    => i = j
        BY <1>0, <3>3 DEF StartInv
      <3> QED
        BY <3>4, <3>5, <3>6, <3>7 DEF StartInv
    <2> QED
      BY <2>6, <2>7 DEF RoundInv
  <1>7. ASSUME NEW a \in Actor, FanOut(a) PROVE RoundInv'
    <2>1. /\ UNCHANGED <<log, round, applied, pc, rnd, active, toStart, op, target, seq>>
          /\ \A b \in Actor : phase[b] = "append" => phase'[b] = "append"
      BY <1>0, <1>7 DEF FanOut, storeVars, projVars, taskVars, clientVars, TypeOK
    <2>2. \A c \in Colony : c \in Actor
      BY Actors
    <2> QED
      BY <1>0, <2>1, <2>2, QuietRounds, QuietStart DEF RoundInv
  <1>8. CASE Commit \/ Subscribe \/ Unsubscribe \/ Serve \/ UNCHANGED vars
    <2>1. UNCHANGED <<log, round, applied, pc, rnd, active, toStart, op, target, phase, seq>>
      BY <1>8 DEF Commit, Subscribe, Unsubscribe, Serve, vars, storeVars, projVars, taskVars,
                  clientVars, emitVars
    <2> QED
      BY <1>0, <2>1, QuietRounds, QuietStart DEF RoundInv
  <1>9. CASE Rehydrate
    <2>1. /\ UNCHANGED <<log, round, applied, pc, rnd, active, op, target, phase, seq>>
          /\ mode = "replaying" /\ applied = 1..Len(log)
          /\ toStart' = {c \in Colony : status[c] = "running"}
      BY <1>9 DEF Rehydrate, Rehydratable, storeVars, projVars, taskVars, clientVars, emitVars
    <2>2. SeenInv' /\ CounterInv'
      BY <2>1, QuietRounds
    <2>3. /\ \A c \in Colony : pc[c] = "idle"
          /\ \A k \in Client : op[k] = "idle"
      BY <2>1 DEF IInv, BaseInv, ReplayInv
    <2>4. ASSUME NEW c \in toStart'
          PROVE  c \in Colony /\ \E i \in 1..Len(log) : log[i].colony = c
      <3>1. c \in Colony /\ status[c] # "absent"
        BY <2>1, <2>4
      <3>2. PICK i \in applied : IsSpawn(i, c)
        BY <3>1 DEF IInv, StatusInv
      <3> QED
        BY <2>1, <3>1, <3>2 DEF IsSpawn
    <2>5. StartInv'
      <3>1. \A d : Started(d)' = Started(d) /\ Started(d) \subseteq 1..Len(log)
        BY <1>0, <2>1, RowsSame, RowsFacts DEF Started
      <3> QED
        BY <1>0, <2>1, <2>3, <2>4, <3>1 DEF StartInv
    <2> QED
      BY <2>2, <2>5 DEF RoundInv
  <1> QED
    BY <1>1, <1>2, <1>3, <1>4, <1>5, <1>6, <1>7, <1>8, <1>9, DeliverRounds, CrashRounds,
       ReplayRounds DEF Next, TaskStep, ClientStep, EmitStep, Restart

LEMMA RoundCorrect == Spec => []RoundInv
  BY RoundInit, RoundStep, InvariantCorrect, PTL DEF Spec

(* The RoundStarted rows of a colony are rounds 1, 2, 3, ... for any number *)
(* of rounds, kills and crashes: RunColony resumes where the last loop was. *)
THEOREM RoundsAreConsecutive == Spec => []RoundsConsecutive
  <1>1. RoundInv => RoundsConsecutive
    BY DEF RoundInv, CounterInv, Upto, Started, RoundsConsecutive
  <1> QED
    BY <1>1, RoundCorrect, PTL

-----------------------------------------------------------------------------
(* Kills.  A ColonyKilled row is applied or on its way, for no command is   *)
(* cancelled; the append of a later round waits for it.  So a loop that     *)
(* finds its colony running has no round after a kill.                      *)

Following(c, k) == {i \in Started(c) : i > k}

KillInv ==
    \A c \in Colony : \A k \in Rows("ColonyKilled", c) :
        /\ mode # "replaying" =>
              k \in applied \/ \E j \in Client : phase[j] = "append" /\ seq[j] = k
        /\ pc[c] = "prep" => Following(c, k) = {}
        /\ \A i, j \in Following(c, k) : i = j

(* What a step has to keep for one kill k of colony c.                      *)
KillOK(c, k) ==
    /\ mode # "replaying" =>
          k \in applied \/ \E j \in Client : phase[j] = "append" /\ seq[j] = k
    /\ pc[c] = "prep" => Following(c, k) = {}
    /\ \A i, j \in Following(c, k) : i = j

LEMMA KillInit == Init => KillInv
  BY DEF Init, KillInv, Rows

(* A step that adds no row, lets no command go before its row is applied    *)
(* and brings no loop to a round.                                           *)
LEMMA QuietKills ==
    ASSUME KillInv, log' = log, applied \subseteq applied',
           \A c \in Colony : pc'[c] = "prep" => pc[c] = "prep",
           mode' = mode,
           \A j \in Client : phase[j] = "append" =>
              (phase'[j] = "append" /\ seq'[j] = seq[j]) \/ seq[j] \in applied'
    PROVE  KillInv'
  <1>1. \A t, c : Rows(t, c)' = Rows(t, c)
    BY RowsSame
  <1>2. \A c, k : Following(c, k)' = Following(c, k)
    BY <1>1 DEF Following, Started
  <1> QED
    BY <1>1, <1>2 DEF KillInv

LEMMA KillTask ==
    ASSUME IInv, RoundInv, KillInv, NEW c \in Colony, TaskMove(c), RoundMove(c)
    PROVE  KillInv'
  <1>0. /\ TypeOK /\ StoreInv /\ SeenOK(c) /\ TaskOK(c) /\ c \in Actor
        /\ mode # "replaying" /\ UNCHANGED <<applied, mode>>
        /\ \A d \in Colony : d # c => pc'[d] = pc[d]
    BY Actors DEF IInv, BaseInv, ReplayInv, RoundInv, SeenInv, SeenOK, TaskInv, TaskMove,
                  LoopFrame
  <1>1. \A j \in Client : phase'[j] = phase[j] /\ seq'[j] = seq[j]
    <2>1. \A j \in Client : j \in Actor /\ j # c
      BY Actors, ConstantsAssumption
    <2>2. CASE \E r \in 0..MaxRounds : Emit(c, TaskEvent(pc'[c]), c, r)
      BY <1>0, <2>1, <2>2 DEF Emit, TypeOK
    <2>3. CASE NoEmit \/ EndEmit(c)
      BY <1>0, <2>1, <2>3 DEF NoEmit, EndEmit, emitVars, TypeOK
    <2> QED
      BY <2>2, <2>3 DEF TaskMove
  (* The head of the loop: the colony runs, so no kill is applied, and the  *)
  (* rounds it has seen come before any kill in flight.                     *)
  <1>2. ASSUME pc[c] = "loop", status[c] = "running", NEW k \in Rows("ColonyKilled", c)
        PROVE  Following(c, k) = {}
    <2>1. k \notin applied
      BY <1>2 DEF IInv, StatusInv, IsTerminal, Rows, Terminal, Settled
    <2>2. PICK j \in Client : phase[j] = "append" /\ seq[j] = k
      BY <1>0, <2>1 DEF KillInv
    <2>3. \A i \in applied : i < k
      BY <1>0, <2>2, Actors DEF StoreInv
    <2>4. \A i \in Started(c) : i \in applied
      BY <1>0, <1>2 DEF SeenOK, PreVerdict
    <2>5. k \in 1..Len(log) /\ Started(c) \subseteq 1..Len(log) /\ Len(log) \in Nat
      BY <1>0, RowsFacts DEF Started
    <2> QED
      BY <2>3, <2>4, <2>5 DEF Following
  <1>3. CASE pc'[c] # "starting"
    <2>1. \A d \in Colony : Started(d)' = Started(d)
                            /\ Rows("ColonyKilled", d)' = Rows("ColonyKilled", d)
      <3>1. CASE \E r \in 0..MaxRounds : Emit(c, TaskEvent(pc'[c]), c, r)
        <4>1. /\ TaskEvent(pc'[c]) \in EventType
              /\ TaskEvent(pc'[c]) \notin {"RoundStarted", "ColonyKilled"}
          BY <1>3 DEF TaskEvent, EventType, Terminal, Verdict
        <4> QED
          BY <1>0, <3>1, <4>1, RowsEmit DEF Started
      <3>2. CASE NoEmit \/ EndEmit(c)
        BY <3>2, RowsSame DEF NoEmit, EndEmit, storeVars, Started
      <3> QED
        BY <3>1, <3>2 DEF TaskMove
    <2>2. \A d \in Colony : \A k : Following(d, k)' = Following(d, k)
      BY <2>1 DEF Following
    <2>3. pc'[c] = "prep" => pc[c] = "loop" /\ status[c] = "running"
      BY DEF RoundMove, Counting, PreVerdict
    <2>4. ASSUME NEW d \in Colony, NEW k \in Rows("ColonyKilled", d)'
          PROVE  KillOK(d, k)'
      <3>1. KillOK(d, k) /\ k \in Rows("ColonyKilled", d)
        BY <2>1 DEF KillInv, KillOK
      <3>2. pc'[d] = "prep" => Following(d, k) = {}
        BY <1>0, <1>2, <2>3, <3>1 DEF KillOK
      <3> QED
        BY <1>0, <1>1, <2>2, <3>1, <3>2 DEF KillOK
    <2> QED
      BY <2>4 DEF KillInv, KillOK
  (* A round starts: it is the first after any kill there is.               *)
  <1>4. CASE pc'[c] = "starting"
    <2>1. /\ pc[c] = "prep" /\ rnd[c] \in 0..MaxRounds /\ "RoundStarted" \in EventType
          /\ Emit(c, "RoundStarted", c, rnd[c])
      BY <1>0, <1>4 DEF RoundMove, Counting, PreVerdict, TypeOK, EventType
    <2> DEFINE n == Len(log) + 1
    <2>2. /\ Started(c)' = Started(c) \cup {n}
          /\ \A d \in Colony : Rows("ColonyKilled", d)' = Rows("ColonyKilled", d)
          /\ \A d \in Colony : d # c => Started(d)' = Started(d)
      BY <1>0, <2>1, RowsEmit DEF Started
    <2>3. ASSUME NEW d \in Colony, NEW k \in Rows("ColonyKilled", d)'
          PROVE  KillOK(d, k)'
      <3>1. KillOK(d, k)
        BY <2>2 DEF KillInv, KillOK
      <3>2. CASE d = c
        <4>1. Following(c, k) = {}
          BY <2>1, <3>1, <3>2 DEF KillOK
        <4>2. \A i \in Following(c, k)' : i = n
          BY <2>2, <4>1 DEF Following
        <4> QED
          BY <1>0, <1>1, <1>4, <3>1, <3>2, <4>2 DEF KillOK
      <3>3. CASE d # c
        <4>1. Following(d, k)' = Following(d, k)
          BY <2>2, <3>3 DEF Following
        <4> QED
          BY <1>0, <1>1, <3>1, <3>3, <4>1 DEF KillOK
      <3> QED
        BY <3>2, <3>3
    <2> QED
      BY <2>3 DEF KillInv, KillOK
  <1> QED
    BY <1>3, <1>4

(* A new kill comes after every round there is.                             *)
LEMMA KillCommand ==
    ASSUME IInv, KillInv, NEW k \in Client, NEW c \in Colony, CommandMove(k, c)
    PROVE  KillInv'
  <1>0. /\ TypeOK /\ StoreInv /\ ClientInv /\ k \in Actor /\ 0 \in 0..MaxRounds
        /\ Len(log) \in Nat
        /\ UNCHANGED <<applied, mode, pc>> /\ Emit(k, CommandEvent(op'[k]), c, 0)
    BY Actors, ConstantsAssumption, RowsFacts DEF IInv, BaseInv, CommandMove, taskVars
  <1> DEFINE n == Len(log) + 1
  <1>1. CommandEvent(op'[k]) \in EventType /\ CommandEvent(op'[k]) # "RoundStarted"
    BY DEF CommandEvent, EventType, Terminal, Verdict
  <1>2. /\ \A d \in Colony : Started(d)' = Started(d)
        /\ \A d \in Colony : Rows("ColonyKilled", d)' \subseteq Rows("ColonyKilled", d) \cup {n}
    <2>1. ASSUME NEW d \in Colony
          PROVE  /\ Started(d)' = Started(d)
                 /\ Rows("ColonyKilled", d)' \subseteq Rows("ColonyKilled", d) \cup {n}
      <3>1. Started(d)' = Started(d)
        BY <1>0, <1>1, RowsEmit DEF Started
      <3>2. \/ Rows("ColonyKilled", d)' = Rows("ColonyKilled", d) \cup {n}
            \/ Rows("ColonyKilled", d)' = Rows("ColonyKilled", d)
        BY <1>0, <1>1, RowsEmit
      <3>3. Rows("ColonyKilled", d)' \subseteq Rows("ColonyKilled", d) \cup {n}
        BY <3>2
      <3> QED
        BY <3>1, <3>3
    <2> QED
      BY <2>1
  <1>3. /\ phase'[k] = "append" /\ seq'[k] = n /\ phase[k] # "append"
        /\ \A j \in Client : j # k => phase'[j] = phase[j] /\ seq'[j] = seq[j]
    BY <1>0, Actors DEF Emit, TypeOK, ClientInv, CallOK, CommandMove
  <1>4. \A d \in Colony : \A i : Following(d, i)' = Following(d, i)
    BY <1>2 DEF Following
  <1>5. ASSUME NEW d \in Colony, NEW i \in Rows("ColonyKilled", d)'
        PROVE  KillOK(d, i)'
    <2>1. CASE i \in Rows("ColonyKilled", d)
      <3>1. KillOK(d, i)
        BY <2>1 DEF KillInv, KillOK
      <3>2. mode # "replaying" => \/ i \in applied
                                  \/ \E j \in Client : phase'[j] = "append" /\ seq'[j] = i
        BY <1>3, <3>1 DEF KillOK
      <3> QED
        BY <1>0, <1>4, <3>1, <3>2 DEF KillOK
    <2>2. CASE i = n
      <3>1. Started(d) \subseteq 1..Len(log)
        BY <1>0, RowsFacts DEF Started
      <3>2. Following(d, i) = {}
        BY <1>0, <2>2, <3>1 DEF Following
      <3> QED
        BY <1>3, <1>4, <2>2, <3>2 DEF KillOK
    <2> QED
      BY <1>2, <2>1, <2>2
  <1> QED
    BY <1>5 DEF KillInv, KillOK

LEMMA KillStep == IInv /\ RoundInv /\ KillInv /\ [Next]_vars => KillInv'
  <1> SUFFICES ASSUME IInv, RoundInv, KillInv, [Next]_vars PROVE KillInv'
    OBVIOUS
  <1>0. /\ TypeOK /\ StoreInv /\ CallInv /\ TaskInv /\ ClientInv /\ ReplayInv
    BY DEF IInv, BaseInv
  <1>1. ASSUME NEW c \in Colony, TaskStep(c), ~TaskDone(c) PROVE KillInv'
    BY <1>0, <1>1, TaskMoves, RoundMoves, KillTask
  <1>2. ASSUME NEW k \in Client, NEW c \in Colony, Command(k, c) PROVE KillInv'
    BY <1>0, <1>2, CommandMoves, KillCommand
  <1>3. ASSUME NEW c \in Colony, TaskDone(c) \/ StartColony(c) PROVE KillInv'
    <2>1. /\ UNCHANGED <<log, applied, mode, phase, seq>>
          /\ \A d \in Colony : pc'[d] = "prep" => pc[d] = "prep"
      BY <1>0, <1>3 DEF TaskDone, StartColony, storeVars, emitVars, TypeOK
    <2> QED
      BY <2>1, QuietKills
  <1>4. ASSUME NEW k \in Client, ClientStep(k) PROVE KillInv'
    <2> DEFINE c == target[k]
               ended == {k} \cup ({c} \cap active)
    <2>1. /\ k \in Actor /\ \A j \in Client : j \in Actor /\ (j \in ended => j = k)
      BY <1>0, Actors, ConstantsAssumption DEF TypeOK
    <2>2. phase[k] # "append" /\ UNCHANGED <<log, applied, mode>>
      BY <1>4 DEF ClientStep, Spawned, Killed, Answered, EndEmit, Finished, storeVars
    <2>3. \A j \in Client : j # k => phase'[j] = phase[j] /\ seq'[j] = seq[j]
      BY <1>0, <1>4, <2>1 DEF ClientStep, Spawned, Killed, Answered, EndEmit, TypeOK
    <2>4. \A d \in Colony : pc'[d] = "prep" => pc[d] = "prep"
      BY <1>0, <1>4 DEF ClientStep, Spawned, Killed, Answered, TypeOK
    <2> QED
      BY <2>2, <2>3, <2>4, QuietKills
  <1>5. ASSUME NEW a \in Actor, Deliver(a) PROVE KillInv'
    <2>1. /\ UNCHANGED <<log, mode, pc, seq>> /\ applied' = applied \cup {seq[a]}
          /\ \A b \in Actor : b # a => phase'[b] = phase[b]
      BY <1>0, <1>5 DEF Deliver, storeVars, taskVars, TypeOK
    <2>2. \A j \in Client : j \in Actor
      BY Actors
    <2> QED
      BY <2>1, <2>2, QuietKills
  <1>6. ASSUME NEW a \in Actor, FanOut(a) PROVE KillInv'
    <2>1. /\ UNCHANGED <<log, applied, mode, pc, seq>>
          /\ \A b \in Actor : phase[b] = "append" => phase'[b] = "append"
      BY <1>0, <1>6 DEF FanOut, storeVars, taskVars, TypeOK
    <2>2. \A j \in Client : j \in Actor
      BY Actors
    <2> QED
      BY <2>1, <2>2, QuietKills
  <1>7. CASE Commit \/ Subscribe \/ Unsubscribe \/ UNCHANGED vars
    <2>1. UNCHANGED <<log, applied, mode, pc, phase, seq>>
      BY <1>7 DEF Commit, Subscribe, Unsubscribe, vars, storeVars, taskVars, emitVars
    <2> QED
      BY <2>1, QuietKills
  <1>8. CASE Crash
    <2>1. mode' = "replaying" /\ \A c \in Colony : pc'[c] = "idle"
      BY <1>8 DEF Crash
    <2>2. \A t, c : Rows(t, c)' \subseteq Rows(t, c)
      BY <1>0, <1>8, RowsCrash
    <2>3. \A c, k : Following(c, k)' \subseteq Following(c, k)
      BY <2>2 DEF Following, Started
    <2> QED
      BY <2>1, <2>2, <2>3 DEF KillInv
  <1>9. CASE Replay \/ Rehydrate \/ Serve
    <2>1. /\ UNCHANGED <<log, pc, phase, seq>>
          /\ mode = "replaying" /\ mode' # "replaying" => applied' = 1..Len(log)
          /\ mode # "replaying" => applied' = applied
      BY <1>9 DEF Replay, Rehydrate, Serve, storeVars, taskVars, emitVars
    <2>2. \A t, c : Rows(t, c)' = Rows(t, c) /\ Rows(t, c) \subseteq 1..Len(log)
      BY <1>0, <2>1, RowsSame, RowsFacts
    <2>3. \A c, k : Following(c, k)' = Following(c, k)
      BY <2>2 DEF Following, Started
    <2> QED
      BY <2>1, <2>2, <2>3 DEF KillInv
  <1> QED
    BY <1>1, <1>2, <1>3, <1>4, <1>5, <1>6, <1>7, <1>8, <1>9
       DEF Next, TaskStep, EmitStep, Restart

(* At most one round of a colony starts after a kill of it, whatever raises *)
(* and whatever crashes: LoopHead's check and StartRound's row are two      *)
(* steps, and no more than one round fits between them.                     *)
THEOREM OneRoundFollowsKill == Spec => []OneRoundAfterKill
  <1>1. KillInv => OneRoundAfterKill
    <2> SUFFICES ASSUME KillInv, NEW c \in Colony, NEW k \in Rows("ColonyKilled", c)
                 PROVE  Cardinality({i \in Rows("RoundStarted", c) : i > k}) <= 1
      BY DEF OneRoundAfterKill
    <2>1. \A i, j \in Following(c, k) : i = j
      BY DEF KillInv
    <2>2. CASE Following(c, k) = {}
      BY <2>2, FS_EmptySet DEF Following, Started
    <2>3. CASE Following(c, k) # {}
      <3>1. PICK i : Following(c, k) = {i}
        BY <2>1, <2>3
      <3>2. Cardinality({i}) = 1
        BY FS_Singleton
      <3> QED
        BY <3>1, <3>2 DEF Following, Started
    <2> QED
      BY <2>2, <2>3
  <1> QED
    BY <1>1, KillInit, KillStep, RoundCorrect, InvariantCorrect, PTL DEF Spec

(* What a log says of the rounds of its colonies, rehydrated or killed.     *)
THEOREM RoundsInLogHold == Spec => []RoundsInLog
  <1>1. RoundsConsecutive /\ OneRoundAfterKill => RoundsInLog
    BY DEF RoundsInLog
  <1> QED
    BY <1>1, RoundsAreConsecutive, OneRoundFollowsKill, PTL
-----------------------------------------------------------------------------
(* The projection and the applied rows.                                     *)

LEMMA StatusTypes ==
    /\ DOMAIN StatusOf = Terminal \cup {"ColonySpawned"}
    /\ \A t \in DOMAIN StatusOf : \A o : o # "absent" \/ t = "ColonySpawned"
          => StatusAfter(t, o) = StatusOf[t]
    /\ \A t : \A o : t \notin DOMAIN StatusOf => StatusAfter(t, o) = o
<1>1. DOMAIN StatusOf = Terminal \cup {"ColonySpawned"}
  BY DEF StatusOf, Terminal, Verdict
<1> QED
  BY <1>1 DEF StatusAfter

AppliedWrites(c)  == Writes(c) \cap applied
AppliedRows(t, c) == Rows(t, c) \cap applied

(* ProjectionIsItsRows of one colony, field by field.                       *)
Announced(c) == status[c] = "service" /\ \E k \in Client :
                    op[k] = "service" /\ target[k] = c /\ phase[k] = "append"
StatusShown(c) ==
    \/ status[c] = "absent" /\ AppliedWrites(c) = {}
    \/ \E i \in AppliedWrites(c) :
          Latest(i, AppliedWrites(c)) /\ status[c] = StatusOf[log[i].type]
    \/ Announced(c)
RoundShown(c) ==
    \/ round[c] = 0 /\ AppliedRows("RoundStarted", c) = {}
    \/ \E i \in AppliedRows("RoundStarted", c) :
          Latest(i, AppliedRows("RoundStarted", c)) /\ round[c] = log[i].round
OverrideShown(c) == override[c] <=> AppliedRows("ColonyEscalated", c) # {}

Shown(c) == StatusShown(c) /\ RoundShown(c) /\ OverrideShown(c)
ShownInv == \A c \in Colony : Shown(c)

(* A step that applies nothing keeps the rows that were applied.            *)
LEMMA AppliedStay ==
    ASSUME applied' = applied, applied \subseteq 1..Len(log), applied \subseteq 1..Len(log'),
           \A i \in applied : log'[i] = log[i]
    PROVE  /\ \A c : AppliedWrites(c)' = AppliedWrites(c)
           /\ \A t, c : AppliedRows(t, c)' = AppliedRows(t, c)
<1>1. ASSUME NEW c PROVE AppliedWrites(c)' = AppliedWrites(c)
  BY DEF AppliedWrites, Writes
<1>2. ASSUME NEW t, NEW c PROVE AppliedRows(t, c)' = AppliedRows(t, c)
  BY DEF AppliedRows, Rows
<1> QED
  BY <1>1, <1>2

(* Neither does it change what is shown of a colony, if it leaves its       *)
(* projection and the service that was announced.                           *)
LEMMA ShownStays ==
    ASSUME applied' = applied, applied \subseteq 1..Len(log), applied \subseteq 1..Len(log'),
           \A i \in applied : log'[i] = log[i],
           NEW c \in Colony, Shown(c),
           status'[c] = status[c], round'[c] = round[c], override'[c] = override[c],
           \A k \in Client : op[k] = "service" /\ phase[k] = "append" =>
              op'[k] = "service" /\ phase'[k] = "append" /\ target'[k] = target[k]
    PROVE  Shown(c)'
<1>1. /\ AppliedWrites(c)' = AppliedWrites(c)
      /\ \A t : AppliedRows(t, c)' = AppliedRows(t, c)
  BY AppliedStay
<1>2. /\ \A i \in AppliedWrites(c) : log'[i] = log[i]
      /\ \A t : \A i \in AppliedRows(t, c) : log'[i] = log[i]
  BY DEF AppliedWrites, AppliedRows
<1>3. Announced(c) => Announced(c)'
  BY DEF Announced
<1>4. StatusShown(c)'
  <2>1. StatusShown(c)
    BY DEF Shown
  <2> QED
    BY <1>1, <1>2, <1>3, <2>1 DEF StatusShown, Latest
<1>5. RoundShown(c)'
  BY <1>1, <1>2 DEF Shown, RoundShown, Latest
<1>6. OverrideShown(c)'
  BY <1>1 DEF Shown, OverrideShown
<1> QED
  BY <1>4, <1>5, <1>6 DEF Shown

(* A row that comes after all that are applied is the last word.            *)
LEMMA ShownApplies ==
    ASSUME TypeOK, ShownInv, NEW i \in 1..Len(log), Apply(log[i]), log' = log,
           applied' = applied \cup {i}, \A j \in applied : j < i,
           log[i].type # "ColonySpawned" => status[log[i].colony] # "absent",
           \A k \in Client : op[k] = "service" /\ phase[k] = "append" =>
              \/ op'[k] = "service" /\ phase'[k] = "append" /\ target'[k] = target[k]
              \/ log[i].type = "ColonyServiceActivated" /\ log[i].colony = target[k]
    PROVE  ShownInv'
<1> DEFINE c == log[i].colony
           t == log[i].type
<1>1. /\ c \in Colony /\ t \in EventType
      /\ status' = [status EXCEPT ![c] = StatusAfter(t, @)]
      /\ round' = [round EXCEPT ![c] = RoundAfter(log[i], @)]
      /\ override' = [override EXCEPT ![c] = OverrideAfter(log[i], @)]
      /\ status \in [Colony -> Status] /\ round \in [Colony -> 0..MaxRounds]
      /\ override \in [Colony -> BOOLEAN]
  BY ApplyFacts DEF Apply, TypeOK
<1>2. i \in Nat /\ applied \subseteq Nat /\ i \notin applied
  BY RowsFacts DEF TypeOK
<1>3. ASSUME NEW d \in Colony
      PROVE  /\ d = c /\ t \in DOMAIN StatusOf => AppliedWrites(d)' = AppliedWrites(d) \cup {i}
             /\ ~(d = c /\ t \in DOMAIN StatusOf) => AppliedWrites(d)' = AppliedWrites(d)
             /\ \A u : d = c /\ t = u => AppliedRows(u, d)' = AppliedRows(u, d) \cup {i}
             /\ \A u : ~(d = c /\ t = u) => AppliedRows(u, d)' = AppliedRows(u, d)
  <2>1. Writes(d)' = Writes(d) /\ \A u : Rows(u, d)' = Rows(u, d)
    BY DEF Writes, Rows
  <2>2. /\ i \in Writes(d) <=> d = c /\ t \in DOMAIN StatusOf
        /\ \A u : i \in Rows(u, d) <=> d = c /\ t = u
    BY DEF Writes, Rows
  <2> QED
    BY <2>1, <2>2 DEF AppliedWrites, AppliedRows
<1>4. ASSUME NEW S, S \subseteq applied
      PROVE  Latest(i, S \cup {i})
  <2>1. \A j \in applied : j <= i
    BY <1>2
  <2>2. i <= i
    BY <1>2
  <2> QED
    BY <1>4, <2>1, <2>2 DEF Latest
<1>5. ASSUME NEW d \in Colony
      PROVE  StatusShown(d)'
  <2>1. StatusShown(d)
    BY DEF ShownInv, Shown
  <2>2. CASE d = c /\ t \in DOMAIN StatusOf
    <3>1. status'[d] = StatusOf[t]
      BY <1>1, <2>2, StatusTypes
    <3>2. AppliedWrites(d)' = AppliedWrites(d) \cup {i}
      BY <1>3, <2>2
    <3>3. Latest(i, AppliedWrites(d) \cup {i})
      BY <1>4 DEF AppliedWrites
    <3> QED
      BY <3>1, <3>2, <3>3 DEF StatusShown, Latest
  <2>3. CASE ~(d = c /\ t \in DOMAIN StatusOf)
    <3>1. status'[d] = status[d]
      BY <1>1, <2>3, StatusTypes
    <3>2. AppliedWrites(d)' = AppliedWrites(d)
      BY <1>3, <2>3
    <3>3. ASSUME Announced(d)
          PROVE  Announced(d)'
      <4>1. PICK k \in Client : op[k] = "service" /\ target[k] = d /\ phase[k] = "append"
        BY <3>3 DEF Announced
      <4>2. ~(t = "ColonyServiceActivated" /\ c = d)
        BY <2>3, StatusTypes DEF Terminal
      <4>3. op'[k] = "service" /\ phase'[k] = "append" /\ target'[k] = d
        BY <4>1, <4>2
      <4> QED
        BY <3>1, <3>3, <4>3 DEF Announced
    <3> QED
      BY <2>1, <3>1, <3>2, <3>3 DEF StatusShown, Latest
  <2> QED
    BY <2>2, <2>3
<1>6. ASSUME NEW d \in Colony
      PROVE  RoundShown(d)'
  <2>1. RoundShown(d)
    BY DEF ShownInv, Shown
  <2>2. CASE d = c /\ t = "RoundStarted"
    <3>1. round'[d] = log[i].round
      BY <1>1, <2>2 DEF RoundAfter
    <3>2. AppliedRows("RoundStarted", d)' = AppliedRows("RoundStarted", d) \cup {i}
      BY <1>3, <2>2
    <3>3. Latest(i, AppliedRows("RoundStarted", d) \cup {i})
      BY <1>4 DEF AppliedRows
    <3> QED
      BY <3>1, <3>2, <3>3 DEF RoundShown, Latest
  <2>3. CASE ~(d = c /\ t = "RoundStarted")
    <3>1. round'[d] = round[d]
      BY <1>1, <2>3 DEF RoundAfter
    <3>2. AppliedRows("RoundStarted", d)' = AppliedRows("RoundStarted", d)
      BY <1>3, <2>3
    <3> QED
      BY <2>1, <3>1, <3>2 DEF RoundShown, Latest
  <2> QED
    BY <2>2, <2>3
<1>7. ASSUME NEW d \in Colony
      PROVE  OverrideShown(d)'
  <2>1. OverrideShown(d)
    BY DEF ShownInv, Shown
  <2>2. CASE d = c /\ t = "ColonyEscalated"
    <3>1. override'[d]
      BY <1>1, <2>2 DEF OverrideAfter
    <3>2. AppliedRows("ColonyEscalated", d)' = AppliedRows("ColonyEscalated", d) \cup {i}
      BY <1>3, <2>2
    <3> QED
      BY <3>1, <3>2 DEF OverrideShown
  <2>3. CASE ~(d = c /\ t = "ColonyEscalated")
    <3>1. override'[d] <=> override[d]
      BY <1>1, <2>3 DEF OverrideAfter
    <3>2. AppliedRows("ColonyEscalated", d)' = AppliedRows("ColonyEscalated", d)
      BY <1>3, <2>3
    <3> QED
      BY <2>1, <3>1, <3>2 DEF OverrideShown
  <2> QED
    BY <2>2, <2>3
<1> QED
  BY <1>5, <1>6, <1>7 DEF ShownInv, Shown

LEMMA ShownInit == Init => ShownInv
  BY DEF Init, ShownInv, Shown, StatusShown, RoundShown, OverrideShown,
     AppliedWrites, AppliedRows

LEMMA ShownStep == IInv /\ ShownInv /\ [Next]_vars => ShownInv'
<1> SUFFICES ASSUME IInv, ShownInv, [Next]_vars PROVE ShownInv'
  OBVIOUS
<1>0. /\ TypeOK /\ StoreInv /\ CallInv /\ ReplayInv
      /\ LogInv /\ TaskInv /\ ClientInv /\ StatusInv
      /\ applied \subseteq 1..Len(log) /\ Len(log) \in Nat
  BY RowsFacts DEF IInv, BaseInv, TypeOK
(* The steps that apply nothing.                                            *)
<1> DEFINE Quiet ==
       /\ UNCHANGED <<applied, round, override>>
       /\ applied \subseteq 1..Len(log') /\ \A i \in applied : log'[i] = log[i]
       /\ \A k \in Client : op[k] = "service" /\ phase[k] = "append" =>
             op'[k] = "service" /\ phase'[k] = "append" /\ target'[k] = target[k]
<1>Q. ASSUME Quiet, NEW c \in Colony, status'[c] = status[c]
      PROVE  Shown(c)'
  BY <1>0, <1>Q, ShownStays DEF ShownInv
<1>1. ASSUME NEW c \in Colony, TaskStep(c), ~TaskDone(c) PROVE ShownInv'
  <2>1. TaskMove(c) /\ c \in Actor
    BY <1>0, <1>1, TaskMoves, Actors
  <2>2. UNCHANGED <<applied, status, round, override, op, target>>
    BY <2>1 DEF TaskMove, LoopFrame, projVars, clientVars
  <2>3. \A k \in Client : k \in Actor /\ k # c
    BY Actors, ConstantsAssumption
  <2>4. ASSUME NEW r \in 0..MaxRounds, Emit(c, TaskEvent(pc'[c]), c, r)
        PROVE  Quiet
    <3>1. TaskEvent(pc'[c]) \in EventType
      BY DEF TaskEvent, EventType, Terminal, Verdict
    <3>2. applied \subseteq 1..Len(log') /\ \A i \in 1..Len(log) : log'[i] = log[i]
      BY <1>0, <2>1, <2>2, <2>4, <3>1, EmitFacts
    <3>3. \A k \in Client : phase'[k] = phase[k]
      BY <1>0, <2>3, <2>4 DEF Emit, TypeOK
    <3> QED
      BY <1>0, <2>2, <3>2, <3>3
  <2>5. ASSUME NoEmit \/ EndEmit(c)
        PROVE  Quiet
    <3>1. log' = log /\ \A k \in Client : phase'[k] = phase[k]
      BY <1>0, <2>3, <2>5 DEF NoEmit, EndEmit, storeVars, emitVars, TypeOK
    <3> QED
      BY <1>0, <2>2, <3>1
  <2>6. Quiet
    BY <2>1, <2>4, <2>5 DEF TaskMove
  <2> QED
    BY <1>Q, <2>2, <2>6 DEF ShownInv
<1>2. ASSUME NEW k \in Client, NEW c \in Colony, Command(k, c) PROVE ShownInv'
  <2>1. CommandMove(k, c) /\ k \in Actor /\ 0 \in 0..MaxRounds
    BY <1>0, <1>2, CommandMoves, Actors, ConstantsAssumption
  <2>2. CommandEvent(op'[k]) \in EventType
    BY DEF CommandEvent, EventType, Terminal, Verdict
  <2>3. /\ UNCHANGED <<applied, round, override>> /\ op[k] = "idle"
        /\ Emit(k, CommandEvent(op'[k]), c, 0)
        /\ \A j \in Client : j # k => op'[j] = op[j] /\ target'[j] = target[j]
        /\ target'[k] = c
    BY <1>0, <2>1 DEF CommandMove, TypeOK
  <2>4. applied \subseteq 1..Len(log') /\ \A i \in 1..Len(log) : log'[i] = log[i]
    BY <1>0, <2>1, <2>2, <2>3, EmitFacts
  <2>5. phase'[k] = "append" /\ \A j \in Client : j # k => phase'[j] = phase[j]
    BY <1>0, <2>1, <2>3, Actors DEF Emit, TypeOK
  <2>6. Quiet
    BY <1>0, <2>3, <2>4, <2>5
  <2>7. ASSUME NEW d \in Colony, status'[d] # status[d]
        PROVE  Shown(d)'
    <3>1. op'[k] = "service" /\ d = c /\ status'[d] = "service"
      BY <1>0, <2>1, <2>7 DEF CommandMove, TypeOK
    <3>2. StatusShown(d)'
      BY <2>3, <2>5, <3>1 DEF StatusShown, Announced
    <3>3. \A u : AppliedRows(u, d)' = AppliedRows(u, d)
      BY <1>0, <2>3, <2>4, AppliedStay
    <3>4. RoundShown(d)'
      <4>1. RoundShown(d) /\ \A i \in AppliedRows("RoundStarted", d) : log'[i] = log[i]
        BY <1>0, <2>4 DEF ShownInv, Shown, AppliedRows
      <4> QED
        BY <2>3, <3>3, <4>1 DEF RoundShown, Latest
    <3>5. OverrideShown(d)'
      BY <2>3, <3>3 DEF ShownInv, Shown, OverrideShown
    <3> QED
      BY <3>2, <3>4, <3>5 DEF Shown
  <2> QED
    BY <1>Q, <2>6, <2>7 DEF ShownInv
<1>3. ASSUME NEW c \in Colony, TaskDone(c) \/ StartColony(c) PROVE ShownInv'
  <2>1. UNCHANGED <<log, applied, status, round, override, op, target, phase>>
    BY <1>3 DEF TaskDone, StartColony, storeVars, projVars, clientVars, emitVars
  <2> QED
    BY <1>0, <1>Q, <2>1 DEF ShownInv
<1>4. ASSUME NEW k \in Client, ClientStep(k) PROVE ShownInv'
  <2> DEFINE c == target[k]
             ended == {k} \cup ({c} \cap active)
  <2>1. k \in Actor /\ \A j \in Client : j \in Actor /\ (j \in ended => j = k)
    BY <1>0, Actors, ConstantsAssumption DEF TypeOK
  <2>2. phase[k] # "append" /\ UNCHANGED <<log, applied, status, round, override>>
    BY <1>4 DEF ClientStep, Spawned, Killed, Answered, EndEmit, Finished, storeVars, projVars
  <2>3. \A j \in Client : j # k => phase'[j] = phase[j]
    BY <1>0, <1>4, <2>1 DEF ClientStep, Spawned, Killed, Answered, EndEmit, TypeOK
  <2>4. \A j \in Client : j # k => op'[j] = op[j] /\ target'[j] = target[j]
    BY <1>0, <1>4 DEF ClientStep, Spawned, Killed, Answered, Finished, TypeOK
  <2>5. Quiet
    BY <1>0, <2>2, <2>3, <2>4
  <2> QED
    BY <1>Q, <2>2, <2>5 DEF ShownInv
<1>5. ASSUME NEW a \in Actor, Deliver(a) PROVE ShownInv'
  <2> DEFINE i == seq[a]
  <2>1. /\ i \in 1..Len(log) /\ \A j \in applied : j < i
        /\ Apply(log[i]) /\ log' = log /\ applied' = applied \cup {i}
        /\ phase[a] = "append" /\ UNCHANGED <<op, target>>
        /\ \A b \in Actor : b # a => phase'[b] = phase[b]
    BY <1>0, <1>5 DEF Deliver, StoreInv, storeVars, clientVars, TypeOK
  <2>2. log[i].type # "ColonySpawned" => status[log[i].colony] # "absent"
    <3>1. CASE a \in Colony
      BY <1>0, <2>1, <3>1 DEF TaskInv, TaskOK, TaskEvent, Emitting
    <3>2. CASE a \in Client
      BY <1>0, <2>1, <3>2 DEF ClientInv, CallOK, CommandEvent
    <3> QED
      BY <3>1, <3>2, Actors
  <2>3. ASSUME NEW k \in Client, op[k] = "service", phase[k] = "append"
        PROVE  \/ op'[k] = "service" /\ phase'[k] = "append" /\ target'[k] = target[k]
               \/ log[i].type = "ColonyServiceActivated" /\ log[i].colony = target[k]
    <3>1. CASE k = a
      BY <1>0, <2>3, <3>1 DEF ClientInv, CallOK, CommandEvent
    <3>2. CASE k # a
      BY <2>1, <2>3, <3>2, Actors
    <3> QED
      BY <3>1, <3>2
  <2> HIDE DEF i
  <2> QED
    BY <1>0, <2>1, <2>2, <2>3, ShownApplies
<1>6. ASSUME NEW a \in Actor, FanOut(a) PROVE ShownInv'
  <2>1. /\ UNCHANGED <<log, applied, status, round, override, op, target>>
        /\ \A b \in Actor : phase[b] = "append" => phase'[b] = "append"
    BY <1>0, <1>6 DEF FanOut, storeVars, projVars, clientVars, TypeOK
  <2>2. Quiet
    BY <1>0, <2>1, Actors
  <2> QED
    BY <1>Q, <2>1, <2>2 DEF ShownInv
<1>7. CASE Commit \/ Subscribe \/ Unsubscribe \/ Rehydrate \/ Serve \/ UNCHANGED vars
  <2>1. UNCHANGED <<log, applied, status, round, override, op, target, phase>>
    BY <1>7 DEF Commit, Subscribe, Unsubscribe, Rehydrate, Serve, vars, storeVars,
                projVars, clientVars, emitVars
  <2> QED
    BY <1>0, <1>Q, <2>1 DEF ShownInv
<1>8. CASE Crash
  BY <1>8 DEF Crash, ShownInv, Shown, StatusShown, RoundShown, OverrideShown,
     AppliedWrites, AppliedRows
<1>9. CASE Replay
  <2> PICK i \in 1..Len(log) : applied = 1..(i - 1) /\ Apply(log[i]) /\ applied' = 1..i
    BY <1>9 DEF Replay
  <2>1. /\ log' = log /\ applied' = applied \cup {i} /\ \A j \in applied : j < i
        /\ \A k \in Client : op[k] = "idle"
    BY <1>0, <1>9 DEF Replay, storeVars, ReplayInv
  <2>2. log[i].type # "ColonySpawned" => status[log[i].colony] # "absent"
    <3> SUFFICES ASSUME log[i].type # "ColonySpawned"
                 PROVE  status[log[i].colony] # "absent"
      OBVIOUS
    <3>1. PICK j \in 1..i : IsSpawn(j, log[i].colony)
      BY <1>0 DEF LogInv
    <3>2. j \in applied
      BY <3>1 DEF IsSpawn
    <3>3. log[i].colony \in Colony
      BY <1>0, ApplyFacts
    <3> QED
      BY <1>0, <3>1, <3>2, <3>3 DEF StatusInv
  <2> QED
    BY <1>0, <2>1, <2>2, ShownApplies
<1> QED
  BY <1>1, <1>2, <1>3, <1>4, <1>5, <1>6, <1>7, <1>8, <1>9
     DEF Next, TaskStep, EmitStep, Restart

(* Whatever was cancelled in an append, raised in a fan-out or cut by a     *)
(* crash, what the server shows of a colony is what its applied rows say.   *)
THEOREM ProjectionFollowsRows == Spec => []ProjectionIsItsRows
<1>1. ShownInv => ProjectionIsItsRows
  BY DEF ShownInv, Shown, StatusShown, RoundShown, OverrideShown, Announced,
     AppliedWrites, AppliedRows, ProjectionIsItsRows
<1> QED
  BY <1>1, ShownInit, ShownStep, InvariantCorrect, PTL DEF Spec

(* So a row nobody applied is the one reason for a restart to end in        *)
(* another status than the server showed (ReplaySameState).                 *)
THEOREM RestartShowsTheSame == Spec => []SameStateIfApplied
<1>1. IInv /\ ShownInv => SameStateIfApplied
  <2> SUFFICES ASSUME IInv, ShownInv, applied = 1..Len(log), NEW c \in Colony
               PROVE  ShowsLastWrite(c)
    BY DEF SameStateIfApplied
  <2>1. AppliedWrites(c) = Writes(c)
    BY DEF AppliedWrites, Writes
  <2>2. ~Announced(c)
    <3> SUFFICES ASSUME NEW k \in Client, phase[k] = "append" PROVE FALSE
      BY DEF Announced
    <3>1. seq[k] \in applied /\ seq[k] < seq[k]
      BY Actors DEF IInv, BaseInv, StoreInv
    <3>2. seq[k] \in Nat
      BY Actors DEF IInv, BaseInv, TypeOK
    <3> QED
      BY <3>1, <3>2
  <2>3. StatusShown(c)
    BY DEF ShownInv, Shown
  <2>4. \A i, j \in Writes(c) : Latest(i, Writes(c)) /\ Latest(j, Writes(c)) => i = j
    BY RowsFacts DEF Latest, Writes, IInv, BaseInv
  <2>5. CASE status[c] = "absent" /\ Writes(c) = {}
    BY <2>5 DEF ShowsLastWrite
  <2>6. CASE \E i \in Writes(c) : Latest(i, Writes(c)) /\ status[c] = StatusOf[log[i].type]
    BY <2>4, <2>6 DEF ShowsLastWrite
  <2> QED
    BY <2>1, <2>2, <2>3, <2>5, <2>6 DEF StatusShown
<1> QED
  BY <1>1, ShownInit, ShownStep, InvariantCorrect, PTL DEF Spec
=============================================================================
