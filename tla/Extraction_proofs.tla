-------------------------- MODULE Extraction_proofs --------------------------
(***************************************************************************)
(* Proofs about Extraction for any colonies and any number of crashes,      *)
(* exceptions and commands.  IInv is the inductive invariant: an extraction *)
(* that is owed (queued, under way, or left to the backfill) is owed in one *)
(* place only, and to a colony that has neither been extracted in this life *)
(* nor a receipt.                                                           *)
(***************************************************************************)
EXTENDS Extraction, TLAPS, SequenceTheorems

Doing(w, c) == job[w] # Idle /\ job[w].work.colony = c

Queued(c) == \E i \in 1..Len(queue) : queue[i].colony = c

(* Nothing has been extracted from c or is about to be.                     *)
Unlearnt(c) ==
    /\ ~Receipted(c)
    /\ runs[c] = 0
    /\ c \notin todo
    /\ ~Queued(c)
    /\ \A w \in Worker : ~Doing(w, c)

(* After a crash nothing but the store is left.                             *)
DownInv ==
    ~up => /\ queue = <<>> /\ todo = {}
           /\ job = [w \in Worker |-> Idle]
           /\ loop = [c \in Colony |-> "none"]
           /\ runs = [c \in Colony |-> 0]

(* A colony learns nothing before its hooks have run.                       *)
FreshInv ==
    \A c \in Colony :
        /\ loop[c] = "rounds" => status[c] = "running"
        /\ loop[c] \in Verdict => status[c] \notin {"absent", "running"}
        /\ (status[c] \in {"absent", "running"} \/ loop[c] \in Verdict)
              => Unlearnt(c)

(* What the backfill has still to do, and what it does, is nowhere else.    *)
BackfillInv ==
    /\ \A c \in todo : /\ ~Receipted(c)
                       /\ runs[c] = 0
                       /\ ~Queued(c)
                       /\ \A w \in Worker : ~Doing(w, c)
    /\ \A c \in Colony : Doing("backfill", c) =>
          /\ job["backfill"].work.kind = "extraction"
          /\ ~Receipted(c)
          /\ ~Queued(c)
          /\ ~Doing("drain", c)

(* A queued extraction comes before everything else there is for its colony.*)
QueueInv ==
    \A i \in 1..Len(queue) : queue[i].kind = "extraction" =>
        /\ ~Receipted(queue[i].colony)
        /\ runs[queue[i].colony] = 0
        /\ ~Doing("drain", queue[i].colony)
        /\ \A j \in 1..Len(queue) :
              (j # i /\ queue[j].colony = queue[i].colony)
                 => j > i /\ queue[j].kind = "harvest"

DrainInv ==
    \A c \in Colony :
        Doing("drain", c) /\ job["drain"].work.kind = "extraction"
            => ~Receipted(c)

(* Only an extraction writes the entry.                                     *)
PlaceInv ==
    \A w \in Worker : job[w].at \in {"creating", "verifying"}
                         => job[w].work.kind = "extraction"

OnceInv == RunsPerLife

IInv == /\ TypeOK /\ DownInv /\ FreshInv /\ BackfillInv
        /\ QueueInv /\ DrainInv /\ PlaceInv /\ OnceInv

(* Whoever works with the verdict "completed" works for a colony that has   *)
(* not failed, and no colony that has yet to learn has a verified entry.    *)
VerdictInv ==
    /\ \A c \in Colony : loop[c] = "completed" => status[c] # "failed"
    /\ \A i \in 1..Len(queue) :
          queue[i].verdict = "completed" => status[queue[i].colony] # "failed"
    /\ \A w \in Worker :
          (job[w] # Idle /\ job[w].work.verdict = "completed")
             => status[job[w].work.colony] # "failed"
    /\ \A w \in Worker : At(w, "verifying") => job[w].work.verdict = "completed"
    /\ \A c \in Colony :
          (status[c] \in {"absent", "running"} \/ loop[c] \in Verdict)
             => entry[c] = "none"

-----------------------------------------------------------------------------
(* Type correctness.                                                        *)

LEMMA DeferredShape ==
    ASSUME TypeOK, NEW c \in Colony, NEW v \in Verdict
    PROVE  /\ Deferred(c, v) \in Seq(Work)
           /\ \A i \in 1..Len(Deferred(c, v)) :
                 /\ Deferred(c, v)[i].colony = c
                 /\ Deferred(c, v)[i].verdict = v
                 /\ i > 1 => Deferred(c, v)[i].kind = "harvest"
<1> DEFINE e == [colony |-> c, kind |-> "extraction", verdict |-> v]
           h == [colony |-> c, kind |-> "harvest", verdict |-> v]
<1>1. e \in Work /\ h \in Work
  BY DEF Work, Kind, Status, Verdict
<1>2. /\ Unmarked(c, "extraction", v) \in {<<>>, <<e>>}
      /\ Unmarked(c, "harvest", v) \in {<<>>, <<h>>}
  BY DEF Unmarked
<1>3. <<>> \in Seq(Work) /\ <<e>> \in Seq(Work) /\ <<h>> \in Seq(Work)
  BY <1>1
<1>4. Deferred(c, v) \in {<<>>, <<e>>, <<h>>, <<e>> \o <<h>>}
  BY <1>2, <1>3, ConcatEmptySeq DEF Deferred
<1>5. /\ <<e>> \o <<h>> \in Seq(Work)
      /\ Len(<<e>> \o <<h>>) = 2
      /\ (<<e>> \o <<h>>)[1] = e /\ (<<e>> \o <<h>>)[2] = h
  BY <1>3, ConcatProperties
<1>6. ASSUME NEW D \in {<<>>, <<e>>, <<h>>, <<e>> \o <<h>>}
      PROVE  /\ D \in Seq(Work)
             /\ \A i \in 1..Len(D) : /\ D[i].colony = c
                                     /\ D[i].verdict = v
                                     /\ i > 1 => D[i].kind = "harvest"
  <2>1. CASE D = <<>>
    BY <2>1, <1>3
  <2>2. CASE D = <<e>>
    BY <2>2, <1>3
  <2>3. CASE D = <<h>>
    BY <2>3, <1>3
  <2>4. CASE D = <<e>> \o <<h>>
    <3>1. \A i \in 1..Len(D) : i = 1 \/ i = 2
      BY <2>4, <1>5
    <3> QED BY <2>4, <3>1, <1>5
  <2> QED BY <1>6, <2>1, <2>2, <2>3, <2>4
<1> QED BY <1>4, <1>6

LEMMA QueueType ==
    ASSUME TypeOK, NEW i \in 1..Len(queue)
    PROVE  queue[i] \in Work /\ queue[i].colony \in Colony /\ queue[i].kind \in Kind
<1>1. queue[i] \in Work
  BY ElementOfSeq DEF TypeOK
<1> QED BY <1>1 DEF Work

LEMMA TypeInit == Init => TypeOK
<1> SUFFICES ASSUME Init PROVE TypeOK
  OBVIOUS
<1>1. <<>> \in Seq(Work)
  OBVIOUS
<1>2. 0 \in 0..MaxCrashes /\ 0 \in 0..MaxFaults /\ 0 \in 0..MaxCommands
  BY BoundsAssumption
<1> QED BY <1>1, <1>2 DEF Init, TypeOK, Status

LEMMA EndJobType ==
    ASSUME TypeOK, NEW w \in Worker, EndJob(w), UNCHANGED queue
    PROVE  /\ job' \in [Worker -> Job \cup {Idle}]
           /\ draining' \in BOOLEAN
           /\ queue' # <<>> => draining'
BY DEF TypeOK, EndJob, GoesOn

LEMMA GotoType ==
    ASSUME TypeOK, NEW w \in Worker, job[w] # Idle, NEW p \in Place, Goto(w, p)
    PROVE  /\ job' \in [Worker -> Job \cup {Idle}]
           /\ draining' = draining
<1>1. job[w] \in Job
  BY DEF TypeOK
<1>2. [job[w] EXCEPT !.at = p] \in Job
  BY <1>1 DEF Job
<1> QED BY <1>2 DEF TypeOK, Goto

LEMMA AtType ==
    ASSUME TypeOK, NEW w \in Worker, NEW p \in Place, At(w, p)
    PROVE  job[w] # Idle /\ job[w] \in Job /\ job[w].work \in Work
BY DEF TypeOK, At, Idle, Place, Job

LEMMA TypeStep == TypeOK /\ [Next]_vars => TypeOK'
<1> SUFFICES ASSUME TypeOK, [Next]_vars PROVE TypeOK'
  OBVIOUS
<1> USE DEF TypeOK
<1>1. ASSUME NEW c \in Colony, SpawnColony(c) PROVE TypeOK'
  BY <1>1 DEF SpawnColony, work, history, counters, Status
<1>2. ASSUME NEW c \in Colony, Settle(c) PROVE TypeOK'
  <2>1. CASE \E v \in Verdict : /\ status' = [status EXCEPT ![c] = v]
                               /\ loop' = [loop EXCEPT ![c] = v]
                               /\ UNCHANGED work
    BY <1>2, <2>1 DEF Settle, work, history, counters, Status
  <2>2. CASE status' = [status EXCEPT ![c] = "failed"] /\ LoopEnds(c)
    BY <1>2, <2>2 DEF Settle, LoopEnds, Scheduled, history, counters, Status, Verdict
  <2> QED BY <1>2, <2>1, <2>2 DEF Settle
<1>3. ASSUME NEW c \in Colony, LoopDies(c) PROVE TypeOK'
  <2>1. faults' \in 0..MaxFaults
    BY <1>3, BoundsAssumption DEF LoopDies
  <2> QED BY <1>3, <2>1 DEF LoopDies, LoopEnds, Scheduled, stored, history
<1>4. ASSUME NEW c \in Colony, PostColonyHooks(c) PROVE TypeOK'
  <2>1. queue' \in Seq(Work)
    BY <1>4, DeferredShape, ConcatProperties DEF PostColonyHooks
  <2>2. draining' \in BOOLEAN /\ (queue' # <<>> => draining')
    BY <1>4 DEF PostColonyHooks, Scheduled
  <2> QED BY <1>4, <2>1, <2>2 DEF PostColonyHooks, stored, history, counters
<1>5. ASSUME NEW c \in Colony, TaskDone(c) PROVE TypeOK'
  BY <1>5 DEF TaskDone, LoopEnds, Scheduled, stored, history, counters
<1>6. ASSUME NEW c \in Colony, KillColony(c) PROVE TypeOK'
  <2>1. commands' \in 0..MaxCommands
    BY <1>6, BoundsAssumption DEF KillColony, Command
  <2> QED BY <1>6, <2>1 DEF KillColony, Command, LoopEnds, Scheduled, history, Status
<1>7. ASSUME NEW c \in Colony, ActivateService(c) PROVE TypeOK'
  <2>1. commands' \in 0..MaxCommands
    BY <1>7, BoundsAssumption DEF ActivateService, Command
  <2> QED BY <1>7, <2>1 DEF ActivateService, Command, work, history, Status
<1>8. ASSUME DrainTakes PROVE TypeOK'
  <2>1. Head(queue) \in Work /\ Tail(queue) \in Seq(Work)
    BY <1>8, HeadTailProperties DEF DrainTakes, MayDrain
  <2>2. [work |-> Head(queue), at |-> "asking"] \in Job
    BY <2>1 DEF Job, Place
  <2>3. "drain" \in Worker /\ Head(queue).colony \in Colony
    BY <2>1 DEF Worker, Work
  <2> QED BY <1>8, <2>1, <2>2, <2>3 DEF DrainTakes, Begin, stored, counters
<1>9. ASSUME NEW c \in Colony, BackfillTakes(c) PROVE TypeOK'
  <2>1. BackfillItem(c) \in Work /\ BackfillItem(c).colony = c
    BY DEF BackfillItem, Work, Kind
  <2>2. [work |-> BackfillItem(c), at |-> "asking"] \in Job
    BY <2>1 DEF Job, Place
  <2>3. "backfill" \in Worker
    BY DEF Worker
  <2> QED BY <1>9, <2>1, <2>2, <2>3 DEF BackfillTakes, Begin, stored, counters
<1>10. ASSUME NEW w \in Worker, Answer(w) PROVE TypeOK'
  <2>1. job[w] # Idle /\ UNCHANGED queue
    BY <1>10, AtType DEF Answer, JobFrame, Place
  <2>2. /\ job' \in [Worker -> Job \cup {Idle}]
        /\ draining' \in BOOLEAN
        /\ queue' # <<>> => draining'
    BY <1>10, <2>1, EndJobType, GotoType DEF Answer, Place
  <2> QED BY <1>10, <2>2 DEF Answer, JobFrame, history
<1>11. ASSUME NEW w \in Worker, Create(w) PROVE TypeOK'
  <2>1. job[w] # Idle /\ job[w].work \in Work /\ UNCHANGED queue
    BY <1>11, AtType DEF Create, JobFrame, Place
  <2>2. job' \in [Worker -> Job \cup {Idle}] /\ draining' = draining
    BY <1>11, <2>1, GotoType DEF Create, AfterCreation, Place
  <2>3. entry' \in [Colony -> {"none", "candidate", "verified", "rejected"}]
    BY <1>11, <2>1 DEF Create, Work
  <2> QED BY <1>11, <2>2, <2>3 DEF Create, JobFrame, history
<1>12. ASSUME NEW w \in Worker, Verify(w) PROVE TypeOK'
  <2>1. job[w] # Idle /\ job[w].work \in Work /\ UNCHANGED queue
    BY <1>12, AtType DEF Verify, JobFrame, Place
  <2>2. job' \in [Worker -> Job \cup {Idle}] /\ draining' = draining
    BY <1>12, <2>1, GotoType DEF Verify, Place
  <2>3. entry' \in [Colony -> {"none", "candidate", "verified", "rejected"}]
    BY <1>12, <2>1 DEF Verify, Work
  <2> QED BY <1>12, <2>2, <2>3 DEF Verify, JobFrame, history
<1>13. ASSUME NEW w \in Worker, Confirm(w) PROVE TypeOK'
  <2>1. job[w].work \in Work /\ UNCHANGED queue
    BY <1>13, AtType DEF Confirm, JobFrame, Place
  <2>2. <<job[w].work.colony, job[w].work.kind>> \in Colony \X Kind
    BY <2>1 DEF Work
  <2>3. /\ job' \in [Worker -> Job \cup {Idle}]
        /\ draining' \in BOOLEAN
        /\ queue' # <<>> => draining'
    BY <1>13, <2>1, EndJobType DEF Confirm
  <2> QED BY <1>13, <2>2, <2>3 DEF Confirm, JobFrame, history
<1>14. ASSUME NEW w \in Worker, Raise(w) PROVE TypeOK'
  <2>1. job[w].work \in Work /\ UNCHANGED queue
    BY <1>14 DEF Raise, JobFrame, Job
  <2>2. raised' \subseteq Colony /\ faults' \in 0..MaxFaults
    BY <1>14, <2>1, BoundsAssumption DEF Raise, Work
  <2>3. /\ job' \in [Worker -> Job \cup {Idle}]
        /\ draining' \in BOOLEAN
        /\ queue' # <<>> => draining'
    BY <1>14, <2>1, EndJobType DEF Raise
  <2> QED BY <1>14, <2>2, <2>3 DEF Raise, JobFrame
<1>15. ASSUME Crash PROVE TypeOK'
  <2>1. crashes' \in 0..MaxCrashes /\ queue' \in Seq(Work)
    BY <1>15, BoundsAssumption DEF Crash
  <2> QED BY <1>15, <2>1 DEF Crash, stored
<1>16. ASSUME Restart PROVE TypeOK'
  BY <1>16 DEF Restart, Missing, stored, history, counters
<1>17. ASSUME UNCHANGED vars PROVE TypeOK'
  BY <1>17 DEF vars, stored, work, history, counters
<1> QED BY <1>1, <1>2, <1>3, <1>4, <1>5, <1>6, <1>7, <1>8, <1>9, <1>10, <1>11,
           <1>12, <1>13, <1>14, <1>15, <1>16, <1>17 DEF Next, LoopStep, JobStep

(* Types are kept, and queued work always has a drain task to take it       *)
(* (colony_manager.py:487).                                                 *)
THEOREM TypeCorrect == Spec => []TypeOK
<1> QED BY TypeInit, TypeStep, PTL DEF Spec

-----------------------------------------------------------------------------
(* The invariant.                                                           *)

LEMMA InitInv == Init => IInv /\ VerdictInv
<1> SUFFICES ASSUME Init PROVE IInv /\ VerdictInv
  OBVIOUS
<1>1. TypeOK
  BY TypeInit
<1>2. /\ queue = <<>> /\ Len(queue) = 0 /\ todo = {} /\ receipts = {} /\ up = TRUE
      /\ \A w \in Worker : job[w] = Idle
      /\ \A c \in Colony : runs[c] = 0 /\ loop[c] = "none"
                           /\ status[c] = "absent" /\ entry[c] = "none"
  BY DEF Init
<1>3. \A c \in Colony : Unlearnt(c)
  BY <1>2 DEF Unlearnt, Receipted, Queued, Doing
<1>4. DownInv /\ FreshInv /\ BackfillInv /\ QueueInv
  BY <1>2, <1>3 DEF DownInv, FreshInv, BackfillInv, QueueInv, Doing, Worker, Verdict
<1>5. DrainInv /\ PlaceInv /\ OnceInv
  BY <1>2 DEF DrainInv, PlaceInv, OnceInv, RunsPerLife, Doing, Worker, Idle
<1>6. VerdictInv
  BY <1>2 DEF VerdictInv, At, Idle
<1> QED BY <1>1, <1>4, <1>5, <1>6 DEF IInv

(* Steps of the round loops and of the operator touch nothing that is owed. *)
LEMMA NothingOwed ==
    ASSUME IInv, UNCHANGED <<queue, todo, job, runs, receipts>>
    PROVE  /\ BackfillInv' /\ QueueInv' /\ DrainInv' /\ PlaceInv' /\ OnceInv'
           /\ \A c \in Colony : Unlearnt(c) => Unlearnt(c)'
<1>1. \A d \in Colony : /\ Receipted(d)' <=> Receipted(d)
                        /\ Queued(d)' <=> Queued(d)
                        /\ \A w \in Worker : Doing(w, d)' <=> Doing(w, d)
  BY DEF Receipted, Queued, Doing
<1>2. BackfillInv'
  BY <1>1 DEF IInv, BackfillInv, TypeOK, Worker
<1>3. QueueInv'
  <2>1. QueueInv /\ \A i \in 1..Len(queue) : queue[i].colony \in Colony
    <3>1. queue \in Seq(Work) /\ QueueInv
      BY DEF IInv, TypeOK
    <3>2. \A i \in 1..Len(queue) : queue[i] \in Work
      BY <3>1
    <3> QED BY <3>1, <3>2 DEF Work
  <2>2. "drain" \in Worker
    BY DEF Worker
  <2> QED BY <1>1, <2>1, <2>2 DEF QueueInv
<1>4. DrainInv' /\ PlaceInv' /\ OnceInv'
  BY <1>1 DEF IInv, DrainInv, PlaceInv, OnceInv, RunsPerLife, Worker
<1>5. \A d \in Colony : Unlearnt(d) => Unlearnt(d)'
  BY <1>1 DEF Unlearnt
<1> QED BY <1>2, <1>3, <1>4, <1>5

LEMMA LoopInv ==
    ASSUME IInv, TypeOK', NEW c \in Colony,
           \/ SpawnColony(c) \/ Settle(c) \/ LoopDies(c) \/ TaskDone(c)
           \/ KillColony(c) \/ ActivateService(c)
    PROVE  IInv'
<1>1. UNCHANGED <<queue, todo, job, runs, receipts, up>>
  BY DEF SpawnColony, Settle, LoopDies, TaskDone, KillColony, ActivateService,
         Command, LoopEnds, work, history, stored
<1>2. /\ BackfillInv' /\ QueueInv' /\ DrainInv' /\ PlaceInv' /\ OnceInv'
      /\ \A d \in Colony : Unlearnt(d) => Unlearnt(d)'
  BY <1>1, NothingOwed
<1>3. \A d \in Colony : /\ d # c => status'[d] = status[d] /\ loop'[d] = loop[d]
  <2>1. CASE SpawnColony(c)
    BY <2>1 DEF SpawnColony, IInv, TypeOK
  <2>2. CASE Settle(c) \/ LoopDies(c) \/ TaskDone(c)
    BY <2>2 DEF Settle, LoopDies, TaskDone, LoopEnds, stored, IInv, TypeOK
  <2>3. CASE KillColony(c) \/ ActivateService(c)
    BY <2>3 DEF KillColony, ActivateService, Command, LoopEnds, IInv, TypeOK
  <2> QED BY <2>1, <2>2, <2>3
<1>4. /\ status[c] \in {"absent", "running"} \/ loop[c] \in Verdict => Unlearnt(c)
      /\ loop[c] = "rounds" => status[c] = "running"
      /\ loop[c] \in Verdict => status[c] \notin {"absent", "running"}
  BY DEF IInv, FreshInv
<1>5. /\ loop'[c] = "rounds" => status'[c] = "running"
      /\ loop'[c] \in Verdict => status'[c] \notin {"absent", "running"}
      /\ (status'[c] \in {"absent", "running"} \/ loop'[c] \in Verdict)
            => (status[c] \in {"absent", "running"} \/ loop[c] \in Verdict)
  <2>1. CASE SpawnColony(c)
    BY <2>1 DEF SpawnColony, IInv, TypeOK, Verdict
  <2>2. CASE Settle(c)
    BY <2>2, <1>4 DEF Settle, LoopEnds, IInv, TypeOK, Verdict
  <2>3. CASE LoopDies(c)
    BY <2>3, <1>4 DEF LoopDies, LoopEnds, stored, IInv, TypeOK, Verdict
  <2>4. CASE TaskDone(c)
    BY <2>4, <1>4 DEF TaskDone, LoopEnds, stored, IInv, TypeOK, Verdict
  <2>5. CASE KillColony(c)
    BY <2>5 DEF KillColony, Command, LoopEnds, IInv, TypeOK, Verdict
  <2>6. CASE ActivateService(c)
    BY <2>6, <1>4 DEF ActivateService, Command, IInv, TypeOK, Verdict
  <2> QED BY <2>1, <2>2, <2>3, <2>4, <2>5, <2>6
<1>6. FreshInv'
  <2> SUFFICES ASSUME NEW d \in Colony
               PROVE  /\ loop'[d] = "rounds" => status'[d] = "running"
                      /\ loop'[d] \in Verdict => status'[d] \notin {"absent", "running"}
                      /\ (status'[d] \in {"absent", "running"} \/ loop'[d] \in Verdict)
                            => Unlearnt(d)'
    BY DEF FreshInv
  <2>1. CASE d = c
    BY <2>1, <1>2, <1>4, <1>5
  <2>2. CASE d # c
    BY <2>2, <1>2, <1>3 DEF IInv, FreshInv
  <2> QED BY <2>1, <2>2
<1>7. DownInv'
  <2>1. ~up => loop[c] = "none"
    BY DEF IInv, DownInv
  <2>2. up
    BY <2>1 DEF SpawnColony, Settle, LoopDies, TaskDone, KillColony,
                ActivateService, Command, Verdict, IInv, TypeOK
  <2> QED BY <2>2, <1>1 DEF DownInv
<1> QED BY <1>2, <1>6, <1>7 DEF IInv

LEMMA HooksInv ==
    ASSUME IInv, TypeOK', NEW c \in Colony, PostColonyHooks(c)
    PROVE  IInv'
<1> DEFINE D == Deferred(c, loop[c])
<1>1. /\ D \in Seq(Work)
      /\ \A i \in 1..Len(D) : D[i].colony = c /\ (i > 1 => D[i].kind = "harvest")
  BY DeferredShape DEF IInv, PostColonyHooks
<1> HIDE DEF D
<1>2. /\ queue' \in Seq(Work)
      /\ Len(queue') = Len(queue) + Len(D)
      /\ \A i \in 1..Len(queue') :
            queue'[i] = IF i <= Len(queue) THEN queue[i] ELSE D[i - Len(queue)]
  BY <1>1, ConcatProperties DEF PostColonyHooks, IInv, TypeOK, D
<1>3. Len(queue) \in Nat /\ Len(D) \in Nat
  BY <1>1, LenProperties DEF IInv, TypeOK
<1>4. UNCHANGED <<todo, job, runs, receipts, status, up>>
  BY DEF PostColonyHooks, stored, history
<1>5. Unlearnt(c)
  BY DEF PostColonyHooks, IInv, FreshInv
<1>6. /\ loop'[c] = "closing"
      /\ \A d \in Colony : d # c => loop'[d] = loop[d]
  BY DEF PostColonyHooks, IInv, TypeOK
<1>7. \A d \in Colony : d # c /\ Queued(d)' => Queued(d)
  <2> SUFFICES ASSUME NEW d \in Colony, d # c,
                      NEW i \in 1..Len(queue'), queue'[i].colony = d
               PROVE  Queued(d)
    BY DEF Queued
  <2>1. CASE i <= Len(queue)
    BY <2>1, <1>2, <1>3 DEF Queued
  <2>2. CASE ~(i <= Len(queue))
    <3>1. i - Len(queue) \in 1..Len(D)
      BY <2>2, <1>2, <1>3
    <3> QED BY <3>1, <2>2, <1>1, <1>2
  <2> QED BY <2>1, <2>2
<1>8. DownInv'
  <2>1. up
    BY DEF PostColonyHooks, IInv, DownInv, Verdict
  <2> QED BY <2>1, <1>4 DEF DownInv
<1>9. FreshInv'
  <2>1. \A d \in Colony : d # c /\ Unlearnt(d) => Unlearnt(d)'
    BY <1>4, <1>7 DEF Unlearnt, Receipted, Doing
  <2>2. /\ loop'[c] \notin Verdict \cup {"rounds"}
        /\ status'[c] \notin {"absent", "running"}
    BY <1>4, <1>6 DEF PostColonyHooks, IInv, FreshInv, Verdict
  <2>3. \A d \in Colony : d # c => status'[d] = status[d] /\ loop'[d] = loop[d]
    BY <1>4, <1>6
  <2> QED BY <2>1, <2>2, <2>3 DEF IInv, FreshInv
<1>10. BackfillInv'
  <2>1. c \notin todo /\ \A w \in Worker : ~Doing(w, c)
    BY <1>5 DEF Unlearnt
  <2>2. "backfill" \in Worker /\ todo \subseteq Colony
    BY DEF Worker, IInv, TypeOK
  <2>3. /\ \A w \in Worker : \A d \in Colony : Doing(w, d)' <=> Doing(w, d)
        /\ \A d \in Colony : Receipted(d)' <=> Receipted(d)
    BY <1>4 DEF Doing, Receipted
  <2> QED BY <1>4, <1>7, <2>1, <2>2, <2>3 DEF IInv, BackfillInv, Worker
<1>11. QueueInv'
  <2>1. \A i \in 1..Len(queue) : queue[i].colony # c /\ queue[i].colony \in Colony
    BY <1>5, QueueType DEF Unlearnt, Queued, IInv
  <2> SUFFICES ASSUME NEW i \in 1..Len(queue'), queue'[i].kind = "extraction"
               PROVE  /\ ~Receipted(queue'[i].colony)
                      /\ runs[queue'[i].colony] = 0
                      /\ ~Doing("drain", queue'[i].colony)
                      /\ \A j \in 1..Len(queue') :
                            (j # i /\ queue'[j].colony = queue'[i].colony)
                               => j > i /\ queue'[j].kind = "harvest"
    BY <1>4 DEF QueueInv, Receipted, Doing
  <2>2. CASE i <= Len(queue)
    <3>1. i \in 1..Len(queue) /\ queue'[i] = queue[i]
      BY <2>2, <1>2, <1>3
    <3>2. ASSUME NEW j \in 1..Len(queue'), j # i, queue'[j].colony = queue'[i].colony
          PROVE  j > i /\ queue'[j].kind = "harvest"
      <4>1. CASE j <= Len(queue)
        <5>1. j \in 1..Len(queue) /\ queue'[j] = queue[j]
          BY <4>1, <1>2, <1>3
        <5> QED BY <5>1, <3>1, <3>2 DEF IInv, QueueInv
      <4>2. CASE ~(j <= Len(queue))
        <5>1. j - Len(queue) \in 1..Len(D) /\ queue'[j] = D[j - Len(queue)]
          BY <4>2, <1>2, <1>3
        <5> QED BY <5>1, <3>1, <3>2, <2>1, <1>1
      <4> QED BY <4>1, <4>2
    <3> QED BY <3>1, <3>2 DEF IInv, QueueInv
  <2>3. CASE ~(i <= Len(queue))
    <3>1. i - Len(queue) \in 1..Len(D) /\ queue'[i] = D[i - Len(queue)]
      BY <2>3, <1>2, <1>3
    <3>2. queue'[i].colony = c /\ i = Len(queue) + 1
      BY <3>1, <1>1, <1>3
    <3>3. ~Receipted(c) /\ runs[c] = 0 /\ ~Doing("drain", c)
      BY <1>5 DEF Unlearnt, Worker
    <3>4. ASSUME NEW j \in 1..Len(queue'), j # i, queue'[j].colony = c
          PROVE  j > i /\ queue'[j].kind = "harvest"
      <4>1. ~(j <= Len(queue))
        BY <3>4, <2>1, <1>2, <1>3
      <4>2. /\ j - Len(queue) \in 1..Len(D) /\ queue'[j] = D[j - Len(queue)]
            /\ j - Len(queue) > 1
        BY <4>1, <3>2, <3>4, <1>2, <1>3
      <4> QED BY <4>2, <3>2, <1>1, <1>3
    <3> QED BY <3>2, <3>3, <3>4
  <2> QED BY <2>2, <2>3
<1>12. DrainInv' /\ PlaceInv' /\ OnceInv'
  BY <1>4 DEF IInv, DrainInv, PlaceInv, OnceInv, RunsPerLife, Doing, Receipted
<1> QED BY <1>8, <1>9, <1>10, <1>11, <1>12 DEF IInv

LEMMA DrainTakesInv ==
    ASSUME IInv, TypeOK', DrainTakes
    PROVE  IInv'
<1> DEFINE h == Head(queue)
<1>1. /\ queue # <<>> /\ queue \in Seq(Work) /\ Len(queue) \in Nat
      /\ 1 \in 1..Len(queue) /\ h = queue[1] /\ h \in Work
      /\ h.colony \in Colony /\ h.kind \in Kind
  <2>1. queue # <<>> /\ queue \in Seq(Work)
    BY DEF DrainTakes, MayDrain, IInv, TypeOK
  <2>2. Len(queue) \in Nat /\ 1 \in 1..Len(queue)
    BY <2>1, EmptySeq
  <2>3. h = queue[1]
    BY <2>1
  <2> QED BY <2>1, <2>2, <2>3, QueueType DEF IInv
<1>2. /\ Len(queue') = Len(queue) - 1
      /\ \A i \in 1..Len(queue') : queue'[i] = queue[i + 1]
  BY <1>1, HeadTailProperties DEF DrainTakes
<1>3. /\ job' = [job EXCEPT !["drain"] = [work |-> h, at |-> "asking"]]
      /\ runs' = [runs EXCEPT ![h.colony] = IF h.kind = "extraction" THEN @ + 1 ELSE @]
      /\ job["drain"] = Idle
  BY DEF DrainTakes, Begin
<1> HIDE DEF h
<1>4. UNCHANGED <<status, receipts, loop, todo, up>>
  BY DEF DrainTakes, stored
<1>5. /\ job'["drain"] # Idle /\ job'["drain"].work = h /\ job'["drain"].at = "asking"
      /\ job'["backfill"] = job["backfill"]
  BY <1>3 DEF IInv, TypeOK, Worker, Idle
<1>6. \A d \in Colony : /\ ~Doing("drain", d)
                        /\ Doing("drain", d)' <=> d = h.colony
                        /\ Doing("backfill", d)' <=> Doing("backfill", d)
                        /\ Receipted(d)' <=> Receipted(d)
  BY <1>3, <1>4, <1>5, <1>1 DEF Doing, Receipted
<1>7. \A d \in Colony : Queued(d)' => Queued(d)
  <2> SUFFICES ASSUME NEW d \in Colony,
                      NEW i \in 1..Len(queue'), queue'[i].colony = d
               PROVE  Queued(d)
    BY DEF Queued
  <2>1. i + 1 \in 1..Len(queue) /\ queue[i + 1].colony = d
    BY <1>1, <1>2
  <2> QED BY <2>1 DEF Queued
<1>8. Queued(h.colony)
  BY <1>1 DEF Queued
<1>9. \A d \in Colony : d # h.colony => runs'[d] = runs[d]
  BY <1>1, <1>3 DEF IInv, TypeOK
<1>10. DownInv'
  BY <1>1, <1>4 DEF IInv, DownInv
<1>11. FreshInv'
  <2>1. \A d \in Colony : Unlearnt(d) => d # h.colony
    BY <1>8 DEF Unlearnt
  <2>2. \A d \in Colony : Unlearnt(d) => Unlearnt(d)'
    BY <2>1, <1>4, <1>6, <1>7, <1>9 DEF Unlearnt, Worker
  <2> QED BY <2>2, <1>4 DEF IInv, FreshInv
<1>12. BackfillInv'
  <2>1. \A d \in todo : d \in Colony /\ d # h.colony
    BY <1>8 DEF IInv, BackfillInv, TypeOK
  <2>2. \A d \in Colony : Doing("backfill", d) => d # h.colony
    BY <1>8 DEF IInv, BackfillInv
  <2> QED BY <2>1, <2>2, <1>4, <1>5, <1>6, <1>7, <1>9 DEF IInv, BackfillInv, Worker
<1>13. QueueInv'
  <2>0. \A i \in 1..Len(queue') : queue'[i].colony \in Colony
    <3> SUFFICES ASSUME NEW i \in 1..Len(queue') PROVE queue'[i].colony \in Colony
      OBVIOUS
    <3>1. i + 1 \in 1..Len(queue) /\ queue'[i] = queue[i + 1]
      BY <1>1, <1>2
    <3> QED BY <3>1, QueueType DEF IInv
  <2> SUFFICES ASSUME NEW d \in Colony, NEW i \in 1..Len(queue'),
                      queue'[i].kind = "extraction", queue'[i].colony = d
               PROVE  /\ ~Receipted(d)'
                      /\ runs'[d] = 0
                      /\ ~Doing("drain", d)'
                      /\ \A j \in 1..Len(queue') :
                            (j # i /\ queue'[j].colony = d)
                               => j > i /\ queue'[j].kind = "harvest"
    BY <2>0 DEF QueueInv
  <2>1. i + 1 \in 1..Len(queue) /\ queue'[i] = queue[i + 1] /\ 1 # i + 1 /\ ~(1 > i + 1)
    BY <1>1, <1>2
  <2>2. d # h.colony
    BY <2>1, <1>1 DEF IInv, QueueInv
  <2>3. ~Receipted(d) /\ runs[d] = 0
    BY <2>1 DEF IInv, QueueInv
  <2>4. ASSUME NEW j \in 1..Len(queue'), j # i, queue'[j].colony = d
        PROVE  j > i /\ queue'[j].kind = "harvest"
    <3>1. j + 1 \in 1..Len(queue) /\ queue'[j] = queue[j + 1] /\ j + 1 # i + 1
      BY <2>4, <1>1, <1>2
    <3>2. j + 1 > i + 1 /\ queue[j + 1].kind = "harvest"
      BY <3>1, <2>1, <2>4 DEF IInv, QueueInv
    <3> QED BY <3>1, <3>2, <1>1, <1>2
  <2> QED BY <2>2, <2>3, <2>4, <1>6, <1>9
<1>14. DrainInv'
  BY <1>1, <1>5, <1>6 DEF IInv, DrainInv, QueueInv
<1>15. PlaceInv'
  BY <1>5 DEF IInv, PlaceInv, Worker
<1>16. OnceInv'
  <2>1. runs'[h.colony] <= 1
    BY <1>1, <1>3 DEF IInv, QueueInv, OnceInv, RunsPerLife, TypeOK
  <2> QED BY <2>1, <1>9 DEF IInv, OnceInv, RunsPerLife
<1> QED BY <1>10, <1>11, <1>12, <1>13, <1>14, <1>15, <1>16 DEF IInv

LEMMA BackfillTakesInv ==
    ASSUME IInv, TypeOK', NEW c \in Colony, BackfillTakes(c)
    PROVE  IInv'
<1>1. /\ job' = [job EXCEPT !["backfill"] = [work |-> BackfillItem(c), at |-> "asking"]]
      /\ runs' = [runs EXCEPT ![c] = @ + 1]
      /\ job["backfill"] = Idle /\ c \in todo /\ todo' = todo \ {c}
      /\ BackfillItem(c).colony = c /\ BackfillItem(c).kind = "extraction"
  BY DEF BackfillTakes, Begin, BackfillItem
<1>2. UNCHANGED <<status, receipts, loop, queue, up>>
  BY DEF BackfillTakes, stored
<1>3. /\ job'["backfill"] # Idle /\ job'["backfill"].work = BackfillItem(c)
      /\ job'["backfill"].at = "asking"
      /\ job'["drain"] = job["drain"]
  BY <1>1 DEF IInv, TypeOK, Worker, Idle
<1>4. \A d \in Colony : /\ ~Doing("backfill", d)
                        /\ Doing("backfill", d)' <=> d = c
                        /\ Doing("drain", d)' <=> Doing("drain", d)
                        /\ Receipted(d)' <=> Receipted(d)
                        /\ Queued(d)' <=> Queued(d)
  BY <1>1, <1>2, <1>3 DEF Doing, Receipted, Queued
<1>5. runs'[c] = 1 /\ \A d \in Colony : d # c => runs'[d] = runs[d]
  BY <1>1 DEF IInv, TypeOK, BackfillInv
<1>6. ~Receipted(c) /\ ~Queued(c) /\ ~Doing("drain", c)
  BY <1>1 DEF IInv, BackfillInv, Worker
<1>7. DownInv'
  BY <1>1, <1>2 DEF IInv, DownInv
<1>8. FreshInv'
  <2>1. \A d \in Colony : Unlearnt(d) => d # c
    BY <1>1 DEF Unlearnt
  <2>2. \A d \in Colony : Unlearnt(d) => Unlearnt(d)'
    BY <2>1, <1>1, <1>4, <1>5 DEF Unlearnt, Worker
  <2> QED BY <2>2, <1>2 DEF IInv, FreshInv
<1>9. BackfillInv'
  <2>1. \A d \in todo' : d \in Colony /\ d # c /\ d \in todo
    BY <1>1 DEF IInv, TypeOK
  <2> QED BY <2>1, <1>1, <1>3, <1>4, <1>5, <1>6 DEF IInv, BackfillInv, Worker
<1>10. QueueInv'
  <2>1. \A i \in 1..Len(queue) : queue[i].colony \in Colony /\ queue[i].colony # c
    BY <1>6, QueueType DEF Queued, IInv
  <2> QED BY <2>1, <1>2, <1>3, <1>5 DEF IInv, QueueInv, Receipted, Doing
<1>11. DrainInv'
  BY <1>3, <1>4 DEF IInv, DrainInv
<1>12. PlaceInv'
  BY <1>3 DEF IInv, PlaceInv, Worker
<1>13. OnceInv'
  BY <1>5 DEF IInv, OnceInv, RunsPerLife
<1> QED BY <1>7, <1>8, <1>9, <1>10, <1>11, <1>12, <1>13 DEF IInv

(* A step of a job gives nobody work, and only the colony it is about may   *)
(* get a receipt, when the job ends.                                        *)
LEMMA JobShape ==
    ASSUME IInv, NEW w \in Worker, JobStep(w)
    PROVE  /\ job[w] # Idle /\ job[w].work \in Work
           /\ \A v \in Worker : v # w => job'[v] = job[v]
           /\ \/ job'[w] = Idle
              \/ /\ job'[w] # Idle /\ job'[w].work = job[w].work
                 /\ (job'[w].at \in {"creating", "verifying"}
                       => job[w].work.kind = "extraction")
           /\ \/ receipts' = receipts
              \/ /\ job'[w] = Idle
                 /\ receipts' = receipts \cup
                       {<<job[w].work.colony, job[w].work.kind>>}
<1>1. job[w] # Idle /\ job[w] \in Job /\ job[w].work \in Work
  BY AtType DEF JobStep, Answer, Create, Verify, Confirm, Raise, Place, IInv,
               TypeOK, Job
<1>2. ASSUME NEW p \in Place, Goto(w, p)
      PROVE  /\ \A v \in Worker : v # w => job'[v] = job[v]
             /\ job'[w] # Idle /\ job'[w].work = job[w].work /\ job'[w].at = p
  <2>1. job' = [job EXCEPT ![w] = [job[w] EXCEPT !.at = p]]
    BY <1>2 DEF Goto
  <2>2. job'[w] = [job[w] EXCEPT !.at = p]
    BY <2>1 DEF IInv, TypeOK
  <2> QED BY <1>1, <2>1, <2>2 DEF IInv, TypeOK, Job, Idle, Place
<1>3. ASSUME EndJob(w)
      PROVE  job'[w] = Idle /\ \A v \in Worker : v # w => job'[v] = job[v]
  BY <1>3 DEF EndJob, IInv, TypeOK
<1>4. CASE Answer(w)
  BY <1>1, <1>2, <1>3, <1>4 DEF Answer, Place
<1>5. CASE Create(w)
  BY <1>1, <1>2, <1>5 DEF Create, Place, AfterCreation, At, IInv, PlaceInv
<1>6. CASE Verify(w)
  BY <1>1, <1>2, <1>6 DEF Verify, Place
<1>7. CASE Confirm(w)
  BY <1>1, <1>3, <1>7 DEF Confirm
<1>8. CASE Raise(w)
  BY <1>1, <1>3, <1>8 DEF Raise
<1> QED BY <1>4, <1>5, <1>6, <1>7, <1>8 DEF JobStep

LEMMA JobInv ==
    ASSUME IInv, TypeOK', NEW w \in Worker, JobStep(w)
    PROVE  IInv'
<1> DEFINE c == job[w].work.colony
<1>1. UNCHANGED <<status, up, loop, queue, todo, runs>>
  BY DEF JobStep, Answer, Create, Verify, Confirm, Raise, JobFrame, history
<1>2. c \in Colony /\ Doing(w, c) /\ job[w] # Idle
  BY JobShape DEF Work, Doing
<1>3. \A d \in Colony : \A v \in Worker : Doing(v, d)' => Doing(v, d)
  BY JobShape DEF Doing
<1>4. \A d \in Colony : Receipted(d)' => Receipted(d) \/ (d = c /\ job'[w] = Idle)
  BY JobShape DEF Receipted
<1>5. \A v \in Worker : job'[v] # Idle =>
         /\ job[v] # Idle /\ job'[v].work = job[v].work
         /\ (v = w => ~\E d \in Colony : Receipted(d)' /\ ~Receipted(d))
  BY <1>4, JobShape
<1> HIDE DEF c
<1>6. DownInv'
  <2>1. up
    BY <1>2 DEF IInv, DownInv
  <2> QED BY <2>1, <1>1 DEF DownInv
<1>7. FreshInv'
  <2>1. \A d \in Colony : Unlearnt(d) => d # c
    BY <1>2 DEF Unlearnt
  <2>2. \A d \in Colony : Unlearnt(d) => Unlearnt(d)'
    BY <2>1, <1>1, <1>3, <1>4 DEF Unlearnt, Queued
  <2> QED BY <2>2, <1>1 DEF IInv, FreshInv
<1>8. \A d \in Colony : Queued(d)' <=> Queued(d)
  BY <1>1 DEF Queued
<1>9. BackfillInv'
  <2>1. \A d \in todo : d \in Colony /\ d # c
    BY <1>2 DEF IInv, BackfillInv, TypeOK
  <2>2. ASSUME NEW d \in Colony, Doing("backfill", d)'
        PROVE  /\ Doing("backfill", d) /\ ~Receipted(d)'
               /\ job'["backfill"].work = job["backfill"].work
    <3>1. Doing("backfill", d) /\ job'["backfill"] # Idle
      BY <2>2, <1>3 DEF Doing, Worker
    <3>2. ~Receipted(d) /\ ~Doing("drain", d)
      BY <3>1 DEF IInv, BackfillInv
    <3>3. CASE w = "backfill"
      BY <3>1, <3>2, <3>3, <1>5 DEF Worker
    <3>4. CASE w = "drain"
      BY <3>1, <3>2, <3>4, <1>2, <1>4, <1>5 DEF Worker
    <3> QED BY <3>3, <3>4 DEF Worker
  <2> QED BY <2>1, <2>2, <1>1, <1>3, <1>4, <1>8 DEF IInv, BackfillInv, Worker
<1>10. QueueInv'
  <2>1. ASSUME NEW i \in 1..Len(queue), queue[i].kind = "extraction"
        PROVE  queue[i].colony \in Colony /\ queue[i].colony # c
    <3>1. CASE w = "drain"
      BY <2>1, <3>1, <1>2, QueueType DEF IInv, QueueInv
    <3>2. CASE w = "backfill"
      BY <2>1, <3>2, <1>2, QueueType DEF IInv, BackfillInv, Queued
    <3> QED BY <3>1, <3>2 DEF Worker
  <2>2. \A d \in Colony : d # c =>
           /\ (~Receipted(d) => ~Receipted(d)')
           /\ (~Doing("drain", d) => ~Doing("drain", d)')
    BY <1>3, <1>4 DEF Worker
  <2> SUFFICES ASSUME NEW d \in Colony, NEW i \in 1..Len(queue),
                      queue[i].kind = "extraction", queue[i].colony = d
               PROVE  /\ ~Receipted(d)'
                      /\ runs[d] = 0
                      /\ ~Doing("drain", d)'
                      /\ \A j \in 1..Len(queue) :
                            (j # i /\ queue[j].colony = d)
                               => j > i /\ queue[j].kind = "harvest"
    BY <2>1, <1>1 DEF QueueInv
  <2> QED BY <2>1, <2>2 DEF IInv, QueueInv
<1>11. DrainInv'
  <2> SUFFICES ASSUME NEW d \in Colony, Doing("drain", d)',
                      job'["drain"].work.kind = "extraction"
               PROVE  ~Receipted(d)'
    BY DEF DrainInv
  <2>1. Doing("drain", d) /\ job'["drain"] # Idle
    BY <1>3 DEF Doing, Worker
  <2>2. ~Receipted(d)
    BY <2>1, <1>5 DEF IInv, DrainInv, Worker
  <2>3. CASE w = "drain"
    BY <2>1, <2>2, <2>3, <1>5 DEF Worker
  <2>4. CASE w = "backfill"
    BY <2>1, <2>2, <2>4, <1>2, <1>4 DEF IInv, BackfillInv
  <2> QED BY <2>3, <2>4 DEF Worker
<1>12. PlaceInv'
  <2>1. \A v \in Worker : v # w => job'[v] = job[v]
    BY JobShape
  <2>2. job'[w].at \in {"creating", "verifying"} => job'[w].work.kind = "extraction"
    BY JobShape DEF Idle
  <2> QED BY <2>1, <2>2 DEF IInv, PlaceInv
<1>13. OnceInv'
  BY <1>1 DEF IInv, OnceInv, RunsPerLife
<1> QED BY <1>6, <1>7, <1>9, <1>10, <1>11, <1>12, <1>13 DEF IInv

LEMMA CrashInv ==
    ASSUME IInv, TypeOK', Crash
    PROVE  IInv'
<1>1. /\ up' = FALSE /\ queue' = <<>> /\ Len(queue') = 0 /\ todo' = {}
      /\ job' = [w \in Worker |-> Idle] /\ loop' = [c \in Colony |-> "none"]
      /\ runs' = [c \in Colony |-> 0]
      /\ receipts' = receipts /\ status' = status
  BY DEF Crash, stored
<1>2. \A c \in Colony : Unlearnt(c) => Unlearnt(c)'
  BY <1>1 DEF Unlearnt, Receipted, Queued, Doing
<1>3. FreshInv'
  BY <1>1, <1>2 DEF IInv, FreshInv, Verdict
<1>4. DownInv' /\ BackfillInv' /\ QueueInv' /\ DrainInv'
  BY <1>1 DEF DownInv, BackfillInv, QueueInv, DrainInv, Doing, Worker
<1>5. PlaceInv' /\ OnceInv'
  BY <1>1 DEF PlaceInv, OnceInv, RunsPerLife, Idle
<1> QED BY <1>3, <1>4, <1>5 DEF IInv

LEMMA RestartInv ==
    ASSUME IInv, TypeOK', Restart
    PROVE  IInv'
<1>1. /\ queue = <<>> /\ Len(queue) = 0
      /\ \A w \in Worker : job[w] = Idle
      /\ \A c \in Colony : runs[c] = 0
  BY DEF Restart, IInv, DownInv
<1>2. /\ up' = TRUE /\ todo' \subseteq Missing
      /\ \A c \in Colony :
            loop'[c] = IF status[c] = "running" THEN "rounds" ELSE "none"
      /\ UNCHANGED <<queue, job, runs, receipts, status>>
  BY DEF Restart, stored, history
<1>3. FreshInv'
  <2>1. \A c \in Colony : Unlearnt(c) /\ status[c] \notin Verdict => Unlearnt(c)'
    BY <1>2 DEF Unlearnt, Receipted, Queued, Doing, Missing
  <2> QED BY <1>2, <2>1 DEF IInv, FreshInv, Verdict
<1>4. DownInv' /\ QueueInv' /\ DrainInv'
  BY <1>1, <1>2 DEF DownInv, QueueInv, DrainInv, Doing, Worker
<1>5. BackfillInv'
  BY <1>1, <1>2 DEF BackfillInv, Missing, Receipted, Queued, Doing, Worker
<1>6. PlaceInv' /\ OnceInv'
  BY <1>1, <1>2 DEF IInv, PlaceInv, OnceInv, RunsPerLife
<1> QED BY <1>3, <1>4, <1>5, <1>6 DEF IInv

LEMMA StutterInv ==
    ASSUME IInv, TypeOK', UNCHANGED vars
    PROVE  IInv'
<1>1. UNCHANGED <<status, receipts, up, loop, queue, todo, job, runs>>
  BY DEF vars, stored, work, history
<1>2. /\ BackfillInv' /\ QueueInv' /\ DrainInv' /\ PlaceInv' /\ OnceInv'
      /\ \A c \in Colony : Unlearnt(c) => Unlearnt(c)'
  BY <1>1, NothingOwed
<1>3. FreshInv' /\ DownInv'
  BY <1>1, <1>2 DEF IInv, FreshInv, DownInv
<1> QED BY <1>2, <1>3 DEF IInv

LEMMA StepInv == IInv /\ [Next]_vars => IInv'
<1> SUFFICES ASSUME IInv, [Next]_vars PROVE IInv'
  OBVIOUS
<1>1. TypeOK'
  BY TypeStep DEF IInv
<1>2. ASSUME NEW c \in Colony, LoopStep(c) \/ SpawnColony(c) \/ KillColony(c)
                                  \/ ActivateService(c)
      PROVE  IInv'
  BY <1>1, <1>2, LoopInv, HooksInv DEF LoopStep
<1>3. ASSUME NEW c \in Colony, BackfillTakes(c) PROVE IInv'
  BY <1>1, <1>3, BackfillTakesInv
<1>4. ASSUME DrainTakes PROVE IInv'
  BY <1>1, <1>4, DrainTakesInv
<1>5. ASSUME NEW w \in Worker, JobStep(w) PROVE IInv'
  BY <1>1, <1>5, JobInv
<1>6. ASSUME Crash PROVE IInv'
  BY <1>1, <1>6, CrashInv
<1>7. ASSUME Restart PROVE IInv'
  BY <1>1, <1>7, RestartInv
<1> QED BY <1>1, <1>2, <1>3, <1>4, <1>5, <1>6, <1>7, StutterInv DEF Next

LEMMA Invariance == Spec => []IInv
<1>1. Init => IInv
  BY InitInv
<1> QED BY <1>1, StepInv, PTL DEF Spec

-----------------------------------------------------------------------------
(* Theorems.                                                                *)

(* However hooks, backfills, kills and rehydrations interleave, a colony is *)
(* extracted at most once between two crashes (app.py:561).                 *)
THEOREM OncePerLife == Spec => []RunsPerLife
<1>1. IInv => RunsPerLife
  BY DEF IInv, OnceInv
<1> QED BY <1>1, Invariance, PTL

LEMMA FinalStep ==
    ASSUME IInv, [Next]_vars, NEW c \in Colony, Receipted(c)
    PROVE  runs'[c] <= runs[c] /\ entry'[c] = entry[c]
<1> USE DEF IInv, TypeOK
<1>1. ASSUME NEW d \in Colony,
             LoopStep(d) \/ SpawnColony(d) \/ KillColony(d) \/ ActivateService(d)
      PROVE  UNCHANGED <<runs, entry>>
  BY <1>1 DEF LoopStep, SpawnColony, KillColony, ActivateService, Settle,
              LoopDies, PostColonyHooks, TaskDone, Command, stored, history
<1>2. ASSUME NEW d \in Colony, BackfillTakes(d)
      PROVE  runs'[c] = runs[c] /\ entry' = entry
  <2>1. d # c
    BY <1>2 DEF BackfillTakes, BackfillInv
  <2> QED BY <1>2, <2>1 DEF BackfillTakes, Begin, BackfillItem, stored
<1>3. ASSUME DrainTakes
      PROVE  runs'[c] = runs[c] /\ entry' = entry
  <2>1. 1 \in 1..Len(queue) /\ Head(queue) = queue[1]
    BY <1>3, EmptySeq DEF DrainTakes, MayDrain
  <2>2. Head(queue).kind = "extraction" => Head(queue).colony # c
    BY <2>1 DEF QueueInv
  <2> QED BY <1>3, <2>2 DEF DrainTakes, Begin, stored
<1>4. ASSUME NEW w \in Worker, JobStep(w)
      PROVE  runs'[c] = runs[c] /\ entry'[c] = entry[c]
  <2>1. job[w] # Idle /\ job[w].work \in Work
    BY <1>4, JobShape
  <2>2. job[w].work.kind = "extraction" => job[w].work.colony # c
    BY <2>1 DEF DrainInv, BackfillInv, Doing, Worker
  <2>3. At(w, "creating") \/ At(w, "verifying") => job[w].work.colony # c
    BY <2>2 DEF PlaceInv, At
  <2> QED BY <1>4, <2>1, <2>3
          DEF JobStep, Answer, Create, Verify, Confirm, Raise, history
<1>5. ASSUME Crash \/ Restart
      PROVE  runs'[c] <= runs[c] /\ entry' = entry
  BY <1>5 DEF Crash, Restart, stored, history
<1>6. ASSUME UNCHANGED vars
      PROVE  UNCHANGED <<runs, entry>>
  BY <1>6 DEF vars, stored, history
<1> QED BY <1>1, <1>2, <1>3, <1>4, <1>5, <1>6 DEF Next

(* Once a receipt of the colony is in the store nothing extracts it again   *)
(* or writes over the entry it left, across crashes too (app.py:565).       *)
THEOREM Finality == Spec => ReceiptIsFinal
<1>1. IInv /\ [Next]_vars =>
         [\A c \in Colony : Receipted(c) => /\ runs'[c] <= runs[c]
                                            /\ entry'[c] = entry[c]]_vars
  BY FinalStep
<1> QED BY <1>1, Invariance, PTL DEF Spec, ReceiptIsFinal

(* No step of the drain or the backfill begins work while a colony is in    *)
(* its rounds (colony_manager.py:501, app.py:586).                          *)
THEOREM Yielding == Spec => WorkYields
<1>1. ASSUME IInv, [Next]_vars, NEW w \in Worker, job[w] = Idle, job'[w] # Idle
      PROVE  ~\E c \in Colony : status[c] = "running" /\ loop[c] # "none"
  <2>1. ASSUME NEW v \in Worker, JobStep(v) PROVE job'[w] = job[w] \/ job'[w] = Idle
    BY <1>1, <2>1, JobShape
  <2>2. ASSUME NEW c \in Colony, LoopStep(c) \/ SpawnColony(c) \/ KillColony(c)
                                   \/ ActivateService(c)
        PROVE  job' = job
    BY <2>2 DEF LoopStep, SpawnColony, KillColony, ActivateService, Settle,
                LoopDies, PostColonyHooks, TaskDone, LoopEnds, work
  <2>3. ASSUME Crash \/ Restart \/ UNCHANGED vars
        PROVE  job'[w] = Idle
    BY <1>1, <2>3 DEF Crash, Restart, vars, work
  <2>4. DrainTakes \/ \E c \in Colony : BackfillTakes(c)
    BY <1>1, <2>1, <2>2, <2>3 DEF Next
  <2> QED BY <2>4 DEF DrainTakes, MayDrain, Live, BackfillTakes
<1>2. IInv /\ [Next]_vars =>
         [\A w \in Worker : (job[w] = Idle /\ job'[w] # Idle)
            => ~\E c \in Colony : status[c] = "running" /\ loop[c] # "none"]_vars
  BY <1>1
<1> QED BY <1>2, Invariance, PTL DEF Spec, WorkYields

(* A status that turns to "failed" belongs to a colony nothing works for.   *)
LEMMA FailsFresh ==
    ASSUME IInv, [Next]_vars, NEW c \in Colony,
           status'[c] = "failed", status[c] # "failed"
    PROVE  Settle(c) /\ status[c] = "running" /\ Unlearnt(c)
<1> USE DEF IInv, TypeOK
<1>1. \E d \in Colony : Settle(d) /\ status'[d] = "failed"
                        /\ \A e \in Colony : e # d => status'[e] = status[e]
  <2>1. ASSUME NEW d \in Colony, Settle(d)
        PROVE  \A e \in Colony : e # d => status'[e] = status[e]
    BY <2>1 DEF Settle
  <2>2. ASSUME NEW d \in Colony,
               \/ SpawnColony(d) \/ LoopDies(d) \/ PostColonyHooks(d)
               \/ TaskDone(d) \/ KillColony(d) \/ ActivateService(d)
               \/ BackfillTakes(d)
        PROVE  FALSE
    BY <2>2 DEF SpawnColony, LoopDies, PostColonyHooks, TaskDone, KillColony,
                ActivateService, Command, BackfillTakes, stored
  <2>3. ASSUME NEW w \in Worker, JobStep(w) PROVE FALSE
    BY <2>3 DEF JobStep, Answer, Create, Verify, Confirm, Raise, JobFrame
  <2>4. ASSUME DrainTakes \/ Crash \/ Restart \/ UNCHANGED vars PROVE FALSE
    BY <2>4 DEF DrainTakes, Crash, Restart, vars, stored
  <2>5. \E d \in Colony : Settle(d)
    BY <2>2, <2>3, <2>4 DEF Next, LoopStep
  <2> QED BY <2>1, <2>5
<1>2. Settle(c)
  BY <1>1
<1> QED BY <1>2 DEF Settle, FreshInv

(* The parts of VerdictInv, each with what can disturb it.                  *)
Fresh(c) == status[c] \in {"absent", "running"} \/ loop[c] \in Verdict

LEMMA VerdictStays ==
    ASSUME IInv, [Next]_vars, NEW c \in Colony, status[c] # "failed", ~Unlearnt(c)
    PROVE  status'[c] # "failed"
BY FailsFresh

(* A colony that is fresh after a step was fresh before it, and the step    *)
(* left its entry alone.                                                    *)
LEMMA FreshBefore ==
    ASSUME IInv, [Next]_vars, NEW c \in Colony, Fresh(c)'
    PROVE  Fresh(c) /\ entry'[c] = entry[c]
<1> USE DEF IInv, TypeOK, Fresh
<1>1. ASSUME NEW d \in Colony,
             SpawnColony(d) \/ KillColony(d) \/ ActivateService(d)
      PROVE  Fresh(c) /\ entry' = entry
  BY <1>1 DEF SpawnColony, KillColony, ActivateService, Command, LoopEnds, work,
              Verdict
<1>2. ASSUME NEW d \in Colony, LoopStep(d)
      PROVE  Fresh(c) /\ entry' = entry
  <2>1. CASE Settle(d)
    BY <2>1 DEF Settle, LoopEnds, FreshInv, Verdict
  <2>2. CASE LoopDies(d) \/ TaskDone(d)
    BY <2>2 DEF LoopDies, TaskDone, LoopEnds, stored, Verdict
  <2>3. CASE PostColonyHooks(d)
    BY <2>3 DEF PostColonyHooks, stored, Verdict
  <2> QED BY <1>2, <2>1, <2>2, <2>3 DEF LoopStep
<1>3. ASSUME DrainTakes \/ \E d \in Colony : BackfillTakes(d)
      PROVE  Fresh(c) /\ entry' = entry
  BY <1>3 DEF DrainTakes, BackfillTakes, stored
<1>4. ASSUME NEW w \in Worker, JobStep(w)
      PROVE  Fresh(c) /\ entry'[c] = entry[c]
  <2>1. Fresh(c)
    BY <1>4 DEF JobStep, Answer, Create, Verify, Confirm, Raise, JobFrame
  <2>2. job[w].work \in Work /\ job[w].work.colony # c
    BY <1>4, <2>1, JobShape DEF FreshInv, Unlearnt, Doing
  <2> QED BY <1>4, <2>1, <2>2
          DEF JobStep, Answer, Create, Verify, Confirm, Raise, Work
<1>5. ASSUME Crash \/ Restart
      PROVE  Fresh(c) /\ entry' = entry
  BY <1>5 DEF Crash, Restart, stored, Verdict
<1>6. ASSUME UNCHANGED vars
      PROVE  Fresh(c) /\ entry' = entry
  BY <1>6 DEF vars, stored
<1> QED BY <1>1, <1>2, <1>3, <1>4, <1>5, <1>6 DEF Next

(* A loop gets the verdict "completed" with its colony, and what else there *)
(* is with a verdict was there before the step, or took it from the loop or *)
(* from the status.                                                         *)
LEMMA CompletedLoop ==
    ASSUME IInv, [Next]_vars, NEW c \in Colony, loop'[c] = "completed"
    PROVE  loop[c] = "completed" \/ status'[c] = "completed"
<1> USE DEF IInv, TypeOK
<1>1. ASSUME NEW d \in Colony,
             SpawnColony(d) \/ KillColony(d) \/ ActivateService(d)
      PROVE  loop[c] = "completed"
  BY <1>1 DEF SpawnColony, KillColony, ActivateService, Command, LoopEnds
<1>2. ASSUME NEW d \in Colony, LoopStep(d)
      PROVE  loop[c] = "completed" \/ status'[c] = "completed"
  BY <1>2 DEF LoopStep, Settle, LoopDies, TaskDone, PostColonyHooks, LoopEnds
<1>3. ASSUME NEW w \in Worker, JobStep(w)
      PROVE  loop' = loop
  BY <1>3 DEF JobStep, Answer, Create, Verify, Confirm, Raise, JobFrame
<1>4. ASSUME \/ DrainTakes \/ (\E d \in Colony : BackfillTakes(d))
             \/ Crash \/ Restart \/ UNCHANGED vars
      PROVE  loop[c] = "completed"
  BY <1>4 DEF DrainTakes, BackfillTakes, Crash, Restart, vars
<1> QED BY <1>1, <1>2, <1>3, <1>4 DEF Next

LEMMA QueuedWork ==
    ASSUME IInv, [Next]_vars, NEW i \in 1..Len(queue')
    PROVE  \/ \E j \in 1..Len(queue) : queue'[i] = queue[j]
           \/ \E c \in Colony : /\ queue'[i].colony = c
                                 /\ queue'[i].verdict = loop[c]
                                 /\ UNCHANGED status
<1> USE DEF IInv, TypeOK
<1>1. ASSUME NEW c \in Colony, PostColonyHooks(c)
      PROVE  \/ \E j \in 1..Len(queue) : queue'[i] = queue[j]
             \/ /\ queue'[i].colony = c /\ queue'[i].verdict = loop[c]
                /\ UNCHANGED status
  <2> DEFINE D == Deferred(c, loop[c])
  <2>1. /\ D \in Seq(Work) /\ queue \in Seq(Work)
        /\ \A k \in 1..Len(D) : D[k].colony = c /\ D[k].verdict = loop[c]
    BY <1>1, DeferredShape DEF PostColonyHooks
  <2> HIDE DEF D
  <2>2. /\ Len(queue') = Len(queue) + Len(D)
        /\ queue'[i] = IF i <= Len(queue) THEN queue[i] ELSE D[i - Len(queue)]
    BY <1>1, <2>1, ConcatProperties DEF PostColonyHooks, D
  <2>3. Len(queue) \in Nat /\ Len(D) \in Nat
    BY <2>1, LenProperties
  <2>4. CASE i <= Len(queue)
    BY <2>2, <2>3, <2>4
  <2>5. CASE ~(i <= Len(queue))
    <3>1. i - Len(queue) \in 1..Len(D)
      BY <2>2, <2>3, <2>5
    <3> QED BY <3>1, <2>1, <2>2, <2>5, <1>1 DEF PostColonyHooks, stored
  <2> QED BY <2>4, <2>5
<1>2. ASSUME DrainTakes
      PROVE  \E j \in 1..Len(queue) : queue'[i] = queue[j]
  <2>1. queue # <<>> /\ queue \in Seq(Work) /\ queue' = Tail(queue)
    BY <1>2 DEF DrainTakes, MayDrain
  <2>2. /\ Len(queue) \in Nat /\ Len(queue') = Len(queue) - 1
        /\ queue'[i] = queue[i + 1]
    BY <2>1, HeadTailProperties, LenProperties
  <2>3. i + 1 \in 1..Len(queue)
    BY <2>2
  <2> QED BY <2>2, <2>3
<1>3. ASSUME NEW c \in Colony,
             \/ SpawnColony(c) \/ KillColony(c) \/ ActivateService(c)
             \/ Settle(c) \/ LoopDies(c) \/ TaskDone(c) \/ BackfillTakes(c)
      PROVE  queue' = queue
  BY <1>3 DEF SpawnColony, KillColony, ActivateService, Settle, LoopDies,
              TaskDone, BackfillTakes, LoopEnds, work
<1>4. ASSUME NEW w \in Worker, JobStep(w)
      PROVE  queue' = queue
  BY <1>4 DEF JobStep, Answer, Create, Verify, Confirm, Raise, JobFrame
<1>5. ASSUME Restart \/ UNCHANGED vars
      PROVE  queue' = queue
  BY <1>5 DEF Restart, vars, work
<1>6. ~Crash
  BY EmptySeq DEF Crash
<1> QED BY <1>1, <1>2, <1>3, <1>4, <1>5, <1>6 DEF Next, LoopStep

LEMMA JobWork ==
    ASSUME IInv, [Next]_vars, NEW w \in Worker, job'[w] # Idle
    PROVE  \/ job[w] # Idle /\ job'[w].work = job[w].work
           \/ /\ job'[w].at = "asking" /\ UNCHANGED status
              /\ \/ \E i \in 1..Len(queue) : job'[w].work = queue[i]
                 \/ \E c \in Colony : job'[w].work = BackfillItem(c)
<1> USE DEF IInv, TypeOK
<1>1. ASSUME NEW c \in Colony, LoopStep(c) \/ SpawnColony(c) \/ KillColony(c)
                                 \/ ActivateService(c)
      PROVE  job' = job
  BY <1>1 DEF LoopStep, SpawnColony, KillColony, ActivateService, Settle,
              LoopDies, PostColonyHooks, TaskDone, LoopEnds, work
<1>2. ASSUME NEW v \in Worker, JobStep(v)
      PROVE  job[w] # Idle /\ job'[w].work = job[w].work
  BY <1>2, JobShape
<1>3. ASSUME DrainTakes
      PROVE  \/ job' [w] = job[w]
             \/ /\ job'[w].at = "asking" /\ UNCHANGED status
                /\ \E i \in 1..Len(queue) : job'[w].work = queue[i]
  <2>1. 1 \in 1..Len(queue) /\ Head(queue) = queue[1]
    BY <1>3, EmptySeq DEF DrainTakes, MayDrain
  <2> QED BY <1>3, <2>1 DEF DrainTakes, Begin, stored
<1>4. ASSUME NEW c \in Colony, BackfillTakes(c)
      PROVE  \/ job'[w] = job[w]
             \/ /\ job'[w].at = "asking" /\ UNCHANGED status
                /\ job'[w].work = BackfillItem(c)
  BY <1>4 DEF BackfillTakes, Begin, stored
<1>5. ASSUME Restart \/ UNCHANGED vars
      PROVE  job' = job
  BY <1>5 DEF Restart, vars, work
<1>6. ~Crash
  BY DEF Crash
<1> QED BY <1>1, <1>2, <1>3, <1>4, <1>5, <1>6 DEF Next

LEMMA VerifyingWork ==
    ASSUME IInv, VerdictInv, [Next]_vars, NEW w \in Worker, At(w, "verifying")'
    PROVE  job'[w].work.verdict = "completed"
<1> USE DEF IInv, TypeOK, At
<1>1. CASE job'[w] = job[w]
  BY <1>1 DEF VerdictInv
<1>2. CASE job'[w] # job[w]
  <2>1. job'[w] # Idle
    BY DEF Idle
  <2>2. ASSUME NEW v \in Worker, JobStep(v)
        PROVE  job'[w].work.verdict = "completed"
    <3>1. v = w /\ job[w] # Idle /\ job[w] \in Job
      BY <1>2, <2>2, JobShape
    <3>2. Create(w)
      BY <2>1, <2>2, <3>1
         DEF JobStep, Answer, Verify, Confirm, Raise, Goto, EndJob, Job
    <3> QED BY <3>1, <3>2 DEF Create, AfterCreation, Goto, Job
  <2>3. ASSUME NEW c \in Colony, LoopStep(c) \/ SpawnColony(c) \/ KillColony(c)
                                   \/ ActivateService(c)
        PROVE  FALSE
    BY <1>2, <2>3 DEF LoopStep, SpawnColony, KillColony, ActivateService, Settle,
                LoopDies, PostColonyHooks, TaskDone, LoopEnds, work
  <2>4. ASSUME DrainTakes \/ \E c \in Colony : BackfillTakes(c)
        PROVE  FALSE
    BY <1>2, <2>4 DEF DrainTakes, BackfillTakes, Begin
  <2>5. ASSUME Crash \/ Restart \/ UNCHANGED vars
        PROVE  FALSE
    BY <1>2, <2>1, <2>5 DEF Crash, Restart, vars, work
  <2> QED BY <2>2, <2>3, <2>4, <2>5 DEF Next
<1> QED BY <1>1, <1>2

(* An entry becomes verified only by a job with the verdict "completed".    *)
LEMMA NewlyVerified ==
    ASSUME IInv, VerdictInv, [Next]_vars, NEW c \in Colony,
           entry'[c] = "verified"
    PROVE  \/ entry[c] = "verified"
           \/ status' = status /\ status[c] # "failed"
<1> USE DEF IInv, TypeOK
<1>1. ASSUME NEW w \in Worker, JobStep(w)
      PROVE  \/ entry[c] = "verified"
             \/ status' = status /\ status[c] # "failed"
  <2>1. job[w] # Idle /\ job[w].work \in Work
    BY <1>1, JobShape
  <2>2. CASE Verify(w)
    <3>1. status' = status /\ status[job[w].work.colony] # "failed"
      BY <2>1, <2>2 DEF Verify, JobFrame, VerdictInv
    <3> QED BY <2>1, <2>2, <3>1 DEF Verify, Work
  <2>3. CASE Create(w)
    BY <1>1, <2>1, <2>3 DEF Create, Work
  <2>4. CASE Answer(w) \/ Confirm(w) \/ Raise(w)
    BY <2>4 DEF Answer, Confirm, Raise
  <2> QED BY <1>1, <2>2, <2>3, <2>4 DEF JobStep
<1>2. ASSUME NEW d \in Colony, LoopStep(d) \/ SpawnColony(d) \/ KillColony(d)
                                 \/ ActivateService(d) \/ BackfillTakes(d)
      PROVE  entry' = entry
  BY <1>2 DEF LoopStep, SpawnColony, KillColony, ActivateService, Settle, LoopDies,
              PostColonyHooks, TaskDone, Command, BackfillTakes, stored
<1>3. ASSUME DrainTakes \/ Crash \/ Restart \/ UNCHANGED vars
      PROVE  entry' = entry
  BY <1>3 DEF DrainTakes, Crash, Restart, vars, stored
<1> QED BY <1>1, <1>2, <1>3 DEF Next

LEMMA VerdictStep ==
    ASSUME IInv, VerdictInv, FailureUnverified, [Next]_vars
    PROVE  VerdictInv' /\ FailureUnverified'
<1>1. ASSUME NEW c \in Colony, loop'[c] = "completed"
      PROVE  status'[c] # "failed"
  <2>1. CASE status'[c] = "completed"
    BY <2>1
  <2>2. CASE loop[c] = "completed"
    <3>1. status[c] # "failed"
      BY <2>2 DEF VerdictInv
    <3>2. ~Settle(c)
      BY <2>2 DEF Settle
    <3> QED BY <3>1, <3>2, FailsFresh
  <2> QED BY <1>1, <2>1, <2>2, CompletedLoop
<1>2. ASSUME NEW i \in 1..Len(queue), queue[i].verdict = "completed"
      PROVE  status'[queue[i].colony] # "failed"
  <2>1. queue[i].colony \in Colony /\ status[queue[i].colony] # "failed"
    BY <1>2, QueueType DEF IInv, VerdictInv
  <2>2. ~Unlearnt(queue[i].colony)
    BY DEF Unlearnt, Queued
  <2> QED BY <2>1, <2>2, VerdictStays
<1>3. ASSUME NEW i \in 1..Len(queue'), queue'[i].verdict = "completed"
      PROVE  status'[queue'[i].colony] # "failed"
  <2>1. CASE \E j \in 1..Len(queue) : queue'[i] = queue[j]
    BY <1>2, <1>3, <2>1
  <2>2. CASE \E c \in Colony : /\ queue'[i].colony = c
                              /\ queue'[i].verdict = loop[c]
                              /\ UNCHANGED status
    BY <1>3, <2>2 DEF VerdictInv
  <2> QED BY <2>1, <2>2, QueuedWork
<1>4. ASSUME NEW w \in Worker, job'[w] # Idle, job'[w].work.verdict = "completed"
      PROVE  status'[job'[w].work.colony] # "failed"
  <2>1. CASE job[w] # Idle /\ job'[w].work = job[w].work
    <3>1. /\ job[w].work.colony \in Colony
          /\ status[job[w].work.colony] # "failed"
      BY <1>4, <2>1 DEF IInv, TypeOK, VerdictInv, Job, Work
    <3>2. ~Unlearnt(job[w].work.colony)
      BY <2>1 DEF Unlearnt, Doing
    <3> QED BY <2>1, <3>1, <3>2, VerdictStays
  <2>2. CASE /\ UNCHANGED status
             /\ \E i \in 1..Len(queue) : job'[w].work = queue[i]
    BY <1>2, <1>4, <2>2
  <2>3. CASE /\ UNCHANGED status
             /\ \E c \in Colony : job'[w].work = BackfillItem(c)
    BY <1>4, <2>3 DEF BackfillItem
  <2> QED BY <1>4, <2>1, <2>2, <2>3, JobWork
<1>5. ASSUME NEW c \in Colony, Fresh(c)'
      PROVE  entry'[c] = "none"
  BY <1>5, FreshBefore DEF VerdictInv, Fresh
<1>6. VerdictInv'
  BY <1>1, <1>3, <1>4, <1>5, VerifyingWork DEF VerdictInv, Fresh
<1>7. ASSUME NEW c \in Colony, entry'[c] = "verified"
      PROVE  status'[c] # "failed"
  <2>1. CASE entry[c] = "verified"
    <3>1. status[c] # "failed" /\ status[c] # "running"
      BY <2>1 DEF FailureUnverified, VerdictInv
    <3> QED BY <3>1, FailsFresh
  <2>2. CASE status' = status /\ status[c] # "failed"
    BY <2>2
  <2> QED BY <1>7, <2>1, <2>2, NewlyVerified
<1>8. FailureUnverified'
  BY <1>7 DEF FailureUnverified
<1> QED BY <1>6, <1>8

(* The entry of a colony whose status is "failed" is never verified, through*)
(* crashes and backfills too: the verdict a job carries and the status a    *)
(* backfill reads cannot come to disagree (colony_manager.py:2591).         *)
THEOREM NeverVerified == Spec => []FailureUnverified
<1>1. Init => VerdictInv /\ FailureUnverified
  BY InitInv DEF Init, FailureUnverified
<1>2. IInv /\ (VerdictInv /\ FailureUnverified) /\ [Next]_vars
         => (VerdictInv /\ FailureUnverified)'
  BY VerdictStep
<1> QED BY <1>1, <1>2, Invariance, PTL DEF Spec
=============================================================================
