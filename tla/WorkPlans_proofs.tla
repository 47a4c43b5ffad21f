-------------------------- MODULE WorkPlans_proofs --------------------------
(***************************************************************************)
(* Proofs about a thread's work, for any finite set of colonies, any plan   *)
(* of tasks, any limits, costs and bounds.                                  *)
(***************************************************************************)
EXTENDS WorkPlans, Subsequences_proofs, FiniteSetTheorems

-----------------------------------------------------------------------------
(* The invariants.                                                          *)

Operation(ats) == [at : ats, col : Colony \cup {None}, step : Nat \cup {NoStep},
                   status : EditStatus \cup {"", "skipped"}, pos : Int]

Tracked == [col : Task \cup Colony, state : {"pending", "running"} \cup Ended]

TypeInv ==
    /\ TypeOK
    /\ queen \in Operation({"idle", "spawn", "gather", "define"})
    /\ client \in Operation({"idle", "spawn", "add", "edit"})
    /\ queen.at = "define" => queen.step \in Nat
    /\ client.at = "add" => client.step \in Nat
    /\ tracker \in [Task -> Tracked] \/ tracker = <<>>
    /\ pending \in [Task -> BOOLEAN] \/ pending = <<>>
    /\ gathered \in [Spawnable -> Colony] \/ gathered = <<>>
    /\ queen.at = "gather" => tracker \in [Task -> Tracked] /\ gathered \in [Spawnable -> Colony]
    /\ edits \in Nat /\ restarts \in Nat

(* A colony that an operation is about to spawn is nobody else's, and has   *)
(* not been spawned yet.                                                    *)
SpawnInv ==
    /\ \A c \in Colony : status[c] = "none" => loop[c] = "none"
    /\ queen.at = "spawn" => queen.col \in Colony /\ status[queen.col] = "none"
    /\ client.at = "spawn" =>
          /\ client.col \in Colony /\ status[client.col] = "none"
          /\ client.col # queen.col
          /\ \A t \in DOMAIN gathered : gathered[t] # client.col

(* What has ended stays where it is; nobody ends twice.                     *)
Past == {"steps", "closing", "done"}

EndInv ==
    /\ \A c \in won : loop[c] \in Past /\ status[c] \in {"completed", "killed"}
    /\ \A c \in Colony : status[c] = "completed" => c \in won
    /\ \A c \in Colony : follow[c] # "none" =>
          loop[c] \in Past /\ status[c] \in {"completed", "failed", "killed"}

(* Successes whose step is still to be closed have not been counted.        *)
Closing == {c \in won : loop[c] \in {"steps", "closing"}}

DepthInv == depth + Cardinality(Closing) <= Cardinality(won)

(* Every round in flight has its cost put aside.                            *)
InFlight == {c \in Colony : loop[c] = "round"}

Spawned == {c \in Colony : status[c] # "none"}

Once == ColonyLimit - 1 + RoundCost

WorkspaceSpend ==
    spent + RoundCost * Cardinality(InFlight) <= Limit - 1 + RoundCost * Cardinality(Spawned)

(* A loop that may still run a round has counted what its colony paid since *)
(* the last restart.                                                        *)
Live == {"none", "ready", "head", "round"}

ColonySpend(c) ==
    /\ loop[c] \in Live => /\ total[c] <= ColonyLimit - 1
                           /\ paid[c] <= restarts * Once + total[c]
    /\ paid[c] <= (restarts + 1) * Once

SpendInv == WorkspaceSpend /\ \A c \in Colony : ColonySpend(c)

(* Nobody is a member of a plan under the ids its plan was registered with. *)
TrackInv ==
    /\ \A c \in Colony : follow[c] \notin {"summed", "held"}
    /\ \A t \in DOMAIN tracker : tracker[t].state \in Ended =>
          /\ tracker[t].col \in Colony
          /\ follow[tracker[t].col] = "told"
          /\ tracker[t].state = "failed" => tracker[t].col \notin won
          /\ tracker[t].state = "completed" =>
                tracker[t].col \in won \/ status[tracker[t].col] # "failed"

-----------------------------------------------------------------------------
(* The steps of the thread.                                                 *)

(* The first element that passes the test, or none.                         *)
LEMMA FirstFacts ==
    ASSUME NEW s \in Seq(Step), NEW I \in SUBSET (1..Len(s)),
           NEW k, k = IF I # {} THEN Min(I) ELSE 0
    PROVE  k # 0 => k \in DOMAIN s
<1> SUFFICES ASSUME I # {}
             PROVE  k \in DOMAIN s
  OBVIOUS
<1>1. I \in SUBSET Nat /\ DOMAIN s = 1..Len(s)
  OBVIOUS
<1>2. \E x \in I : \A y \in I : x <= y
  BY <1>1, Least
<1>3. Min(I) \in I
  BY <1>2 DEF Min
<1> QED
  BY <1>1, <1>3

LEMMA StepChanged ==
    ASSUME NEW s \in Seq(Step), NEW k \in DOMAIN s, NEW c \in Colony,
           NEW st \in {"pending", "running", "completed", "failed", "skipped"}
    PROVE  /\ [s EXCEPT ![k].status = st] \in Seq(Step)
           /\ [s EXCEPT ![k].status = st, ![k].col = c] \in Seq(Step)
<1>1. s[k] \in Step
  OBVIOUS
<1>2. [s[k] EXCEPT !.status = st] \in Step /\ [s[k] EXCEPT !.status = st, !.col = c] \in Step
  BY <1>1 DEF Step
<1>3. \A r \in Step : [s EXCEPT ![k] = r] \in Seq(Step)
  OBVIOUS
<1>4. [s EXCEPT ![k].status = st] = [s EXCEPT ![k] = [s[k] EXCEPT !.status = st]]
  OBVIOUS
<1>5. [s EXCEPT ![k].status = st, ![k].col = c]
        = [s EXCEPT ![k] = [s[k] EXCEPT !.status = st, !.col = c]]
  OBVIOUS
<1> QED
  BY <1>2, <1>3, <1>4, <1>5

LEMMA SpawnedSteps ==
    ASSUME NEW c \in Colony, NEW i, steps \in Seq(Step), OnSpawned(c, i)
    PROVE  steps' \in Seq(Step)
<1> DEFINE I == {j \in 1..Len(steps) : steps[j].idx = i /\ steps[j].status = "pending"}
           k == SelectInSeq(steps, LAMBDA s : s.idx = i /\ s.status = "pending")
<1>1. k = IF I # {} THEN Min(I) ELSE 0
  BY DEF SelectInSeq
<1>2. I \in SUBSET (1..Len(steps))
  OBVIOUS
<1>3. steps' = IF i = NoStep \/ k = 0 THEN steps
               ELSE [steps EXCEPT ![k].status = "running", ![k].col = c]
  BY DEF OnSpawned
<1> HIDE DEF I, k
<1>4. k # 0 => k \in DOMAIN steps
  BY <1>1, <1>2, FirstFacts
<1> QED
  BY <1>3, <1>4, StepChanged

LEMMA DefinedSteps ==
    ASSUME NEW i \in Nat, steps \in Seq(Step), OnStepDefined(i)
    PROVE  steps' \in Seq(Step)
<1>1. [idx |-> i, status |-> "pending", col |-> None] \in Step
  BY DEF Step
<1> QED
  BY <1>1 DEF OnStepDefined

LEMMA CompletedSteps ==
    ASSUME NEW c \in Colony, NEW i, NEW ok \in BOOLEAN, steps \in Seq(Step), depth \in Nat,
           OnStepCompleted(c, i, ok)
    PROVE  steps' \in Seq(Step) /\ depth' \in {depth, depth + 1} /\ (~ok => depth' = depth)
<1> DEFINE I == {j \in 1..Len(steps) : steps[j].idx = i}
           k == SelectInSeq(steps, LAMBDA s : s.idx = i)
           st == IF ok THEN "completed" ELSE "failed"
<1>1. k = IF I # {} THEN Min(I) ELSE 0
  BY DEF SelectInSeq
<1>2. I \in SUBSET (1..Len(steps))
  OBVIOUS
<1>3. /\ steps' = IF k = 0 THEN steps
                  ELSE [steps EXCEPT ![k].status = st, ![k].col = c]
      /\ depth' = IF ok /\ k # 0 THEN depth + 1 ELSE depth
  BY DEF OnStepCompleted
<1>4. st \in {"completed", "failed"}
  OBVIOUS
<1> HIDE DEF I, k, st
<1>5. k # 0 => k \in DOMAIN steps
  BY <1>1, <1>2, FirstFacts
<1>6. steps' \in Seq(Step)
  BY <1>3, <1>4, <1>5, StepChanged
<1> QED
  BY <1>3, <1>6

LEMMA MovedSteps ==
    ASSUME NEW s \in Seq(Step), NEW k \in DOMAIN s, NEW pos \in Nat
    PROVE  Moved(s, k, pos) \in Seq(Step)
<1> DEFINE rest == RemoveAt(s, k)
           at   == IF pos < Len(rest) THEN pos ELSE Len(rest)
           new  == InsertAt(rest, at + 1, s[k])
<1>1. k \in 1..Len(s) /\ Len(s) \in Nat /\ s[k] \in Step
  OBVIOUS
<1>2. rest \in Seq(Step)
  <2>1. SubSeq(s, 1, k - 1) \in Seq(Step) /\ SubSeq(s, k + 1, Len(s)) \in Seq(Step)
    BY <1>1
  <2> QED
    BY <2>1 DEF RemoveAt
<1> HIDE DEF rest
<1>3. Len(rest) \in Nat /\ at \in 0..Len(rest)
  BY <1>2
<1> HIDE DEF at
<1>4. new \in Seq(Step)
  <2>1. SubSeq(rest, 1, (at + 1) - 1) \in Seq(Step) /\ SubSeq(rest, at + 1, Len(rest)) \in Seq(Step)
    BY <1>2, <1>3
  <2>2. <<s[k]>> \in Seq(Step)
    BY <1>1
  <2> QED
    BY <2>1, <2>2 DEF InsertAt
<1>5. Moved(s, k, pos) = [j \in DOMAIN new |-> [new[j] EXCEPT !.idx = j - 1]]
  BY DEF Moved, rest, at
<1> HIDE DEF new
<1>6. DOMAIN new = 1..Len(new) /\ Len(new) \in Nat
  BY <1>4
<1>7. ASSUME NEW j \in DOMAIN new
      PROVE  [new[j] EXCEPT !.idx = j - 1] \in Step
  <2>1. new[j] \in Step /\ j - 1 \in Nat
    BY <1>4, <1>6
  <2> QED
    BY <2>1 DEF Step
<1> DEFINE m == [j \in DOMAIN new |-> [new[j] EXCEPT !.idx = j - 1]]
<1>8. m \in [1..Len(new) -> Step]
  BY <1>6, <1>7
<1> HIDE DEF m
<1>9. m \in Seq(Step)
  BY <1>6, <1>8
<1> QED
  BY <1>5, <1>9 DEF m

LEMMA StatusChanged ==
    ASSUME NEW s \in Seq(Step), NEW k \in DOMAIN s,
           NEW st \in {"pending", "running", "completed", "failed", "skipped"}
    PROVE  /\ [s EXCEPT ![k].status = st] \in Seq(Step)
           /\ DOMAIN [s EXCEPT ![k].status = st] = DOMAIN s
<1>1. s[k] \in Step
  OBVIOUS
<1>2. [s[k] EXCEPT !.status = st] \in Step
  BY <1>1 DEF Step
<1>3. \A r \in Step : [s EXCEPT ![k] = r] \in Seq(Step)
  OBVIOUS
<1>4. [s EXCEPT ![k].status = st] = [s EXCEPT ![k] = [s[k] EXCEPT !.status = st]]
  OBVIOUS
<1> QED
  BY <1>2, <1>3, <1>4

LEMMA NonNegative == \A n \in Int : n >= 0 => n \in Nat
OBVIOUS

LEMMA UpdatedSteps ==
    ASSUME NEW i, NEW new \in EditStatus \cup {"", "skipped"}, NEW pos \in Int,
           steps \in Seq(Step), OnStepUpdated(i, new, pos)
    PROVE  steps' \in Seq(Step)
<1> DEFINE I == {j \in 1..Len(steps) : steps[j].idx = i}
           k == SelectInSeq(steps, LAMBDA s : s.idx = i)
           t == IF k = 0 \/ new = "" THEN steps ELSE [steps EXCEPT ![k].status = new]
<1>1. k = IF I # {} THEN Min(I) ELSE 0
  BY DEF SelectInSeq
<1>2. I \in SUBSET (1..Len(steps))
  OBVIOUS
<1>3. steps' = IF k # 0 /\ pos >= 0 /\ pos # i THEN Moved(t, k, pos) ELSE t
  BY DEF OnStepUpdated
<1>4. \/ (k = 0 \/ new = "") /\ t = steps
      \/ k # 0 /\ new # "" /\ t = [steps EXCEPT ![k].status = new]
  OBVIOUS
<1> HIDE DEF I, k, t
<1>5. k # 0 => k \in DOMAIN steps
  BY <1>1, <1>2, FirstFacts
<1>6. new = "" \/ new \in {"pending", "running", "completed", "failed", "skipped"}
  BY WorkPlansAssumption
<1>7. t \in Seq(Step) /\ (k # 0 => k \in DOMAIN t)
  <2>1. CASE t = steps
    BY <1>5, <2>1
  <2>2. CASE k # 0 /\ new # "" /\ t = [steps EXCEPT ![k].status = new]
    <3>1. k \in DOMAIN steps /\ new \in {"pending", "running", "completed", "failed", "skipped"}
      BY <1>5, <1>6, <2>2
    <3>2. t \in Seq(Step) /\ DOMAIN t = DOMAIN steps
      BY <2>2, <3>1, StatusChanged
    <3> QED
      BY <3>1, <3>2
  <2> QED
    BY <1>4, <2>1, <2>2
<1>8. pos >= 0 => pos \in Nat
  BY NonNegative
<1>9. k # 0 /\ pos >= 0 => Moved(t, k, pos) \in Seq(Step)
  BY <1>7, <1>8, MovedSteps
<1> QED
  BY <1>3, <1>7, <1>9

-----------------------------------------------------------------------------
(* What the actions do.                                                     *)

(* An operation begins: whom it is to spawn is free, and nothing else moves. *)
Begins ==
    \/ SpawnForStep \/ RetryColony \/ (\E n \in 1..2 : DefineSteps(n))
    \/ AddStep \/ UpdateStep \/ DeleteStep \/ \E c \in Colony : ClientSpawn(c)

Still == UNCHANGED <<status, money, loop, closing, thread, plan, gathered, follow, won>>

LEMMA Ops ==
    ASSUME NEW ats, NEW a \in ats, NEW c \in Colony \cup {None}, NEW i \in Nat \cup {NoStep},
           NEW st \in EditStatus \cup {"", "skipped"}, NEW p \in Int
    PROVE  [at |-> a, col |-> c, step |-> i, status |-> st, pos |-> p] \in Operation(ats)
BY DEF Operation

LEMMA NoStepTyped == NoStep \in Int /\ NoStep \in Nat \cup {NoStep} /\ Nat \subseteq Int
BY DEF NoStep

LEMMA SpawnColonyBegins ==
    ASSUME TypeInv, NEW c \in Colony, NEW i \in Nat \cup {NoStep}, SpawnColony(c, i)
    PROVE  /\ Still /\ UNCHANGED <<client, edits, restarts>>
           /\ queen' \in Operation({"idle", "spawn", "gather", "define"})
           /\ queen'.at = "spawn" /\ queen'.col = c /\ Free(c)
<1>1. queen' = [at |-> "spawn", col |-> c, step |-> i, status |-> "", pos |-> NoStep]
  BY DEF SpawnColony, Idle
<1>2. NoStep \in Int
  BY DEF NoStep
<1>3. queen' \in Operation({"idle", "spawn", "gather", "define"})
  BY <1>1, <1>2, Ops
<1>4. Still /\ UNCHANGED <<client, edits, restarts>> /\ Free(c)
  BY DEF SpawnColony, Still, counts
<1> QED
  BY <1>1, <1>3, <1>4

LEMMA IndexTyped ==
    ASSUME TypeInv, NEW s \in Range(steps)
    PROVE  s.idx \in Nat
<1>1. PICK k \in DOMAIN steps : s = steps[k]
  BY DEF Range
<1>2. steps[k] \in Step
  BY DEF TypeInv, TypeOK
<1> QED
  BY <1>1, <1>2 DEF Step

LEMMA EditBegins ==
    ASSUME NEW i \in Nat, NEW st \in EditStatus \cup {"", "skipped"}, NEW p \in Int,
           EditStep(i, st, p)
    PROVE  /\ Still /\ UNCHANGED <<queen, restarts>> /\ edits' = edits + 1
           /\ client' \in Operation({"idle", "spawn", "add", "edit"})
           /\ client'.at = "edit"
<1>1. client' = [at |-> "edit", col |-> None, step |-> i, status |-> st, pos |-> p]
  BY DEF EditStep, Idle
<1>2. client' \in Operation({"idle", "spawn", "add", "edit"})
  BY <1>1, Ops
<1> QED
  BY <1>1, <1>2 DEF EditStep, Still

LEMMA IdleTyped ==
    /\ Idle \in Operation({"idle", "spawn", "gather", "define"})
    /\ Idle \in Operation({"idle", "spawn", "add", "edit"})
    /\ Idle.at = "idle" /\ Idle.col = None
<1>1. Idle = [at |-> "idle", col |-> None, step |-> NoStep, status |-> "", pos |-> NoStep]
  BY DEF Idle
<1>2. Idle \in Operation({"idle", "spawn", "gather", "define"})
  BY <1>1, NoStepTyped, Ops
<1>3. Idle \in Operation({"idle", "spawn", "add", "edit"})
  BY <1>1, NoStepTyped, Ops
<1> QED
  BY <1>1, <1>2, <1>3

(* What an operation may begin with.                                        *)
Begun ==
    \/ /\ UNCHANGED <<client, edits>>
       /\ queen' \in Operation({"idle", "spawn", "gather", "define"})
       /\ \/ /\ queen'.at = "spawn"
             /\ \E c \in Colony : queen'.col = c /\ Free(c)
          \/ queen'.at = "define" /\ queen'.step = 0 /\ queen'.col = None
    \/ /\ UNCHANGED queen /\ edits' \in {edits, edits + 1}
       /\ client' \in Operation({"idle", "spawn", "add", "edit"})
       /\ \/ /\ client'.at = "spawn"
             /\ \E c \in Colony : client'.col = c /\ Free(c)
          \/ client'.at = "add" /\ client'.step \in Nat
          \/ client'.at = "edit"

LEMMA BeginsFacts ==
    ASSUME TypeInv, Begins
    PROVE  Still /\ UNCHANGED restarts /\ Begun
<1>1. CASE SpawnForStep
  <2>1. PICK c \in Colony, s \in Range(steps) : SpawnColony(c, s.idx)
    BY <1>1 DEF SpawnForStep
  <2> QED
    BY <2>1, IndexTyped, SpawnColonyBegins DEF Begun
<1>2. CASE RetryColony
  <2>1. PICK c \in Colony : SpawnColony(c, NoStep)
    BY <1>2 DEF RetryColony
  <2> QED
    BY <2>1, SpawnColonyBegins DEF Begun
<1>3. CASE \E n \in 1..2 : DefineSteps(n)
  <2>1. PICK n \in 1..2 : DefineSteps(n)
    BY <1>3
  <2>2. queen' = [at |-> "define", col |-> None, step |-> 0, status |-> "", pos |-> n]
    BY <2>1 DEF DefineSteps, Idle
  <2>3. queen' \in Operation({"idle", "spawn", "gather", "define"})
    <3>1. 0 \in Nat \cup {NoStep} /\ n \in Int
      OBVIOUS
    <3> QED
      BY <2>2, <3>1, Ops
  <2>4. Still /\ UNCHANGED <<client, edits, restarts>>
    BY <2>1 DEF DefineSteps, Still, counts
  <2> QED
    BY <2>2, <2>3, <2>4 DEF Begun
<1>4. CASE AddStep
  <2>1. client' = [at |-> "add", col |-> None, step |-> Len(steps), status |-> "", pos |-> NoStep]
    BY <1>4 DEF AddStep, Idle, NextIndex
  <2>2. Len(steps) \in Nat /\ NoStep \in Int
    BY DEF TypeInv, TypeOK, NoStep
  <2>3. client' \in Operation({"idle", "spawn", "add", "edit"})
    BY <2>1, <2>2, Ops
  <2>4. Still /\ UNCHANGED <<queen, restarts>> /\ edits' = edits + 1
    BY <1>4 DEF AddStep, Still
  <2>5. client'.at = "add" /\ client'.step \in Nat
    BY <2>1, <2>2
  <2> QED
    BY <2>3, <2>4, <2>5 DEF Begun
<1>5. CASE UpdateStep
  <2>1. PICK s \in Range(steps), new \in EditStatus, pos \in -1..(MaxSteps - 1) :
            EditStep(s.idx, new, pos)
    BY <1>5 DEF UpdateStep
  <2>2. pos \in Int
    <3>1. MaxSteps \in Nat
      BY WorkPlansAssumption
    <3> QED
      BY <3>1
  <2> QED
    BY <2>1, <2>2, IndexTyped, EditBegins DEF Begun
<1>6. CASE DeleteStep
  <2>1. PICK s \in Range(steps) : EditStep(s.idx, "skipped", NoStep)
    BY <1>6 DEF DeleteStep
  <2> QED
    BY <2>1, NoStepTyped, IndexTyped, EditBegins DEF Begun
<1>7. CASE \E c \in Colony : ClientSpawn(c)
  <2>1. PICK c \in Colony : ClientSpawn(c)
    BY <1>7
  <2>2. client' = [at |-> "spawn", col |-> c, step |-> NoStep, status |-> "", pos |-> NoStep]
    BY <2>1 DEF ClientSpawn, Idle
  <2>3. client' \in Operation({"idle", "spawn", "add", "edit"})
    BY <2>2, NoStepTyped, Ops
  <2>4. Still /\ UNCHANGED <<queen, edits, restarts>> /\ Free(c)
    BY <2>1 DEF ClientSpawn, Still, counts
  <2>5. client'.at = "spawn" /\ client'.col = c
    BY <2>2
  <2> QED
    BY <2>3, <2>4, <2>5 DEF Begun
<1> QED
  BY <1>1, <1>2, <1>3, <1>4, <1>5, <1>6, <1>7 DEF Begins

(* A colony comes into being: announced by the queen, by the client, or as  *)
(* one of the plan's.                                                       *)
Spawns == QueenSpawned \/ ClientSpawned \/ \E t \in DOMAIN gathered : GatherOne(t)

SpawnedBy(c) ==
    \/ queen.at = "spawn" /\ c = queen.col /\ queen' = Idle /\ UNCHANGED client
    \/ client.at = "spawn" /\ c = client.col /\ client' = Idle /\ UNCHANGED queen
    \/ queen.at = "gather" /\ UNCHANGED <<queen, client>>
       /\ \E t \in DOMAIN gathered : c = gathered[t]

Comes(c) ==
    /\ c \in Colony /\ status[c] = "none"
    /\ status' = [status EXCEPT ![c] = "running"]
    /\ \E pc \in {"head", "ready"} : loop' = [loop EXCEPT ![c] = pc]
    /\ steps' \in Seq(Step)
    /\ UNCHANGED <<paid, spent, total, closing, depth, tracker, pending, gathered, follow, won,
                   edits, restarts>>

LEMMA SpawnsFacts ==
    ASSUME TypeInv, SpawnInv, Spawns
    PROVE  \E c \in Colony : Comes(c) /\ SpawnedBy(c)
<1>0. steps \in Seq(Step)
  BY DEF TypeInv, TypeOK
<1>1. CASE QueenSpawned
  <2>1. queen.at = "spawn" /\ queen.col \in Colony /\ status[queen.col] = "none"
    BY <1>1 DEF QueenSpawned, SpawnInv
  <2>2. OnSpawned(queen.col, queen.step)
    BY <1>1 DEF QueenSpawned, Starts
  <2>3. steps' \in Seq(Step)
    BY <1>0, <2>1, <2>2, SpawnedSteps
  <2>4. Comes(queen.col)
    BY <1>1, <2>1, <2>3 DEF QueenSpawned, Starts, Comes, money, plan, counts
  <2>5. SpawnedBy(queen.col)
    BY <1>1, <2>1 DEF QueenSpawned, SpawnedBy
  <2> QED
    BY <2>1, <2>4, <2>5
<1>2. CASE ClientSpawned
  <2>1. client.at = "spawn" /\ client.col \in Colony /\ status[client.col] = "none"
    BY <1>2 DEF ClientSpawned, SpawnInv
  <2>2. OnSpawned(client.col, NoStep)
    BY <1>2 DEF ClientSpawned, Starts
  <2>3. steps' \in Seq(Step)
    BY <1>0, <2>1, <2>2, SpawnedSteps
  <2>4. Comes(client.col)
    BY <1>2, <2>1, <2>3 DEF ClientSpawned, Starts, Comes, money, plan, counts
  <2>5. SpawnedBy(client.col)
    BY <1>2, <2>1 DEF ClientSpawned, SpawnedBy
  <2> QED
    BY <2>1, <2>4, <2>5
<1>3. CASE \E t \in DOMAIN gathered : GatherOne(t)
  <2>1. PICK t \in DOMAIN gathered : GatherOne(t)
    BY <1>3
  <2> DEFINE c == gathered[t]
  <2>2. queen.at = "gather" /\ status[c] = "none" /\ OnSpawned(c, NoStep)
    BY <2>1 DEF GatherOne
  <2>3. c \in Colony
    BY <2>2 DEF TypeInv
  <2>4. steps' \in Seq(Step)
    BY <1>0, <2>2, <2>3, SpawnedSteps
  <2>5. Comes(c)
    BY <2>1, <2>2, <2>3, <2>4 DEF GatherOne, Comes, money, plan, counts
  <2>6. SpawnedBy(c)
    BY <2>1, <2>2 DEF GatherOne, SpawnedBy, ops
  <2> QED
    BY <2>3, <2>5, <2>6
<1> QED
  BY <1>1, <1>2, <1>3 DEF Spawns

(* A step is defined, added or edited.                                      *)
Edits == DefineOne \/ StepAdded \/ StepEdited

LEMMA EditsFacts ==
    ASSUME TypeInv, Edits
    PROVE  /\ steps' \in Seq(Step)
           /\ UNCHANGED <<status, paid, spent, total, loop, closing, depth, tracker, pending,
                          gathered, follow, won, edits, restarts>>
           /\ \/ /\ UNCHANGED client
                 /\ queen' \in Operation({"idle", "spawn", "gather", "define"})
                 /\ \/ queen' = Idle
                    \/ queen'.at = "define" /\ queen'.step \in Nat /\ queen'.col = queen.col
              \/ UNCHANGED queen /\ client' = Idle
<1>0. steps \in Seq(Step)
  BY DEF TypeInv, TypeOK
<1>1. CASE DefineOne
  <2>1. queen.at = "define" /\ queen.step \in Nat
        /\ queen \in Operation({"idle", "spawn", "gather", "define"})
    BY <1>1 DEF DefineOne, TypeInv
  <2>2. steps' \in Seq(Step)
    BY <1>0, <1>1, <2>1, DefinedSteps DEF DefineOne
  <2>6. queen.step + 1 \in Nat /\ queen.step + 1 \in Nat \cup {NoStep}
    BY <2>1
  <2>3. [queen EXCEPT !.step = @ + 1] \in Operation({"idle", "spawn", "gather", "define"})
        /\ [queen EXCEPT !.step = @ + 1].step \in Nat
        /\ [queen EXCEPT !.step = @ + 1].at = "define"
        /\ [queen EXCEPT !.step = @ + 1].col = queen.col
    BY <2>1, <2>6 DEF Operation
  <2>4. queen' = Idle \/ queen' = [queen EXCEPT !.step = @ + 1]
    BY <1>1 DEF DefineOne
  <2>5. UNCHANGED <<status, paid, spent, total, loop, closing, depth, tracker, pending,
                    gathered, follow, won, edits, restarts, client>>
    BY <1>1 DEF DefineOne, money, plan, counts
  <2> QED
    BY <2>2, <2>3, <2>4, <2>5, IdleTyped
<1>2. CASE StepAdded
  <2>1. client.step \in Nat
    BY <1>2 DEF StepAdded, TypeInv
  <2>2. steps' \in Seq(Step)
    BY <1>0, <1>2, <2>1, DefinedSteps DEF StepAdded
  <2> QED
    BY <1>2, <2>2 DEF StepAdded, money, plan, counts
<1>3. CASE StepEdited
  <2>1. client.status \in EditStatus \cup {"", "skipped"} /\ client.pos \in Int
    BY DEF TypeInv, Operation
  <2>2. steps' \in Seq(Step)
    BY <1>0, <1>3, <2>1, UpdatedSteps DEF StepEdited
  <2> QED
    BY <1>3, <2>2 DEF StepEdited, money, plan, counts
<1> QED
  BY <1>1, <1>2, <1>3 DEF Edits

(* The plan's own steps.                                                    *)
LEMMA ParallelFacts ==
    ASSUME TypeInv, SpawnParallel
    PROVE  /\ UNCHANGED <<status, paid, spent, total, loop, closing, steps, depth, follow, client,
                          won, edits, restarts>>
           /\ gathered' \in [Spawnable -> Colony]
           /\ \A t \in DOMAIN gathered' : Free(gathered'[t])
           /\ tracker' \in [Task -> Tracked] /\ pending' \in [Task -> BOOLEAN]
           /\ \A t \in DOMAIN tracker' : tracker'[t].state = "pending"
           /\ queen' \in Operation({"idle", "spawn", "gather", "define"})
           /\ queen'.at = "gather" /\ queen'.col = None
<1>1. PICK g \in [Spawnable -> {c \in Colony : Free(c)}] : gathered' = g
  BY DEF SpawnParallel
<1>2. gathered' \in [Spawnable -> Colony] /\ \A t \in DOMAIN gathered' : Free(gathered'[t])
  BY <1>1
<1>3. tracker' = [t \in Task |-> [col |-> t, state |-> "pending"]]
      /\ pending' = [t \in Task |-> FALSE]
  BY DEF SpawnParallel
<1>4. tracker' \in [Task -> Tracked] /\ pending' \in [Task -> BOOLEAN]
      /\ \A t \in DOMAIN tracker' : tracker'[t].state = "pending"
  BY <1>3 DEF Tracked
<1>5. queen' = [at |-> "gather", col |-> None, step |-> NoStep, status |-> "", pos |-> NoStep]
  BY DEF SpawnParallel, Idle
<1>6. queen' \in Operation({"idle", "spawn", "gather", "define"})
  BY <1>5, NoStepTyped, Ops
<1>7. UNCHANGED <<status, paid, spent, total, loop, closing, steps, depth, follow, client,
                  won, edits, restarts>>
  BY DEF SpawnParallel, money, thread, counts
<1> QED
  BY <1>2, <1>4, <1>5, <1>6, <1>7

LEMMA DispatchFacts ==
    ASSUME TypeInv, PlanDispatched
    PROVE  /\ UNCHANGED <<status, paid, spent, total, loop, closing, steps, depth, pending, follow,
                          client, won, edits, restarts>>
           /\ gathered' = <<>> /\ queen' = Idle
           /\ tracker' \in [Task -> Tracked]
           /\ \A t \in DOMAIN tracker' :
                 tracker'[t].state = "running" \/ (t \in DOMAIN tracker /\ tracker'[t] = tracker[t])
<1>1. tracker \in [Task -> Tracked] /\ gathered \in [Spawnable -> Colony]
  BY DEF PlanDispatched, TypeInv
<1>2. tracker' = [t \in Task |-> Dispatched(t)]
  BY <1>1 DEF PlanDispatched
<1>3. ASSUME NEW t \in Task
      PROVE  /\ Dispatched(t) \in Tracked
             /\ Dispatched(t).state = "running" \/ Dispatched(t) = tracker[t]
  <2>1. tracker[t] \in Tracked
    BY <1>1
  <2>2. t \in Spawnable => gathered[t] \in Colony
    BY <1>1
  <2> QED
    BY <2>1, <2>2 DEF Dispatched, Tracked
<1>4. tracker' \in [Task -> Tracked]
  BY <1>2, <1>3
<1>5. \A t \in DOMAIN tracker' :
         tracker'[t].state = "running" \/ (t \in DOMAIN tracker /\ tracker'[t] = tracker[t])
  BY <1>1, <1>2, <1>3
<1> QED
  BY <1>4, <1>5 DEF PlanDispatched, money, thread, counts

(* A colony's follow-up marks the tracker and reports to the plan.          *)
LEMMA MarkedFacts ==
    ASSUME NEW c \in Colony, tracker \in [Task -> Tracked] \/ tracker = <<>>
    PROVE  /\ Marked(c) \in [Task -> Tracked] \/ Marked(c) = <<>>
           /\ tracker \in [Task -> Tracked] => Marked(c) \in [Task -> Tracked]
           /\ DOMAIN Marked(c) = DOMAIN tracker
           /\ \A t \in DOMAIN tracker :
                 \/ Marked(c)[t] = tracker[t]
                 \/ Marked(c)[t].col = c /\ tracker[t].col = c /\ Marked(c)[t].state = Verdict(c)
<1>1. Verdict(c) \in {"completed", "failed"}
  BY DEF Verdict
<1>2. CASE tracker \in [Task -> Tracked]
  <2>1. ASSUME NEW t \in Task
        PROVE  [tracker[t] EXCEPT !.state = Verdict(c)] \in Tracked
               /\ [tracker[t] EXCEPT !.state = Verdict(c)].state = Verdict(c)
               /\ [tracker[t] EXCEPT !.state = Verdict(c)].col = tracker[t].col
    <3>1. tracker[t] \in Tracked
      BY <1>2
    <3> QED
      BY <1>1, <3>1 DEF Tracked, Ended
  <2>2. DOMAIN tracker = Task
    BY <1>2
  <2>3. Marked(c) = [t \in Task |-> IF tracker[t].col # c THEN tracker[t]
                                    ELSE [tracker[t] EXCEPT !.state = Verdict(c)]]
    BY <2>2 DEF Marked
  <2>4. Marked(c) \in [Task -> Tracked]
    BY <1>2, <2>1, <2>3
  <2> QED
    BY <2>1, <2>2, <2>3, <2>4
<1>3. CASE tracker = <<>>
  BY <1>3 DEF Marked
<1> QED
  BY <1>2, <1>3

LEMMA NotAMember ==
    ASSUME TypeInv, NEW c \in Colony
    PROVE  ~Member(c)
<1>1. Task \cap Colony = {}
  BY WorkPlansAssumption
<1>2. DOMAIN pending = Task \/ DOMAIN pending = {}
  BY DEF TypeInv, TypeOK
<1> QED
  BY <1>1, <1>2 DEF Member

LEMMA FollowFacts ==
    ASSUME TypeInv, NEW c \in Colony, FollowUp(c)
    PROVE  /\ UNCHANGED <<status, paid, spent, total, loop, closing, steps, depth, gathered,
                          queen, client, won, edits, restarts>>
           /\ pending' \in [Task -> BOOLEAN] \/ pending' = <<>>
           /\ follow[c] \in {"due", "continue"}
           /\ \/ follow' = [follow EXCEPT ![c] = "quiet"] /\ UNCHANGED <<tracker, pending>>
              \/ follow' = [follow EXCEPT ![c] = "told"] /\ tracker' = Marked(c)
<1>1. ~Member(c)
  BY NotAMember
<1>2. Reported(c) \in [Task -> BOOLEAN] \/ Reported(c) = <<>>
  BY DEF Reported, TypeInv
<1>3. \/ follow' = [follow EXCEPT ![c] = "quiet"] /\ UNCHANGED <<tracker, pending>>
      \/ follow' = [follow EXCEPT ![c] = "told"] /\ tracker' = Marked(c) /\ pending' = Reported(c)
  BY <1>1 DEF FollowUp, plan
<1>4. pending' \in [Task -> BOOLEAN] \/ pending' = <<>>
  BY <1>2, <1>3 DEF TypeInv
<1>5. UNCHANGED <<status, paid, spent, total, loop, closing, steps, depth, gathered,
                  queen, client, won, edits, restarts>> /\ follow[c] \in {"due", "continue"}
  BY DEF FollowUp, money, thread, ops, counts
<1> QED
  BY <1>3, <1>4, <1>5

LEMMA StartFacts ==
    ASSUME TypeInv, NEW t \in DOMAIN gathered, StartOne(t)
    PROVE  /\ gathered[t] \in Colony /\ loop[gathered[t]] = "ready"
           /\ loop' = [loop EXCEPT ![gathered[t]] = "head"]
           /\ UNCHANGED <<status, paid, spent, total, closing, steps, depth, tracker, pending,
                          gathered, follow, queen, client, won, edits, restarts>>
BY DEF TypeInv, StartOne, money, thread, plan, ops, counts

(* The loop's steps: where c may go, and what else moves.                   *)
LEMMA HeadFacts ==
    ASSUME TypeInv, NEW c \in Colony, RoundHead(c)
    PROVE  /\ loop[c] = "head"
           /\ UNCHANGED <<paid, spent, closing, steps, depth, tracker, pending, gathered, follow,
                          queen, client, won, edits, restarts>>
           /\ \/ /\ HardStop /\ loop' = [loop EXCEPT ![c] = "done"]
                 /\ status' = [status EXCEPT ![c] = "failed"] /\ total' = [total EXCEPT ![c] = 0]
              \/ /\ ~HardStop /\ loop' = [loop EXCEPT ![c] = "round"]
                 /\ UNCHANGED <<status, total>>
<1>1. ~HardStop => total' = total
  BY DEF RoundHead, TypeInv, TypeOK
<1>2. CASE HardStop
  BY <1>2 DEF RoundHead, Goes, thread, plan, ops, counts
<1>3. CASE ~HardStop
  BY <1>1, <1>3 DEF RoundHead, Goes, thread, plan, ops, counts
<1> QED
  BY <1>2, <1>3

(* After a round of cost n: back to the head, over, or to the hooks.        *)
Verdicts(c, n) ==
    \/ /\ total[c] + n < ColonyLimit
       /\ loop' = [loop EXCEPT ![c] = "head"] /\ total' = [total EXCEPT ![c] = total[c] + n]
       /\ UNCHANGED <<status, follow, won>>
    \/ /\ loop' = [loop EXCEPT ![c] = "done"] /\ total' = [total EXCEPT ![c] = 0]
       /\ status' = [status EXCEPT ![c] = "failed"] /\ UNCHANGED <<follow, won>>
    \/ /\ loop' = [loop EXCEPT ![c] = "steps"] /\ total' = [total EXCEPT ![c] = 0]
       /\ \/ status' = [status EXCEPT ![c] = "completed"] /\ won' = won \cup {c}
          \/ status' = [status EXCEPT ![c] = "failed"] /\ UNCHANGED won
       /\ \E f \in {"continue", "due"} : follow' = [follow EXCEPT ![c] = f]

LEMMA RoundFacts ==
    ASSUME TypeInv, NEW c \in Colony, RunRound(c)
    PROVE  /\ loop[c] = "round"
           /\ UNCHANGED <<closing, steps, depth, tracker, pending, gathered, queen, client,
                          edits, restarts>>
           /\ \E n \in 0..RoundCost :
                 /\ paid' = [paid EXCEPT ![c] = paid[c] + n] /\ spent' = spent + n
                 /\ Verdicts(c, n)
<1>1. PICK n \in 0..RoundCost :
        /\ Pays(c, n)
        /\ \/ /\ status' = [status EXCEPT ![c] = "failed"]
              /\ Goes(c, "done") /\ UNCHANGED <<follow, won>>
           \/ /\ total[c] + n < ColonyLimit
              /\ \/ Goes(c, "head") /\ UNCHANGED <<status, follow, won>>
                 \/ Ends(c, "completed")
                 \/ Ends(c, "failed")
        /\ total' = [total EXCEPT ![c] = IF loop'[c] = "head" THEN @ + n ELSE 0]
  BY DEF RunRound
<1>2. \A pc : Goes(c, pc) => loop' = [loop EXCEPT ![c] = pc] /\ loop'[c] = pc
  BY DEF Goes, TypeInv, TypeOK
<1>3. Verdicts(c, n)
  <2>1. CASE total[c] + n < ColonyLimit /\ Goes(c, "head") /\ UNCHANGED <<status, follow, won>>
    <3>1. loop' = [loop EXCEPT ![c] = "head"] /\ loop'[c] = "head"
      BY <1>2, <2>1
    <3>2. total' = [total EXCEPT ![c] = total[c] + n]
      BY <1>1, <3>1
    <3> QED
      BY <2>1, <3>1, <3>2 DEF Verdicts
  <2>2. CASE status' = [status EXCEPT ![c] = "failed"] /\ Goes(c, "done")
             /\ UNCHANGED <<follow, won>>
    <3>1. loop' = [loop EXCEPT ![c] = "done"] /\ loop'[c] = "done"
      BY <1>2, <2>2
    <3>2. total' = [total EXCEPT ![c] = 0]
      BY <1>1, <3>1
    <3> QED
      BY <2>2, <3>1, <3>2 DEF Verdicts
  <2>3. ASSUME NEW st \in {"completed", "failed"}, Ends(c, st)
        PROVE  Verdicts(c, n)
    <3>1. loop' = [loop EXCEPT ![c] = "steps"] /\ loop'[c] = "steps"
      BY <1>2, <2>3 DEF Ends
    <3>2. total' = [total EXCEPT ![c] = 0]
      BY <1>1, <3>1
    <3>3. \E f \in {"continue", "due"} : follow' = [follow EXCEPT ![c] = f]
      BY <2>3 DEF Ends
    <3>4. \/ status' = [status EXCEPT ![c] = "completed"] /\ won' = won \cup {c}
          \/ status' = [status EXCEPT ![c] = "failed"] /\ UNCHANGED won
      BY <2>3 DEF Ends
    <3> QED
      BY <3>1, <3>2, <3>3, <3>4 DEF Verdicts
  <2> QED
    BY <1>1, <2>1, <2>2, <2>3
<1> QED
  BY <1>1, <1>3 DEF RunRound, Pays, thread, plan, ops, counts

LEMMA ReadFacts ==
    ASSUME TypeInv, NEW c \in Colony, StepRead(c)
    PROVE  /\ loop[c] = "steps"
           /\ UNCHANGED <<status, paid, spent, total, steps, depth, tracker, pending, gathered,
                          follow, queen, client, won, edits, restarts>>
           /\ closing' \in [Colony -> Nat \cup {NoStep}]
           /\ \E pc \in {"closing", "done"} : loop' = [loop EXCEPT ![c] = pc]
<1> DEFINE I == {j \in 1..Len(steps) : steps[j].col = c /\ steps[j].status = "running"}
           k == SelectInSeq(steps, LAMBDA s : s.col = c /\ s.status = "running")
<1>0. steps \in Seq(Step) /\ closing \in [Colony -> Nat \cup {NoStep}]
  BY DEF TypeInv, TypeOK
<1>1. k = IF I # {} THEN Min(I) ELSE 0
  BY DEF SelectInSeq
<1>2. I \in SUBSET (1..Len(steps))
  OBVIOUS
<1>3. \/ loop' = [loop EXCEPT ![c] = "done"] /\ UNCHANGED closing
      \/ /\ k # 0 /\ loop' = [loop EXCEPT ![c] = "closing"]
         /\ closing' = [closing EXCEPT ![c] = steps[k].idx]
  BY DEF StepRead, Goes
<1> HIDE DEF I, k
<1>4. k # 0 => k \in DOMAIN steps
  BY <1>0, <1>1, <1>2, FirstFacts
<1>5. k # 0 => steps[k].idx \in Nat
  <2>1. k # 0 => steps[k] \in Step
    BY <1>0, <1>4
  <2> QED
    BY <2>1 DEF Step
<1>6. closing' \in [Colony -> Nat \cup {NoStep}]
  BY <1>0, <1>3, <1>5
<1> QED
  BY <1>3, <1>6 DEF StepRead, money, thread, plan, ops, counts

LEMMA ClosedFacts ==
    ASSUME TypeInv, NEW c \in Colony, StepClosed(c)
    PROVE  /\ loop[c] = "closing" /\ loop' = [loop EXCEPT ![c] = "done"]
           /\ closing' = [closing EXCEPT ![c] = NoStep]
           /\ steps' \in Seq(Step) /\ depth' \in {depth, depth + 1}
           /\ c \notin won => depth' = depth
           /\ UNCHANGED <<status, paid, spent, total, tracker, pending, gathered,
                          follow, queen, client, won, edits, restarts>>
<1>1. steps \in Seq(Step) /\ depth \in Nat
  BY DEF TypeInv, TypeOK
<1>2. OnStepCompleted(c, closing[c], c \in won) /\ (c \in won) \in BOOLEAN
  BY DEF StepClosed
<1>3. steps' \in Seq(Step) /\ depth' \in {depth, depth + 1} /\ (c \notin won => depth' = depth)
  BY <1>1, <1>2, CompletedSteps
<1> QED
  BY <1>3 DEF StepClosed, Goes, money, plan, ops, counts

LEMMA KillFacts ==
    ASSUME TypeInv, NEW c \in Colony, Kill(c)
    PROVE  /\ status[c] \in {"running", "completed", "failed"}
           /\ status' = [status EXCEPT ![c] = "killed"]
           /\ loop' = [loop EXCEPT ![c] = "done"] /\ edits' = edits + 1
           /\ closing' = [closing EXCEPT ![c] = NoStep] /\ total' = [total EXCEPT ![c] = 0]
           /\ UNCHANGED <<paid, spent, steps, depth, tracker, pending, gathered, follow,
                          queen, client, won, restarts>>
BY DEF Kill, Goes, thread, plan, ops

LEMMA NextCases ==
    ASSUME Next
    PROVE  \/ Begins \/ Spawns \/ Edits \/ SpawnParallel \/ PlanDispatched \/ Restart
           \/ \E t \in DOMAIN gathered : StartOne(t)
           \/ \E c \in Colony : \/ RoundHead(c) \/ RunRound(c) \/ StepRead(c) \/ StepClosed(c)
                                \/ Kill(c) \/ FollowUp(c)
BY DEF Next, Begins, Spawns, Edits

-----------------------------------------------------------------------------
(* Type correctness.                                                        *)

LEMMA TypeInit == Init => TypeInv
<1> SUFFICES ASSUME Init
             PROVE  TypeInv
  OBVIOUS
<1>1. <<>> \in Seq(Step) /\ DOMAIN <<>> = {}
  OBVIOUS
<1>2. TypeOK
  BY <1>1 DEF Init, TypeOK, NoStep
<1>3. queen \in Operation({"idle", "spawn", "gather", "define"})
      /\ client \in Operation({"idle", "spawn", "add", "edit"})
      /\ queen.at = "idle" /\ client.at = "idle"
  BY IdleTyped DEF Init
<1> QED
  BY <1>2, <1>3 DEF Init, TypeInv

(* The parts of TypeInv, each in the form its steps disturb.                *)
ColonyTypes ==
    /\ status \in [Colony -> {"none", "running", "completed", "failed", "killed"}]
    /\ paid \in [Colony -> Nat] /\ spent \in Nat /\ total \in [Colony -> Nat]
    /\ loop \in [Colony -> {"none", "ready", "head", "round", "steps", "closing", "done"}]
    /\ closing \in [Colony -> Nat \cup {NoStep}]
    /\ follow \in [Colony -> {"none", "due", "continue", "told", "summed", "held", "quiet", "lost"}]
    /\ won \subseteq Colony /\ edits \in Nat /\ restarts \in Nat
    /\ steps \in Seq(Step) /\ depth \in Nat

PlanTypes ==
    /\ queen \in Operation({"idle", "spawn", "gather", "define"})
    /\ client \in Operation({"idle", "spawn", "add", "edit"})
    /\ queen.at = "define" => queen.step \in Nat
    /\ client.at = "add" => client.step \in Nat
    /\ tracker \in [Task -> Tracked] \/ tracker = <<>>
    /\ pending \in [Task -> BOOLEAN] \/ pending = <<>>
    /\ gathered \in [Spawnable -> Colony] \/ gathered = <<>>
    /\ queen.at = "gather" => tracker \in [Task -> Tracked] /\ gathered \in [Spawnable -> Colony]

LEMMA TypeParts == TypeInv <=> ColonyTypes /\ PlanTypes
<1>1. TypeInv => ColonyTypes /\ PlanTypes
  BY DEF TypeInv, TypeOK, ColonyTypes, PlanTypes
<1>2. ASSUME ColonyTypes, PlanTypes
      PROVE  TypeInv
  <2>1. DOMAIN tracker \in {{}, Task} /\ DOMAIN pending \in {{}, Task}
    BY <1>2 DEF PlanTypes
  <2> QED
    BY <1>2, <2>1 DEF TypeInv, TypeOK, ColonyTypes, PlanTypes
<1> QED
  BY <1>1, <1>2

LEMMA TypePartsNext == (ColonyTypes /\ PlanTypes)' => TypeInv'
BY TypeParts, PTL

LEMMA Changed ==
    ASSUME NEW S, NEW T, NEW f \in [S -> T], NEW x \in S, NEW v \in T
    PROVE  [f EXCEPT ![x] = v] \in [S -> T]
OBVIOUS

LoopAt == {"none", "ready", "head", "round", "steps", "closing", "done"}
StatusAt == {"none", "running", "completed", "failed", "killed"}
FollowAt == {"none", "due", "continue", "told", "summed", "held", "quiet", "lost"}

LEMMA ColonyTypesNext ==
    ASSUME TypeInv, SpawnInv, [Next]_vars
    PROVE  ColonyTypes'
<1>0. ColonyTypes /\ TypeInv
  BY TypeParts
<1>1. CASE UNCHANGED vars
  BY <1>0, <1>1 DEF vars, money, thread, counts, ColonyTypes
<1>2. CASE Begins
  <2>1. Still /\ UNCHANGED restarts /\ edits' \in {edits, edits + 1}
    BY <1>2, BeginsFacts DEF Begun
  <2>2. edits' \in Nat
    BY <1>0, <2>1 DEF ColonyTypes
  <2> QED
    BY <1>0, <2>1, <2>2 DEF Still, money, thread, ColonyTypes
<1>3. CASE Spawns
  <2>1. PICK c \in Colony : Comes(c)
    BY <1>3, SpawnsFacts
  <2>2. status' \in [Colony -> {"none", "running", "completed", "failed", "killed"}]
        /\ loop' \in [Colony -> {"none", "ready", "head", "round", "steps", "closing", "done"}]
    BY <1>0, <2>1 DEF Comes, ColonyTypes
  <2> QED
    BY <1>0, <2>1, <2>2 DEF Comes, ColonyTypes
<1>4. CASE Edits
  BY <1>0, <1>4, EditsFacts DEF ColonyTypes
<1>5. CASE SpawnParallel
  BY <1>0, <1>5, ParallelFacts DEF ColonyTypes
<1>6. CASE PlanDispatched
  BY <1>0, <1>6, DispatchFacts DEF ColonyTypes
<1>7. CASE Restart
  <2>1. loop' \in [Colony -> {"none", "ready", "head", "round", "steps", "closing", "done"}]
        /\ total' \in [Colony -> Nat] /\ closing' \in [Colony -> Nat \cup {NoStep}]
    BY <1>7 DEF Restart
  <2>2. follow' \in [Colony -> {"none", "due", "continue", "told", "summed", "held", "quiet", "lost"}]
    BY <1>0, <1>7 DEF Restart, ColonyTypes
  <2>3. restarts' \in Nat
    BY <1>0, <1>7 DEF Restart, ColonyTypes
  <2> QED
    BY <1>0, <1>7, <2>1, <2>2, <2>3 DEF Restart, ColonyTypes, thread
<1>8. CASE \E t \in DOMAIN gathered : StartOne(t)
  <2>1. PICK t \in DOMAIN gathered : StartOne(t)
    BY <1>8
  <2>2. gathered[t] \in Colony /\ loop' = [loop EXCEPT ![gathered[t]] = "head"]
    BY <1>0, <2>1, StartFacts
  <2>3. loop' \in [Colony -> LoopAt]
    BY <1>0, <2>2, Changed DEF ColonyTypes, LoopAt
  <2> QED
    BY <1>0, <2>1, <2>3, StartFacts DEF ColonyTypes, LoopAt
<1>9. ASSUME NEW c \in Colony, RoundHead(c)
      PROVE  ColonyTypes'
  <2>1. loop' \in [Colony -> LoopAt]
    BY <1>0, <1>9, HeadFacts, Changed DEF ColonyTypes, LoopAt
  <2>2. status' \in [Colony -> StatusAt]
    BY <1>0, <1>9, HeadFacts, Changed DEF ColonyTypes, StatusAt
  <2>3. total' \in [Colony -> Nat]
    BY <1>0, <1>9, HeadFacts, Changed DEF ColonyTypes
  <2> QED
    BY <1>0, <1>9, <2>1, <2>2, <2>3, HeadFacts DEF ColonyTypes, LoopAt, StatusAt
<1>10. ASSUME NEW c \in Colony, RunRound(c)
       PROVE  ColonyTypes'
  <2>1. PICK n \in 0..RoundCost :
            paid' = [paid EXCEPT ![c] = paid[c] + n] /\ spent' = spent + n /\ Verdicts(c, n)
    BY <1>0, <1>10, RoundFacts
  <2>2. n \in Nat
    <3>1. RoundCost \in Nat
      BY WorkPlansAssumption
    <3> QED
      BY <3>1
  <2>3. paid' \in [Colony -> Nat] /\ spent' \in Nat
    BY <1>0, <2>1, <2>2 DEF ColonyTypes
  <2>4. total' \in [Colony -> Nat]
    <3>1. total \in [Colony -> Nat] /\ total[c] + n \in Nat
      BY <1>0, <2>2 DEF ColonyTypes
    <3> QED
      BY <2>1, <3>1, Changed DEF Verdicts
  <2>5. loop' \in [Colony -> LoopAt]
    BY <1>0, <2>1, Changed DEF ColonyTypes, LoopAt, Verdicts
  <2>6. status' \in [Colony -> StatusAt]
    BY <1>0, <2>1, Changed DEF ColonyTypes, StatusAt, Verdicts
  <2>7. follow' \in [Colony -> FollowAt]
    BY <1>0, <2>1, Changed DEF ColonyTypes, FollowAt, Verdicts
  <2>8. won' \subseteq Colony
    BY <1>0, <2>1 DEF ColonyTypes, Verdicts
  <2> QED
    BY <1>0, <1>10, <2>3, <2>4, <2>5, <2>6, <2>7, <2>8, RoundFacts
    DEF ColonyTypes, LoopAt, StatusAt, FollowAt
<1>11. ASSUME NEW c \in Colony, StepRead(c)
       PROVE  ColonyTypes'
  <2>1. loop' \in [Colony -> LoopAt]
    BY <1>0, <1>11, ReadFacts, Changed DEF ColonyTypes, LoopAt
  <2> QED
    BY <1>0, <1>11, <2>1, ReadFacts DEF ColonyTypes, LoopAt
<1>12. ASSUME NEW c \in Colony, StepClosed(c)
       PROVE  ColonyTypes'
  <2>0. loop' = [loop EXCEPT ![c] = "done"] /\ closing' = [closing EXCEPT ![c] = NoStep]
    BY <1>0, <1>12, ClosedFacts
  <2>1. loop' \in [Colony -> LoopAt]
    BY <1>0, <2>0 DEF ColonyTypes, LoopAt
  <2>2. closing' \in [Colony -> Nat \cup {NoStep}]
    BY <1>0, <2>0 DEF ColonyTypes
  <2>3. depth' \in Nat
    <3>1. depth \in Nat /\ depth' \in {depth, depth + 1}
      BY <1>0, <1>12, ClosedFacts DEF ColonyTypes
    <3> QED
      BY <3>1
  <2> QED
    BY <1>0, <1>12, <2>1, <2>2, <2>3, ClosedFacts DEF ColonyTypes, LoopAt
<1>13. ASSUME NEW c \in Colony, Kill(c)
       PROVE  ColonyTypes'
  <2>0. /\ loop' = [loop EXCEPT ![c] = "done"] /\ closing' = [closing EXCEPT ![c] = NoStep]
        /\ status' = [status EXCEPT ![c] = "killed"]
    BY <1>0, <1>13, KillFacts
  <2>1. loop' \in [Colony -> LoopAt]
    BY <1>0, <2>0 DEF ColonyTypes, LoopAt
  <2>2. closing' \in [Colony -> Nat \cup {NoStep}]
    BY <1>0, <2>0 DEF ColonyTypes
  <2>3. status' \in [Colony -> StatusAt]
    BY <1>0, <2>0 DEF ColonyTypes, StatusAt
  <2>4. total' \in [Colony -> Nat]
    <3>1. total \in [Colony -> Nat] /\ 0 \in Nat
      BY <1>0 DEF ColonyTypes
    <3>2. total' = [total EXCEPT ![c] = 0]
      BY <1>0, <1>13, KillFacts
    <3> QED
      BY <3>1, <3>2, Changed
  <2>5. edits' \in Nat
    BY <1>0, <1>13, KillFacts DEF ColonyTypes
  <2> QED
    BY <1>0, <1>13, <2>1, <2>2, <2>3, <2>4, <2>5, KillFacts DEF ColonyTypes, LoopAt, StatusAt
<1>14. ASSUME NEW c \in Colony, FollowUp(c)
       PROVE  ColonyTypes'
  <2>1. follow' \in [Colony -> FollowAt]
    BY <1>0, <1>14, FollowFacts, Changed DEF ColonyTypes, FollowAt
  <2> QED
    BY <1>0, <1>14, <2>1, FollowFacts DEF ColonyTypes, FollowAt
<1> QED
  BY NextCases, <1>1, <1>2, <1>3, <1>4, <1>5, <1>6, <1>7, <1>8, <1>9, <1>10, <1>11, <1>12,
     <1>13, <1>14

LEMMA PlanTypesNext ==
    ASSUME TypeInv, SpawnInv, [Next]_vars
    PROVE  PlanTypes'
<1>0. PlanTypes /\ TypeInv
  BY TypeParts
<1>1. CASE UNCHANGED vars
  BY <1>0, <1>1 DEF vars, plan, ops, PlanTypes
<1>2. CASE Begins
  <2>1. Still /\ Begun
    BY <1>2, BeginsFacts
  <2>2. UNCHANGED <<tracker, pending, gathered>>
    BY <2>1 DEF Still, plan
  <2>3. /\ queen' \in Operation({"idle", "spawn", "gather", "define"})
        /\ client' \in Operation({"idle", "spawn", "add", "edit"})
        /\ queen'.at = "define" => queen'.step \in Nat
        /\ client'.at = "add" => client'.step \in Nat
        /\ queen'.at = "gather" => queen' = queen
    BY <1>0, <2>1 DEF Begun, PlanTypes
  <2> QED
    BY <1>0, <2>2, <2>3 DEF PlanTypes
<1>3. CASE Spawns
  <2>1. PICK c \in Colony : Comes(c) /\ SpawnedBy(c)
    BY <1>3, SpawnsFacts
  <2>2. /\ queen' = queen \/ queen' = Idle
        /\ client' = client \/ client' = Idle
    BY <2>1 DEF SpawnedBy
  <2> QED
    BY <1>0, <2>1, <2>2, IdleTyped DEF Comes, PlanTypes
<1>4. CASE Edits
  <2>1. /\ UNCHANGED <<tracker, pending, gathered>>
        /\ queen' \in Operation({"idle", "spawn", "gather", "define"})
        /\ queen' = queen \/ queen' = Idle \/ (queen'.at = "define" /\ queen'.step \in Nat)
        /\ client' = client \/ client' = Idle
    BY <1>0, <1>4, EditsFacts, IdleTyped DEF PlanTypes
  <2> QED
    BY <1>0, <2>1, IdleTyped DEF PlanTypes
<1>5. CASE SpawnParallel
  BY <1>0, <1>5, ParallelFacts DEF PlanTypes
<1>6. CASE PlanDispatched
  BY <1>0, <1>6, DispatchFacts, IdleTyped DEF PlanTypes
<1>7. CASE Restart
  BY <1>0, <1>7, IdleTyped DEF Restart, PlanTypes
<1>8. CASE \E t \in DOMAIN gathered : StartOne(t)
  BY <1>0, <1>8, StartFacts DEF PlanTypes
<1>9. ASSUME NEW c \in Colony, RoundHead(c)
      PROVE  PlanTypes'
  BY <1>0, <1>9, HeadFacts DEF PlanTypes
<1>10. ASSUME NEW c \in Colony, RunRound(c)
       PROVE  PlanTypes'
  BY <1>0, <1>10, RoundFacts DEF PlanTypes
<1>11. ASSUME NEW c \in Colony, StepRead(c)
       PROVE  PlanTypes'
  BY <1>0, <1>11, ReadFacts DEF PlanTypes
<1>12. ASSUME NEW c \in Colony, StepClosed(c)
       PROVE  PlanTypes'
  BY <1>0, <1>12, ClosedFacts DEF PlanTypes
<1>13. ASSUME NEW c \in Colony, Kill(c)
       PROVE  PlanTypes'
  BY <1>0, <1>13, KillFacts DEF PlanTypes
<1>14. ASSUME NEW c \in Colony, FollowUp(c)
       PROVE  PlanTypes'
  <2>1. tracker' = tracker \/ tracker' = Marked(c)
    BY <1>0, <1>14, FollowFacts
  <2>2. /\ tracker' \in [Task -> Tracked] \/ tracker' = <<>>
        /\ tracker \in [Task -> Tracked] => tracker' \in [Task -> Tracked]
    BY <1>0, <2>1, MarkedFacts DEF PlanTypes
  <2>3. UNCHANGED <<queen, client, gathered>> /\ (pending' \in [Task -> BOOLEAN] \/ pending' = <<>>)
    BY <1>0, <1>14, FollowFacts
  <2> QED
    BY <1>0, <2>2, <2>3 DEF PlanTypes
<1> QED
  BY NextCases, <1>1, <1>2, <1>3, <1>4, <1>5, <1>6, <1>7, <1>8, <1>9, <1>10, <1>11, <1>12,
     <1>13, <1>14

LEMMA TypeNext ==
    ASSUME TypeInv, SpawnInv, [Next]_vars
    PROVE  TypeInv'
<1>1. ColonyTypes' /\ PlanTypes'
  BY ColonyTypesNext, PlanTypesNext
<1> QED
  BY <1>1, TypePartsNext

-----------------------------------------------------------------------------
(* Whoever is about to be spawned is nobody else's.                         *)

LEMMA SpawnInit == Init => SpawnInv
BY IdleTyped DEF Init, SpawnInv

LEMMA NotNone == \A c \in Colony : c # None
BY WorkPlansAssumption

(* A step that spawns nobody and takes nobody back to "none".               *)
LEMMA SpawnStays ==
    ASSUME SpawnInv,
           \A c \in Colony : status'[c] = "none" => status[c] = "none" /\ loop'[c] = loop[c],
           \A c \in Colony : status[c] = "none" => status'[c] = "none",
           queen' = queen \/ (queen'.at # "spawn" /\ (queen'.col = None \/ queen'.col = queen.col)),
           client' = client \/ client'.at # "spawn",
           gathered' = gathered \/ gathered' = <<>>
    PROVE  SpawnInv'
<1>1. \A c \in Colony : status'[c] = "none" => loop'[c] = "none"
  BY DEF SpawnInv
<1>2. queen'.at = "spawn" => queen'.col \in Colony /\ status'[queen'.col] = "none"
  BY DEF SpawnInv
<1>3. ASSUME client'.at = "spawn"
      PROVE  /\ client'.col \in Colony /\ status'[client'.col] = "none"
             /\ client'.col # queen'.col
             /\ \A t \in DOMAIN gathered' : gathered'[t] # client'.col
  <2>1. client' = client /\ client.at = "spawn"
    BY <1>3
  <2>2. client.col \in Colony /\ status[client.col] = "none" /\ client.col # queen.col
        /\ \A t \in DOMAIN gathered : gathered[t] # client.col
    BY <2>1 DEF SpawnInv
  <2>3. DOMAIN gathered' = {} \/ gathered' = gathered
    OBVIOUS
  <2>4. queen'.col = queen.col \/ queen'.col = None
    OBVIOUS
  <2> QED
    BY <2>1, <2>2, <2>3, <2>4, NotNone
<1> QED
  BY <1>1, <1>2, <1>3 DEF SpawnInv

LEMMA SpawnNext ==
    ASSUME TypeInv, SpawnInv, [Next]_vars
    PROVE  SpawnInv'
<1>0. /\ status \in [Colony -> StatusAt] /\ loop \in [Colony -> LoopAt]
      /\ gathered \in [Spawnable -> Colony] \/ gathered = <<>>
  BY DEF TypeInv, TypeOK, StatusAt, LoopAt
<1>1. CASE UNCHANGED vars
  BY <1>1, SpawnStays DEF vars, ops
<1>2. CASE Begins
  <2>1. UNCHANGED <<status, loop, gathered>> /\ Begun
    BY <1>2, BeginsFacts DEF Still
  <2>2. \A c \in Colony : Free(c) =>
            /\ status[c] = "none" /\ c # queen.col /\ c # client.col
            /\ \A t \in DOMAIN gathered : gathered[t] # c
    BY DEF Free, Range
  <2>3. CASE /\ UNCHANGED client
             /\ \/ queen'.at = "spawn" /\ \E c \in Colony : queen'.col = c /\ Free(c)
                \/ queen'.at = "define" /\ queen'.col = None
    <3>1. queen'.at = "spawn" => queen'.col \in Colony /\ status'[queen'.col] = "none"
      BY <2>1, <2>2, <2>3
    <3>2. client.at = "spawn" => client.col # queen'.col
      BY <2>2, <2>3, NotNone DEF SpawnInv
    <3> QED
      BY <2>1, <2>3, <3>1, <3>2 DEF SpawnInv
  <2>4. CASE /\ UNCHANGED queen
             /\ \/ client'.at = "spawn" /\ \E c \in Colony : client'.col = c /\ Free(c)
                \/ client'.at # "spawn"
    <3>1. client'.at = "spawn" =>
             /\ client'.col \in Colony /\ status'[client'.col] = "none"
             /\ client'.col # queen'.col
             /\ \A t \in DOMAIN gathered' : gathered'[t] # client'.col
      BY <2>1, <2>2, <2>4
    <3> QED
      BY <2>1, <2>4, <3>1 DEF SpawnInv
  <2> QED
    BY <2>1, <2>3, <2>4 DEF Begun
<1>3. CASE Spawns
  <2>1. PICK c \in Colony : Comes(c) /\ SpawnedBy(c)
    BY <1>3, SpawnsFacts
  <2>2. \A d \in Colony : status'[d] = "none" => d # c /\ status[d] = "none" /\ loop'[d] = loop[d]
    BY <1>0, <2>1 DEF Comes
  <2>3. \A d \in Colony : d # c => status'[d] = status[d]
    BY <1>0, <2>1 DEF Comes
  <2>4. \A d \in Colony : status'[d] = "none" => loop'[d] = "none"
    BY <2>2 DEF SpawnInv
  <2>5. queen'.at = "spawn" => queen'.col \in Colony /\ queen' = queen /\ queen.col # c
    BY <2>1, IdleTyped DEF SpawnedBy, SpawnInv
  <2>6. client'.at = "spawn" => client' = client /\ client.at = "spawn" /\ client.col # c
    BY <2>1, IdleTyped DEF SpawnedBy, SpawnInv
  <2>7. queen'.col = queen.col \/ queen'.col = None
    BY <2>1, IdleTyped DEF SpawnedBy
  <2>8. gathered' = gathered
    BY <2>1 DEF Comes
  <2>9. queen'.at = "spawn" => queen'.col \in Colony /\ status'[queen'.col] = "none"
    BY <2>3, <2>5 DEF SpawnInv
  <2>10. client'.at = "spawn" =>
            /\ client'.col \in Colony /\ status'[client'.col] = "none"
            /\ client'.col # queen'.col
            /\ \A t \in DOMAIN gathered' : gathered'[t] # client'.col
    BY <2>3, <2>6, <2>7, <2>8, NotNone DEF SpawnInv
  <2> QED
    BY <2>4, <2>9, <2>10 DEF SpawnInv
<1>4. CASE Edits
  <2>1. /\ UNCHANGED <<status, loop, gathered>>
        /\ queen' = queen \/ (queen'.at # "spawn" /\ (queen'.col = None \/ queen'.col = queen.col))
        /\ client' = client \/ client'.at # "spawn"
    BY <1>4, EditsFacts, IdleTyped
  <2> QED
    BY <2>1, SpawnStays
<1>5. CASE SpawnParallel
  <2>1. /\ UNCHANGED <<status, loop, client>> /\ queen'.at = "gather" /\ queen'.col = None
        /\ \A t \in DOMAIN gathered' : Free(gathered'[t])
    BY <1>5, ParallelFacts
  <2>2. \A c : Free(c) => c # client.col
    BY DEF Free
  <2> QED
    BY <2>1, <2>2, NotNone DEF SpawnInv
<1>6. CASE PlanDispatched
  BY <1>6, DispatchFacts, IdleTyped, SpawnStays
<1>7. CASE Restart
  <2>1. status' = status /\ queen'.at # "spawn" /\ client'.at # "spawn"
    BY <1>7, IdleTyped DEF Restart
  <2>2. \A c \in Colony : status[c] = "none" => loop'[c] = "none"
    BY <1>7 DEF Restart
  <2> QED
    BY <2>1, <2>2 DEF SpawnInv
<1>8. CASE \E t \in DOMAIN gathered : StartOne(t)
  <2>1. PICK t \in DOMAIN gathered : StartOne(t)
    BY <1>8
  <2>2. \A c \in Colony : status[c] = "none" => c # gathered[t]
    BY <2>1, StartFacts DEF SpawnInv
  <2>3. \A c \in Colony : status[c] = "none" => loop'[c] = loop[c]
    BY <1>0, <2>1, <2>2, StartFacts
  <2>4. UNCHANGED <<status, queen, client, gathered>>
    BY <2>1, StartFacts
  <2> QED
    BY <2>3, <2>4, SpawnStays
<1>9. ASSUME NEW c \in Colony, RoundHead(c) \/ RunRound(c) \/ StepRead(c) \/ StepClosed(c) \/ Kill(c)
      PROVE  SpawnInv'
  <2>1. status[c] # "none" /\ UNCHANGED <<queen, client, gathered>>
    <3>1. CASE RoundHead(c)
      BY <3>1, HeadFacts DEF SpawnInv
    <3>2. CASE RunRound(c)
      BY <3>2, RoundFacts DEF SpawnInv
    <3>3. CASE StepRead(c)
      BY <3>3, ReadFacts DEF SpawnInv
    <3>4. CASE StepClosed(c)
      BY <3>4, ClosedFacts DEF SpawnInv
    <3>5. CASE Kill(c)
      BY <3>5, KillFacts
    <3> QED
      BY <1>9, <3>1, <3>2, <3>3, <3>4, <3>5
  <2>2. \E s \in {"completed", "failed", "killed"} :
            status' = status \/ status' = [status EXCEPT ![c] = s]
    BY <1>9, HeadFacts, RoundFacts, ReadFacts, ClosedFacts, KillFacts DEF Verdicts
  <2>3. \E pc : loop' = [loop EXCEPT ![c] = pc]
    BY <1>9, HeadFacts, RoundFacts, ReadFacts, ClosedFacts, KillFacts DEF Verdicts
  <2>4. \A d \in Colony : d # c => status'[d] = status[d] /\ loop'[d] = loop[d]
    BY <1>0, <2>2, <2>3
  <2>5. status'[c] # "none"
    BY <1>0, <2>1, <2>2
  <2> QED
    BY <2>1, <2>4, <2>5, SpawnStays
<1>10. ASSUME NEW c \in Colony, FollowUp(c)
       PROVE  SpawnInv'
  BY <1>10, FollowFacts, SpawnStays
<1> QED
  BY NextCases, <1>1, <1>2, <1>3, <1>4, <1>5, <1>6, <1>7, <1>8, <1>9, <1>10

-----------------------------------------------------------------------------
(* What has ended.                                                          *)

LEMMA EndInit == Init => EndInv
BY DEF Init, EndInv

(* A verdict that has been followed up is only overwritten by a kill.       *)
VerdictStays ==
    \A d \in Colony : follow[d] # "none" => status'[d] \in {status[d], "killed"}

(* A step under which nobody ends, and who has ended goes nowhere.          *)
LEMMA EndStays ==
    ASSUME TypeInv, EndInv, won' = won,
           \A d \in Colony : status'[d] = "completed" => status[d] = "completed",
           \A d \in Colony : follow'[d] # "none" => follow[d] # "none",
           \A d \in Colony : d \in won \/ follow[d] # "none" =>
               loop'[d] \in Past /\ status'[d] \in {status[d], "killed"}
    PROVE  EndInv' /\ VerdictStays
<1>1. won \subseteq Colony
  BY DEF TypeInv, TypeOK
<1>2. ASSUME NEW d \in won
      PROVE  loop'[d] \in Past /\ status'[d] \in {"completed", "killed"}
  BY <1>1, <1>2 DEF EndInv
<1>3. ASSUME NEW d \in Colony, follow'[d] # "none"
      PROVE  loop'[d] \in Past /\ status'[d] \in {"completed", "failed", "killed"}
  BY <1>3 DEF EndInv
<1>4. Past' = Past
  BY DEF Past
<1>5. \A d \in Colony : status'[d] = "completed" => d \in won'
  BY DEF EndInv
<1> QED
  BY <1>2, <1>3, <1>4, <1>5 DEF EndInv, VerdictStays

LEMMA NotEnded ==
    ASSUME TypeInv, EndInv, NEW c \in Colony,
           loop[c] \in {"none", "ready", "head", "round"} \/ status[c] \in {"none", "running"}
    PROVE  c \notin won /\ follow[c] = "none"
BY DEF EndInv, Past

LEMMA EndNext ==
    ASSUME TypeInv, SpawnInv, EndInv, [Next]_vars
    PROVE  EndInv' /\ VerdictStays
<1>0. /\ status \in [Colony -> StatusAt] /\ loop \in [Colony -> LoopAt]
      /\ follow \in [Colony -> FollowAt] /\ won \subseteq Colony
  BY DEF TypeInv, TypeOK, StatusAt, LoopAt, FollowAt
<1>a. \A d \in Colony : d \in won \/ follow[d] # "none" => loop[d] \in Past
  BY DEF EndInv
<1>1. CASE UNCHANGED <<status, loop, follow, won>>
  BY <1>1, <1>a, EndStays
<1>2. CASE Begins
  BY <1>1, <1>2, BeginsFacts DEF Still
<1>3. CASE Spawns
  <2>1. PICK c \in Colony : Comes(c)
    BY <1>3, SpawnsFacts
  <2>2. c \notin won /\ follow[c] = "none"
    BY <2>1, NotEnded DEF Comes
  <2>3. \A d \in Colony : d # c => status'[d] = status[d] /\ loop'[d] = loop[d]
    BY <1>0, <2>1 DEF Comes
  <2>4. won' = won /\ follow' = follow
    BY <2>1 DEF Comes
  <2>5. status'[c] # "completed"
    BY <1>0, <2>1 DEF Comes
  <2> QED
    BY <1>a, <2>2, <2>3, <2>4, <2>5, EndStays
<1>4. CASE Edits
  BY <1>1, <1>4, EditsFacts
<1>5. CASE SpawnParallel
  BY <1>1, <1>5, ParallelFacts
<1>6. CASE PlanDispatched
  BY <1>1, <1>6, DispatchFacts
<1>7. CASE Restart
  <2>1. won' = won /\ status' = status
    BY <1>7 DEF Restart
  <2>2. \A d \in Colony : follow'[d] # "none" => follow[d] # "none"
    BY <1>7 DEF Restart
  <2>3. ASSUME NEW d \in Colony, d \in won \/ follow[d] # "none"
        PROVE  loop'[d] = "done"
    <3>1. status[d] # "running" /\ status[d] # "none"
      BY <2>3 DEF EndInv
    <3> QED
      BY <1>7, <3>1 DEF Restart
  <2> QED
    BY <2>1, <2>2, <2>3, EndStays DEF Past
<1>8. CASE \E t \in DOMAIN gathered : StartOne(t)
  <2>1. PICK t \in DOMAIN gathered : StartOne(t)
    BY <1>8
  <2>2. PICK c \in Colony : loop[c] = "ready" /\ loop' = [loop EXCEPT ![c] = "head"]
    BY <2>1, StartFacts
  <2>3. \A d \in Colony : d # c => loop'[d] = loop[d]
    BY <1>0, <2>2
  <2>4. UNCHANGED <<status, follow, won>>
    BY <2>1, StartFacts
  <2>5. c \notin won /\ follow[c] = "none"
    BY <2>2, NotEnded
  <2> QED
    BY <1>a, <2>3, <2>4, <2>5, EndStays
<1>9. ASSUME NEW c \in Colony, RoundHead(c)
      PROVE  EndInv' /\ VerdictStays
  <2>1. c \notin won /\ follow[c] = "none"
    BY <1>9, HeadFacts, NotEnded
  <2>2. \A d \in Colony : d # c => status'[d] = status[d] /\ loop'[d] = loop[d]
    BY <1>0, <1>9, HeadFacts
  <2>3. UNCHANGED <<follow, won>>
    BY <1>9, HeadFacts
  <2>4. status'[c] = "completed" => status[c] = "completed"
    BY <1>0, <1>9, HeadFacts
  <2> QED
    BY <1>a, <2>1, <2>2, <2>3, <2>4, EndStays
<1>10. ASSUME NEW c \in Colony, RunRound(c)
       PROVE  EndInv' /\ VerdictStays
  <2>1. c \notin won /\ follow[c] = "none"
    BY <1>10, RoundFacts, NotEnded
  <2>2. PICK n : Verdicts(c, n)
    BY <1>10, RoundFacts
  <2>3. \A d \in Colony : d # c =>
            status'[d] = status[d] /\ loop'[d] = loop[d] /\ follow'[d] = follow[d]
    BY <1>0, <2>2 DEF Verdicts
  <2>4. CASE won' = won /\ follow' = follow
    <3>1. status'[c] = "completed" => status[c] = "completed"
      BY <1>0, <2>1, <2>2, <2>4 DEF Verdicts
    <3> QED
      BY <1>a, <2>1, <2>3, <2>4, <3>1, EndStays
  <2>5. CASE /\ loop'[c] = "steps"
             /\ \/ status'[c] = "completed" /\ won' = won \cup {c}
                \/ status'[c] = "failed" /\ won' = won
    <3>1. \A d \in won' : loop'[d] \in Past /\ status'[d] \in {"completed", "killed"}
      BY <1>0, <2>1, <2>3, <2>5 DEF EndInv, Past
    <3>2. \A d \in Colony : follow'[d] # "none" =>
              loop'[d] \in Past /\ status'[d] \in {"completed", "failed", "killed"}
      BY <2>3, <2>5 DEF EndInv, Past
    <3>3. Past' = Past
      BY DEF Past
    <3>4. \A d \in Colony : status'[d] = "completed" => d \in won'
      BY <2>3, <2>5 DEF EndInv
    <3>5. VerdictStays
      BY <2>1, <2>3 DEF VerdictStays
    <3> QED
      BY <3>1, <3>2, <3>3, <3>4, <3>5 DEF EndInv
  <2>6. \/ won' = won /\ follow' = follow
        \/ /\ loop'[c] = "steps"
           /\ \/ status'[c] = "completed" /\ won' = won \cup {c}
              \/ status'[c] = "failed" /\ won' = won
    BY <1>0, <2>2 DEF Verdicts
  <2> QED
    BY <2>4, <2>5, <2>6
<1>11. ASSUME NEW c \in Colony, StepRead(c) \/ StepClosed(c)
       PROVE  EndInv' /\ VerdictStays
  <2>1. UNCHANGED <<status, follow, won>>
    BY <1>11, ReadFacts, ClosedFacts
  <2>2. \E pc \in {"closing", "done"} : loop' = [loop EXCEPT ![c] = pc]
    BY <1>11, ReadFacts, ClosedFacts
  <2>3. \A d \in Colony : loop[d] \in Past => loop'[d] \in Past
    BY <1>0, <2>2 DEF Past
  <2> QED
    BY <1>a, <2>1, <2>3, EndStays
<1>12. ASSUME NEW c \in Colony, Kill(c)
       PROVE  EndInv' /\ VerdictStays
  <2>1. UNCHANGED <<follow, won>> /\ loop' = [loop EXCEPT ![c] = "done"]
        /\ status' = [status EXCEPT ![c] = "killed"]
    BY <1>12, KillFacts
  <2>2. \A d \in Colony : loop[d] \in Past => loop'[d] \in Past
    BY <1>0, <2>1 DEF Past
  <2>3. \A d \in Colony : status'[d] \in {status[d], "killed"}
    BY <1>0, <2>1
  <2> QED
    BY <1>a, <2>1, <2>2, <2>3, EndStays
<1>13. ASSUME NEW c \in Colony, FollowUp(c)
       PROVE  EndInv' /\ VerdictStays
  <2>1. UNCHANGED <<status, loop, won>> /\ follow[c] # "none"
        /\ \E f : follow' = [follow EXCEPT ![c] = f]
    BY <1>13, FollowFacts
  <2>2. \A d \in Colony : d # c => follow'[d] = follow[d]
    BY <1>0, <2>1
  <2> QED
    BY <1>a, <2>1, <2>2, EndStays
<1>14. UNCHANGED vars => UNCHANGED <<status, loop, follow, won>>
  BY DEF vars
<1> QED
  BY NextCases, <1>1, <1>2, <1>3, <1>4, <1>5, <1>6, <1>7, <1>8, <1>9, <1>10, <1>11, <1>12,
     <1>13, <1>14

-----------------------------------------------------------------------------
(* The tracker.                                                             *)

LEMMA TrackInit == Init => TrackInv
BY DEF Init, TrackInv

(* A step that marks no task: who was told stays told, and loses no verdict. *)
LEMMA TrackStays ==
    ASSUME TrackInv, VerdictStays,
           \A d \in Colony : follow[d] = "told" => follow'[d] = "told" /\ (d \in won' <=> d \in won),
           \A d \in Colony : follow'[d] \notin {"summed", "held"},
           \A t \in DOMAIN tracker' : tracker'[t].state \in Ended =>
               t \in DOMAIN tracker /\ tracker'[t] = tracker[t]
    PROVE  TrackInv'
<1>1. ASSUME NEW t \in DOMAIN tracker', tracker'[t].state \in Ended
      PROVE  /\ tracker'[t].col \in Colony
             /\ follow'[tracker'[t].col] = "told"
             /\ tracker'[t].state = "failed" => tracker'[t].col \notin won'
             /\ tracker'[t].state = "completed" =>
                   tracker'[t].col \in won' \/ status'[tracker'[t].col] # "failed"
  <2>1. t \in DOMAIN tracker /\ tracker'[t] = tracker[t] /\ tracker[t].state \in Ended
    BY <1>1
  <2>2. /\ tracker[t].col \in Colony
        /\ follow[tracker[t].col] = "told"
        /\ tracker[t].state = "failed" => tracker[t].col \notin won
        /\ tracker[t].state = "completed" =>
              tracker[t].col \in won \/ status[tracker[t].col] # "failed"
    BY <2>1 DEF TrackInv
  <2>3. status[tracker[t].col] # "failed" => status'[tracker[t].col] # "failed"
    BY <2>2 DEF VerdictStays
  <2> QED
    BY <2>1, <2>2, <2>3
<1>2. Ended' = Ended
  BY DEF Ended
<1> QED
  BY <1>1, <1>2 DEF TrackInv

LEMMA TrackNext ==
    ASSUME TypeInv, SpawnInv, EndInv, TrackInv, [Next]_vars
    PROVE  TrackInv'
<1>0. follow \in [Colony -> FollowAt] /\ won \subseteq Colony
      /\ (tracker \in [Task -> Tracked] \/ tracker = <<>>)
  BY DEF TypeInv, TypeOK, FollowAt
<1>a. (\A d \in Colony : follow[d] \notin {"summed", "held"}) /\ VerdictStays
  BY EndNext DEF TrackInv
<1>1. CASE UNCHANGED <<tracker, follow, won>>
  BY <1>1, <1>a, TrackStays
<1>2. CASE Begins
  BY <1>1, <1>2, BeginsFacts DEF Still, plan
<1>3. CASE Spawns
  BY <1>1, <1>3, SpawnsFacts DEF Comes
<1>4. CASE Edits
  BY <1>1, <1>4, EditsFacts
<1>5. CASE SpawnParallel
  <2>1. UNCHANGED <<follow, won>> /\ \A t \in DOMAIN tracker' : tracker'[t].state \notin Ended
    BY <1>5, ParallelFacts DEF Ended
  <2> QED
    BY <1>a, <2>1, TrackStays
<1>6. CASE PlanDispatched
  <2>1. UNCHANGED <<follow, won>>
        /\ \A t \in DOMAIN tracker' : tracker'[t].state \in Ended =>
               t \in DOMAIN tracker /\ tracker'[t] = tracker[t]
    BY <1>6, DispatchFacts DEF Ended
  <2> QED
    BY <1>a, <2>1, TrackStays
<1>7. CASE Restart
  <2>1. won' = won /\ DOMAIN tracker' = {}
    BY <1>7 DEF Restart
  <2>2. \A d \in Colony : follow'[d] = follow[d] \/ (follow'[d] = "lost" /\ follow[d] # "told")
    BY <1>7 DEF Restart
  <2> QED
    BY <1>a, <2>1, <2>2, TrackStays
<1>8. CASE \E t \in DOMAIN gathered : StartOne(t)
  BY <1>1, <1>8, StartFacts
<1>9. ASSUME NEW c \in Colony, RoundHead(c) \/ StepRead(c) \/ StepClosed(c) \/ Kill(c)
      PROVE  TrackInv'
  BY <1>1, <1>9, HeadFacts, ReadFacts, ClosedFacts, KillFacts
<1>10. ASSUME NEW c \in Colony, RunRound(c)
       PROVE  TrackInv'
  <2>1. c \notin won /\ follow[c] = "none"
    BY <1>10, RoundFacts, NotEnded
  <2>2. PICK n : Verdicts(c, n)
    BY <1>10, RoundFacts
  <2>3. tracker' = tracker
    BY <1>10, RoundFacts
  <2>4. \A d \in Colony : d # c => follow'[d] = follow[d] /\ (d \in won' <=> d \in won)
    BY <1>0, <2>2 DEF Verdicts
  <2>5. follow'[c] \in {"none", "continue", "due"}
    BY <1>0, <2>1, <2>2 DEF Verdicts
  <2> QED
    BY <1>a, <2>1, <2>3, <2>4, <2>5, TrackStays
<1>11. ASSUME NEW c \in Colony, FollowUp(c)
       PROVE  TrackInv'
  <2>1. follow[c] \in {"due", "continue"} /\ won' = won /\ status' = status
    BY <1>11, FollowFacts
  <2>2. CASE follow' = [follow EXCEPT ![c] = "quiet"] /\ tracker' = tracker
    <3>1. \A d \in Colony : d # c => follow'[d] = follow[d]
      BY <1>0, <2>2
    <3>2. follow'[c] = "quiet"
      BY <1>0, <2>2
    <3> QED
      BY <1>a, <2>1, <2>2, <3>1, <3>2, TrackStays
  <2>3. CASE follow' = [follow EXCEPT ![c] = "told"] /\ tracker' = Marked(c)
    <3>1. follow'[c] = "told" /\ \A d \in Colony : d # c => follow'[d] = follow[d]
      BY <1>0, <2>3
    <3>2. ASSUME NEW t \in DOMAIN tracker', tracker'[t].state \in Ended
          PROVE  /\ tracker'[t].col \in Colony
                 /\ follow'[tracker'[t].col] = "told"
                 /\ tracker'[t].state = "failed" => tracker'[t].col \notin won'
                 /\ tracker'[t].state = "completed" =>
                       tracker'[t].col \in won' \/ status'[tracker'[t].col] # "failed"
      <4>1. /\ t \in DOMAIN tracker
            /\ \/ tracker'[t] = tracker[t]
               \/ tracker'[t].col = c /\ tracker'[t].state = Verdict(c)
        BY <1>0, <2>3, MarkedFacts
      <4>2. CASE tracker'[t] = tracker[t]
        <5>1. /\ tracker[t].col \in Colony
              /\ follow[tracker[t].col] = "told"
              /\ tracker[t].state = "failed" => tracker[t].col \notin won
              /\ tracker[t].state = "completed" =>
                    tracker[t].col \in won \/ status[tracker[t].col] # "failed"
          BY <3>2, <4>1, <4>2 DEF TrackInv
        <5> QED
          BY <2>1, <3>1, <4>2, <5>1
      <4>3. CASE tracker'[t].col = c /\ tracker'[t].state = Verdict(c)
        <5>1. Verdict(c) = "failed" <=> status[c] = "failed"
          BY DEF Verdict
        <5>2. status[c] = "failed" => c \notin won
          BY DEF EndInv
        <5> QED
          BY <2>1, <3>1, <4>3, <5>1, <5>2
      <4> QED
        BY <4>1, <4>2, <4>3
    <3>3. Ended' = Ended
      BY DEF Ended
    <3>4. \A d \in Colony : follow'[d] \notin {"summed", "held"}
      BY <1>a, <3>1
    <3> QED
      BY <3>2, <3>3, <3>4 DEF TrackInv
  <2> QED
    BY <1>11, <2>2, <2>3, FollowFacts
<1>12. UNCHANGED vars => UNCHANGED <<tracker, follow, won>>
  BY DEF vars, plan
<1> QED
  BY NextCases, <1>1, <1>2, <1>3, <1>4, <1>5, <1>6, <1>7, <1>8, <1>9, <1>10, <1>11, <1>12

-----------------------------------------------------------------------------
(* The depth of the thread.                                                 *)

LEMMA FiniteParts ==
    ASSUME TypeInv
    PROVE  /\ IsFiniteSet(won) /\ Cardinality(won) \in Nat
           /\ IsFiniteSet(Closing) /\ Cardinality(Closing) \in Nat
           /\ IsFiniteSet(InFlight) /\ Cardinality(InFlight) \in Nat
           /\ IsFiniteSet(Spawned) /\ Cardinality(Spawned) \in Nat
<1>1. IsFiniteSet(Colony)
  BY WorkPlansAssumption
<1>2. won \subseteq Colony /\ Closing \subseteq Colony
  BY DEF TypeInv, TypeOK, Closing
<1>3. InFlight \subseteq Colony /\ Spawned \subseteq Colony
  BY DEF InFlight, Spawned
<1>4. \A S \in SUBSET Colony : IsFiniteSet(S) /\ Cardinality(S) \in Nat
  BY <1>1, FS_Subset, FS_CardinalityType
<1> QED
  BY <1>2, <1>3, <1>4

LEMMA DepthInit == Init => DepthInv
<1> SUFFICES ASSUME Init
             PROVE  DepthInv
  OBVIOUS
<1>1. depth = 0 /\ won = {}
  BY DEF Init
<1>2. Closing = {}
  BY <1>1 DEF Closing
<1>3. Cardinality(Closing) = 0 /\ Cardinality(won) = 0
  BY <1>1, <1>2, FS_EmptySet
<1> QED
  BY <1>1, <1>3 DEF DepthInv

LEMMA DepthStays ==
    ASSUME TypeInv, DepthInv, depth' = depth, won' = won, Closing' \subseteq Closing
    PROVE  DepthInv'
<1>1. Cardinality(Closing') \in Nat /\ Cardinality(Closing') <= Cardinality(Closing)
  BY FiniteParts, FS_Subset, FS_CardinalityType
<1>2. Cardinality(Closing)' = Cardinality(Closing') /\ Cardinality(won)' = Cardinality(won)
  OBVIOUS
<1>3. /\ depth \in Nat /\ Cardinality(Closing) \in Nat /\ Cardinality(won) \in Nat
      /\ depth + Cardinality(Closing) <= Cardinality(won)
  BY FiniteParts DEF TypeInv, TypeOK, DepthInv
<1>4. depth' + Cardinality(Closing') <= Cardinality(won')
  BY <1>1, <1>2, <1>3
<1> QED
  BY <1>2, <1>4 DEF DepthInv

LEMMA DepthNext ==
    ASSUME TypeInv, SpawnInv, EndInv, DepthInv, [Next]_vars
    PROVE  DepthInv'
<1>0. loop \in [Colony -> LoopAt] /\ won \subseteq Colony /\ depth \in Nat
  BY DEF TypeInv, TypeOK, LoopAt
<1>1. CASE UNCHANGED <<loop, depth, won>>
  BY <1>1, DepthStays DEF Closing
<1>2. CASE Begins
  BY <1>1, <1>2, BeginsFacts DEF Still, thread
<1>3. CASE Spawns
  <2>1. PICK c \in Colony : Comes(c)
    BY <1>3, SpawnsFacts
  <2>2. c \notin won
    BY <2>1, NotEnded DEF Comes
  <2>3. \A d \in won : loop'[d] = loop[d]
    BY <1>0, <2>1, <2>2 DEF Comes
  <2>4. UNCHANGED <<depth, won>>
    BY <2>1 DEF Comes
  <2> QED
    BY <2>3, <2>4, DepthStays DEF Closing
<1>4. CASE Edits
  BY <1>1, <1>4, EditsFacts
<1>5. CASE SpawnParallel
  BY <1>1, <1>5, ParallelFacts
<1>6. CASE PlanDispatched
  BY <1>1, <1>6, DispatchFacts
<1>7. CASE Restart
  <2>1. UNCHANGED <<depth, won>> /\ \A d \in Colony : loop'[d] \notin {"steps", "closing"}
    BY <1>7 DEF Restart, thread
  <2> QED
    BY <1>0, <2>1, DepthStays DEF Closing
<1>8. CASE \E t \in DOMAIN gathered : StartOne(t)
  <2>1. PICK t \in DOMAIN gathered : StartOne(t)
    BY <1>8
  <2>2. \A d \in Colony : loop'[d] \in {"steps", "closing"} => loop'[d] = loop[d]
    BY <1>0, <2>1, StartFacts
  <2> QED
    BY <1>0, <2>1, <2>2, StartFacts, DepthStays DEF Closing
<1>9. ASSUME NEW c \in Colony, RoundHead(c)
      PROVE  DepthInv'
  <2>1. \A d \in Colony : loop'[d] \in {"steps", "closing"} => loop'[d] = loop[d]
    BY <1>0, <1>9, HeadFacts
  <2> QED
    BY <1>0, <1>9, <2>1, HeadFacts, DepthStays DEF Closing
<1>10. ASSUME NEW c \in Colony, RunRound(c)
       PROVE  DepthInv'
  <2>1. c \notin won /\ depth' = depth
    BY <1>10, RoundFacts, NotEnded
  <2>2. PICK n : Verdicts(c, n)
    BY <1>10, RoundFacts
  <2>3. \A d \in Colony : d # c => loop'[d] = loop[d]
    BY <1>0, <2>2 DEF Verdicts
  <2>4. CASE won' = won
    <3>1. Closing' \subseteq Closing
      BY <1>0, <2>1, <2>3, <2>4 DEF Closing
    <3> QED
      BY <2>1, <2>4, <3>1, DepthStays
  <2>5. CASE won' = won \cup {c}
    <3>1. Closing' \subseteq Closing \cup {c}
      BY <1>0, <2>3, <2>5 DEF Closing
    <3>2. c \notin Closing
      BY <2>1 DEF Closing
    <3>3. Cardinality(won \cup {c}) = Cardinality(won) + 1
      BY <2>1, FiniteParts, FS_AddElement
    <3>4. /\ IsFiniteSet(Closing \cup {c})
          /\ Cardinality(Closing \cup {c}) = Cardinality(Closing) + 1
      BY <3>2, FiniteParts, FS_AddElement
    <3>5. Cardinality(Closing') \in Nat /\ Cardinality(Closing') <= Cardinality(Closing) + 1
      BY <3>1, <3>4, FS_Subset, FS_CardinalityType
    <3>6. Cardinality(won') = Cardinality(won) + 1
      BY <2>5, <3>3
    <3>7. /\ Cardinality(Closing) \in Nat /\ Cardinality(won) \in Nat
          /\ depth + Cardinality(Closing) <= Cardinality(won)
      BY FiniteParts DEF DepthInv
    <3>8. depth' + Cardinality(Closing') <= Cardinality(won')
      BY <1>0, <2>1, <3>5, <3>6, <3>7
    <3> QED
      BY <3>8 DEF DepthInv
  <2> QED
    BY <2>2, <2>4, <2>5 DEF Verdicts
<1>11. ASSUME NEW c \in Colony, StepRead(c)
       PROVE  DepthInv'
  <2>1. UNCHANGED <<depth, won>> /\ \A d \in Colony : loop'[d] \in {"steps", "closing"} =>
                                       loop[d] \in {"steps", "closing"}
    <3>1. \A d \in Colony : d # c => loop'[d] = loop[d]
      BY <1>0, <1>11, ReadFacts
    <3> QED
      BY <1>11, <3>1, ReadFacts
  <2> QED
    BY <1>0, <2>1, DepthStays DEF Closing
<1>12. ASSUME NEW c \in Colony, StepClosed(c)
       PROVE  DepthInv'
  <2>1. loop[c] = "closing" /\ loop' = [loop EXCEPT ![c] = "done"] /\ won' = won
        /\ depth' \in {depth, depth + 1} /\ (c \notin won => depth' = depth)
    BY <1>12, ClosedFacts
  <2>2. Closing' = Closing \ {c}
    BY <1>0, <2>1 DEF Closing
  <2>3. CASE depth' = depth
    BY <2>1, <2>2, <2>3, DepthStays
  <2>4. CASE c \in won /\ depth' = depth + 1
    <3>1. c \in Closing
      BY <2>1, <2>4 DEF Closing
    <3>2. Cardinality(Closing \ {c}) = Cardinality(Closing) - 1
      BY <3>1, FiniteParts, FS_RemoveElement
    <3>3. Cardinality(Closing') = Cardinality(Closing) - 1
      BY <2>2, <3>2
    <3>4. /\ Cardinality(Closing) \in Nat /\ Cardinality(won) \in Nat
          /\ depth + Cardinality(Closing) <= Cardinality(won)
      BY FiniteParts DEF DepthInv
    <3>5. Cardinality(won') = Cardinality(won)
      BY <2>1
    <3>6. depth' + Cardinality(Closing') <= Cardinality(won')
      BY <1>0, <2>4, <3>3, <3>4, <3>5
    <3> QED
      BY <3>6 DEF DepthInv
  <2> QED
    BY <2>1, <2>3, <2>4
<1>13. ASSUME NEW c \in Colony, Kill(c)
       PROVE  DepthInv'
  <2>1. UNCHANGED <<depth, won>> /\ loop' = [loop EXCEPT ![c] = "done"]
    BY <1>13, KillFacts
  <2>2. Closing' \subseteq Closing
    BY <1>0, <2>1 DEF Closing
  <2> QED
    BY <2>1, <2>2, DepthStays
<1>14. ASSUME NEW c \in Colony, FollowUp(c)
       PROVE  DepthInv'
  BY <1>1, <1>14, FollowFacts
<1>15. UNCHANGED vars => UNCHANGED <<loop, depth, won>>
  BY DEF vars, thread
<1> QED
  BY NextCases, <1>1, <1>2, <1>3, <1>4, <1>5, <1>6, <1>7, <1>8, <1>9, <1>10, <1>11, <1>12,
     <1>13, <1>14, <1>15

-----------------------------------------------------------------------------
(* The money.                                                               *)

LEMMA Limits ==
    /\ RoundCost \in Nat /\ Limit \in Nat /\ Limit >= 1
    /\ ColonyLimit \in Nat /\ ColonyLimit >= 1 /\ Once \in Nat
<1>1. RoundCost \in Nat /\ Limit \in Nat \ {0} /\ ColonyLimit \in Nat \ {0}
  BY WorkPlansAssumption
<1> QED
  BY <1>1 DEF Once

LEMMA Times ==
    ASSUME NEW r \in Nat, NEW a \in Nat, NEW b \in Nat
    PROVE  /\ r * a \in Nat /\ r * (a + 1) = r * a + r
           /\ a <= b => r * a <= r * b
<1>1. r * a \in Nat /\ r * (a + 1) = r * a + r
  OBVIOUS
<1>2. ASSUME a <= b
      PROVE  r * a <= r * b
  <2>1. PICK d \in Nat : b = a + d
    <3>1. b - a \in Nat /\ b = a + (b - a)
      BY <1>2
    <3> QED
      BY <3>1
  <2>2. r * (a + d) = r * a + r * d /\ r * d \in Nat
    OBVIOUS
  <2> QED
    BY <1>1, <2>1, <2>2
<1> QED
  BY <1>1, <1>2

LEMMA Parts ==
    \A S, T \in SUBSET Colony :
        /\ IsFiniteSet(S) /\ Cardinality(S) \in Nat
        /\ S \subseteq T => Cardinality(S) <= Cardinality(T)
<1>1. IsFiniteSet(Colony)
  BY WorkPlansAssumption
<1> QED
  BY <1>1, FS_Subset, FS_CardinalityType

LEMMA WorkspaceStays ==
    ASSUME TypeInv, WorkspaceSpend, spent' = spent, InFlight' \subseteq InFlight,
           Spawned \subseteq Spawned'
    PROVE  WorkspaceSpend'
<1>1. InFlight \subseteq Colony /\ Spawned' \subseteq Colony
  BY DEF InFlight, Spawned
<1>2. /\ Cardinality(InFlight') \in Nat /\ Cardinality(InFlight) \in Nat
      /\ Cardinality(InFlight') <= Cardinality(InFlight)
      /\ Cardinality(Spawned') \in Nat /\ Cardinality(Spawned) \in Nat
      /\ Cardinality(Spawned) <= Cardinality(Spawned')
  BY <1>1, Parts
<1> DEFINE f == RoundCost * Cardinality(InFlight)
           g == RoundCost * Cardinality(InFlight')
           s == RoundCost * Cardinality(Spawned)
           t == RoundCost * Cardinality(Spawned')
<1>3. f \in Nat /\ g \in Nat /\ s \in Nat /\ t \in Nat /\ g <= f /\ s <= t
  BY <1>2, Limits, Times
<1>4. spent + f <= Limit - 1 + s
  BY DEF WorkspaceSpend
<1>5. WorkspaceSpend' <=> spent' + g <= Limit - 1 + t
  BY DEF WorkspaceSpend
<1>6. spent \in Nat /\ Limit \in Nat
  BY Limits DEF TypeInv, TypeOK
<1> HIDE DEF f, g, s, t
<1>7. spent' + g <= Limit - 1 + t
  BY <1>3, <1>4, <1>6
<1> QED
  BY <1>5, <1>7

(* A round begins below the limit, with every round in flight a colony's.   *)
LEMMA RoundBegins ==
    ASSUME TypeInv, WorkspaceSpend, ~HardStop, spent' = spent, InFlight' \subseteq Spawned'
    PROVE  WorkspaceSpend'
<1>1. Spawned' \subseteq Colony
  BY DEF Spawned
<1>2. /\ Cardinality(InFlight') \in Nat /\ Cardinality(Spawned') \in Nat
      /\ Cardinality(InFlight') <= Cardinality(Spawned')
  BY <1>1, Parts
<1> DEFINE g == RoundCost * Cardinality(InFlight')
           t == RoundCost * Cardinality(Spawned')
<1>3. g \in Nat /\ t \in Nat /\ g <= t
  BY <1>2, Limits, Times
<1>4. spent \in Nat /\ Limit \in Nat /\ ~(spent >= Limit)
  BY Limits DEF TypeInv, TypeOK, HardStop
<1>5. WorkspaceSpend' <=> spent' + g <= Limit - 1 + t
  BY DEF WorkspaceSpend
<1> HIDE DEF g, t
<1>6. spent' + g <= Limit - 1 + t
  BY <1>3, <1>4
<1> QED
  BY <1>5, <1>6

LEMMA RoundPaid ==
    ASSUME TypeInv, WorkspaceSpend, NEW c \in InFlight, NEW n \in Nat, n <= RoundCost,
           spent' = spent + n, InFlight' = InFlight \ {c}, Spawned \subseteq Spawned'
    PROVE  WorkspaceSpend'
<1>1. InFlight \subseteq Colony /\ Spawned' \subseteq Colony
  BY DEF InFlight, Spawned
<1>2. /\ IsFiniteSet(InFlight) /\ Cardinality(InFlight) \in Nat
      /\ Cardinality(Spawned') \in Nat /\ Cardinality(Spawned) \in Nat
      /\ Cardinality(Spawned) <= Cardinality(Spawned')
  BY <1>1, Parts
<1>3. Cardinality(InFlight \ {c}) \in Nat /\ Cardinality(InFlight) = Cardinality(InFlight \ {c}) + 1
  <2>1. Cardinality(InFlight \ {c}) = Cardinality(InFlight) - 1
    BY <1>2, FS_RemoveElement
  <2>2. Cardinality(InFlight \ {c}) \in Nat
    BY <1>1, Parts
  <2> QED
    BY <1>2, <2>1, <2>2
<1>4. Cardinality(InFlight') \in Nat /\ Cardinality(InFlight) = Cardinality(InFlight') + 1
  BY <1>3
<1> DEFINE f == RoundCost * Cardinality(InFlight)
           g == RoundCost * Cardinality(InFlight')
           s == RoundCost * Cardinality(Spawned)
           t == RoundCost * Cardinality(Spawned')
<1>5. f \in Nat /\ g \in Nat /\ s \in Nat /\ t \in Nat /\ s <= t /\ f = g + RoundCost
  BY <1>2, <1>4, Limits, Times
<1>6. spent + f <= Limit - 1 + s
  BY DEF WorkspaceSpend
<1>7. WorkspaceSpend' <=> spent' + g <= Limit - 1 + t
  BY DEF WorkspaceSpend
<1>8. spent \in Nat /\ Limit \in Nat /\ RoundCost \in Nat
  BY Limits DEF TypeInv, TypeOK
<1> HIDE DEF f, g, s, t
<1>9. spent' + g <= Limit - 1 + t
  BY <1>5, <1>6, <1>8
<1> QED
  BY <1>7, <1>9

LEMMA WorkspaceNext ==
    ASSUME TypeInv, SpawnInv, WorkspaceSpend, [Next]_vars
    PROVE  WorkspaceSpend'
<1>0. /\ status \in [Colony -> StatusAt] /\ loop \in [Colony -> LoopAt]
  BY DEF TypeInv, TypeOK, StatusAt, LoopAt
<1>1. CASE UNCHANGED <<spent, loop, status>>
  BY <1>1, WorkspaceStays DEF InFlight, Spawned
<1>2. CASE Begins
  BY <1>1, <1>2, BeginsFacts DEF Still, money
<1>3. CASE Spawns
  <2>1. PICK c \in Colony : Comes(c)
    BY <1>3, SpawnsFacts
  <2>2. InFlight' \subseteq InFlight /\ Spawned \subseteq Spawned'
    BY <1>0, <2>1 DEF Comes, InFlight, Spawned
  <2> QED
    BY <2>1, <2>2, WorkspaceStays DEF Comes
<1>4. CASE Edits
  BY <1>1, <1>4, EditsFacts
<1>5. CASE SpawnParallel
  BY <1>1, <1>5, ParallelFacts
<1>6. CASE PlanDispatched
  BY <1>1, <1>6, DispatchFacts
<1>7. CASE Restart
  <2>1. UNCHANGED <<spent, status>> /\ \A d \in Colony : loop'[d] # "round"
    BY <1>7 DEF Restart
  <2> QED
    BY <2>1, WorkspaceStays DEF InFlight, Spawned
<1>8. CASE \E t \in DOMAIN gathered : StartOne(t)
  <2>1. PICK t \in DOMAIN gathered : StartOne(t)
    BY <1>8
  <2>2. InFlight' \subseteq InFlight
    BY <1>0, <2>1, StartFacts DEF InFlight
  <2>3. Spawned \subseteq Spawned' /\ spent' = spent
    BY <2>1, StartFacts DEF Spawned
  <2> QED
    BY <2>2, <2>3, WorkspaceStays
<1>9. ASSUME NEW c \in Colony, RoundHead(c)
      PROVE  WorkspaceSpend'
  <2>1. spent' = spent
    BY <1>9, HeadFacts
  <2>2. CASE HardStop
    <3>1. InFlight' \subseteq InFlight
      BY <1>0, <1>9, <2>2, HeadFacts DEF InFlight
    <3>2. Spawned \subseteq Spawned'
      BY <1>0, <1>9, <2>2, HeadFacts DEF Spawned
    <3> QED
      BY <2>1, <3>1, <3>2, WorkspaceStays
  <2>3. CASE ~HardStop
    <3>1. SpawnInv'
      BY <1>9, SpawnNext
    <3>2. InFlight' \subseteq Spawned'
      BY <3>1 DEF SpawnInv, InFlight, Spawned
    <3> QED
      BY <2>1, <2>3, <3>2, RoundBegins
  <2> QED
    BY <2>2, <2>3
<1>10. ASSUME NEW c \in Colony, RunRound(c)
       PROVE  WorkspaceSpend'
  <2>1. PICK n \in 0..RoundCost : spent' = spent + n /\ Verdicts(c, n)
    BY <1>10, RoundFacts
  <2>2. n \in Nat /\ n <= RoundCost
    BY Limits
  <2>3. c \in InFlight
    BY <1>10, RoundFacts DEF InFlight
  <2>4. InFlight' = InFlight \ {c}
    <3>1. loop'[c] # "round" /\ \A d \in Colony : d # c => loop'[d] = loop[d]
      BY <1>0, <2>1 DEF Verdicts
    <3> QED
      BY <3>1 DEF InFlight
  <2>5. Spawned \subseteq Spawned'
    <3>1. \A d \in Colony : status[d] # "none" => status'[d] # "none"
      BY <1>0, <2>1 DEF Verdicts
    <3> QED
      BY <3>1 DEF Spawned
  <2> QED
    BY <2>1, <2>2, <2>3, <2>4, <2>5, RoundPaid
<1>11. ASSUME NEW c \in Colony, StepRead(c) \/ StepClosed(c)
       PROVE  WorkspaceSpend'
  <2>1. /\ UNCHANGED <<spent, status>>
        /\ \E pc \in {"closing", "done"} : loop' = [loop EXCEPT ![c] = pc]
    BY <1>11, ReadFacts, ClosedFacts
  <2>2. InFlight' \subseteq InFlight
    BY <1>0, <2>1 DEF InFlight
  <2> QED
    BY <2>1, <2>2, WorkspaceStays DEF Spawned
<1>12. ASSUME NEW c \in Colony, Kill(c)
       PROVE  WorkspaceSpend'
  <2>1. spent' = spent /\ loop' = [loop EXCEPT ![c] = "done"]
        /\ status' = [status EXCEPT ![c] = "killed"]
    BY <1>12, KillFacts
  <2>2. InFlight' \subseteq InFlight
    BY <1>0, <2>1 DEF InFlight
  <2>3. Spawned \subseteq Spawned'
    BY <1>0, <2>1 DEF Spawned
  <2> QED
    BY <2>1, <2>2, <2>3, WorkspaceStays
<1>13. ASSUME NEW c \in Colony, FollowUp(c)
       PROVE  WorkspaceSpend'
  BY <1>1, <1>13, FollowFacts
<1>14. UNCHANGED vars => UNCHANGED <<spent, loop, status>>
  BY DEF vars, money
<1> QED
  BY NextCases, <1>1, <1>2, <1>3, <1>4, <1>5, <1>6, <1>7, <1>8, <1>9, <1>10, <1>11, <1>12,
     <1>13, <1>14

LEMMA SpendInit == Init => SpendInv
<1> SUFFICES ASSUME Init
             PROVE  SpendInv
  OBVIOUS
<1>1. spent = 0 /\ restarts = 0
      /\ \A c \in Colony : loop[c] = "none" /\ status[c] = "none" /\ total[c] = 0 /\ paid[c] = 0
  BY DEF Init
<1>2. InFlight = {} /\ Spawned = {}
  BY <1>1 DEF InFlight, Spawned
<1>3. Cardinality(InFlight) = 0 /\ Cardinality(Spawned) = 0
  BY <1>2, FS_EmptySet
<1>4. RoundCost * 0 = 0 /\ 0 * Once = 0 /\ (0 + 1) * Once = Once
  BY Limits
<1>5. WorkspaceSpend
  BY <1>1, <1>3, <1>4, Limits DEF WorkspaceSpend
<1>6. \A c \in Colony : ColonySpend(c)
  BY <1>1, <1>4, Limits DEF ColonySpend
<1> QED
  BY <1>5, <1>6 DEF SpendInv

(* A step without a cost, under which no loop comes to life.                *)
LEMMA ColonyStays ==
    ASSUME NEW c \in Colony, ColonySpend(c), restarts' = restarts, paid'[c] = paid[c],
           loop'[c] \in Live => loop[c] \in Live /\ total'[c] = total[c]
    PROVE  ColonySpend(c)'
<1>1. Live' = Live /\ Once' = Once
  BY DEF Live, Once
<1> QED
  BY <1>1 DEF ColonySpend

LEMMA ColonyPays ==
    ASSUME TypeInv, NEW c \in Colony, ColonySpend(c), loop[c] = "round",
           NEW n \in Nat, n <= RoundCost, restarts' = restarts, paid'[c] = paid[c] + n,
           loop'[c] \in Live => total[c] + n < ColonyLimit /\ total'[c] = total[c] + n
    PROVE  ColonySpend(c)'
<1>1. paid[c] \in Nat /\ total[c] \in Nat /\ restarts \in Nat
  BY DEF TypeInv, TypeOK
<1> DEFINE b == restarts * Once
           d == (restarts + 1) * Once
<1>2. b \in Nat /\ d = b + Once
  BY <1>1, Limits
<1>3. total[c] <= ColonyLimit - 1 /\ paid[c] <= b + total[c]
  BY DEF ColonySpend, Live
<1>4. Once = ColonyLimit - 1 + RoundCost /\ Live' = Live /\ Once' = Once
  BY DEF Once, Live
<1>5. ColonySpend(c)' <=> /\ loop'[c] \in Live => /\ total'[c] <= ColonyLimit - 1
                                                   /\ paid'[c] <= b + total'[c]
                          /\ paid'[c] <= d
  BY <1>4 DEF ColonySpend
<1> HIDE DEF b, d
<1>6. paid'[c] <= d
  BY <1>1, <1>2, <1>3, <1>4, Limits
<1>7. ASSUME loop'[c] \in Live
      PROVE  total'[c] <= ColonyLimit - 1 /\ paid'[c] <= b + total'[c]
  BY <1>1, <1>2, <1>3, <1>7, Limits
<1> QED
  BY <1>5, <1>6, <1>7

LEMMA ColonyRestarts ==
    ASSUME TypeInv, NEW c \in Colony, ColonySpend(c), restarts' = restarts + 1,
           paid'[c] = paid[c], total'[c] = 0
    PROVE  ColonySpend(c)'
<1>1. paid[c] \in Nat /\ restarts \in Nat /\ Once' = Once
  BY DEF TypeInv, TypeOK, Once
<1> DEFINE b == (restarts + 1) * Once
           d == (restarts + 1 + 1) * Once
<1>2. b \in Nat /\ d = b + Once /\ Once \in Nat
  BY <1>1, Limits
<1>3. paid[c] <= b
  BY DEF ColonySpend
<1>4. restarts' * Once = b /\ (restarts' + 1) * Once = d
  OBVIOUS
<1> HIDE DEF b, d
<1>5. paid'[c] <= b + total'[c] /\ paid'[c] <= d /\ total'[c] <= ColonyLimit - 1
  BY <1>1, <1>2, <1>3, Limits
<1> QED
  BY <1>1, <1>4, <1>5 DEF ColonySpend

LEMMA ColoniesNext ==
    ASSUME TypeInv, SpawnInv, SpendInv, [Next]_vars, NEW d \in Colony
    PROVE  ColonySpend(d)'
<1>0. /\ loop \in [Colony -> LoopAt] /\ total \in [Colony -> Nat] /\ paid \in [Colony -> Nat]
      /\ ColonySpend(d)
  BY DEF TypeInv, TypeOK, LoopAt, SpendInv
<1>1. CASE UNCHANGED <<paid, total, loop, restarts>>
  BY <1>0, <1>1, ColonyStays
<1>2. CASE Begins
  BY <1>1, <1>2, BeginsFacts DEF Still, money
<1>3. CASE Spawns
  <2>1. PICK c \in Colony : Comes(c)
    BY <1>3, SpawnsFacts
  <2>2. loop'[d] \in Live => loop[d] \in Live
    <3>1. CASE d = c
      BY <2>1, <3>1 DEF Comes, SpawnInv, Live
    <3>2. CASE d # c
      BY <1>0, <2>1, <3>2 DEF Comes
    <3> QED
      BY <3>1, <3>2
  <2> QED
    BY <1>0, <2>1, <2>2, ColonyStays DEF Comes
<1>4. CASE Edits
  BY <1>1, <1>4, EditsFacts
<1>5. CASE SpawnParallel
  BY <1>1, <1>5, ParallelFacts
<1>6. CASE PlanDispatched
  BY <1>1, <1>6, DispatchFacts
<1>7. CASE Restart
  <2>1. restarts' = restarts + 1 /\ paid' = paid /\ total'[d] = 0
    BY <1>7 DEF Restart
  <2> QED
    BY <1>0, <2>1, ColonyRestarts
<1>8. CASE \E t \in DOMAIN gathered : StartOne(t)
  <2>1. PICK t \in DOMAIN gathered : StartOne(t)
    BY <1>8
  <2>2. loop'[d] \in Live => loop[d] \in Live
    BY <1>0, <2>1, StartFacts DEF Live
  <2> QED
    BY <1>0, <2>1, <2>2, StartFacts, ColonyStays
<1>9. ASSUME NEW c \in Colony, RoundHead(c)
      PROVE  ColonySpend(d)'
  <2>1. restarts' = restarts /\ paid' = paid /\ loop[c] = "head"
    BY <1>9, HeadFacts
  <2>2. loop'[d] \in Live => loop[d] \in Live /\ total'[d] = total[d]
    <3>1. CASE HardStop
      BY <1>0, <1>9, <3>1, HeadFacts DEF Live
    <3>2. CASE ~HardStop
      BY <1>0, <1>9, <3>2, HeadFacts DEF Live
    <3> QED
      BY <3>1, <3>2
  <2> QED
    BY <1>0, <2>1, <2>2, ColonyStays
<1>10. ASSUME NEW c \in Colony, RunRound(c)
       PROVE  ColonySpend(d)'
  <2>1. PICK n \in 0..RoundCost : paid' = [paid EXCEPT ![c] = paid[c] + n] /\ Verdicts(c, n)
    BY <1>10, RoundFacts
  <2>2. n \in Nat /\ n <= RoundCost
    BY Limits
  <2>3. restarts' = restarts /\ loop[c] = "round"
    BY <1>10, RoundFacts
  <2>4. CASE d # c
    <3>1. paid'[d] = paid[d] /\ loop'[d] = loop[d] /\ total'[d] = total[d]
      BY <1>0, <2>1, <2>4 DEF Verdicts
    <3> QED
      BY <1>0, <2>3, <3>1, ColonyStays
  <2>5. CASE d = c
    <3>1. paid'[c] = paid[c] + n
      BY <1>0, <2>1
    <3>2. loop'[c] \in Live => total[c] + n < ColonyLimit /\ total'[c] = total[c] + n
      BY <1>0, <2>1 DEF Verdicts, Live
    <3> QED
      BY <1>0, <2>2, <2>3, <2>5, <3>1, <3>2, ColonyPays
  <2> QED
    BY <2>4, <2>5
<1>11. ASSUME NEW c \in Colony, StepRead(c) \/ StepClosed(c)
       PROVE  ColonySpend(d)'
  <2>1. UNCHANGED <<paid, total, restarts>>
        /\ \E pc \in {"closing", "done"} : loop' = [loop EXCEPT ![c] = pc]
    BY <1>11, ReadFacts, ClosedFacts
  <2>2. loop'[d] \in Live => loop[d] \in Live
    BY <1>0, <2>1 DEF Live
  <2> QED
    BY <1>0, <2>1, <2>2, ColonyStays
<1>12. ASSUME NEW c \in Colony, Kill(c)
       PROVE  ColonySpend(d)'
  <2>1. UNCHANGED <<paid, restarts>> /\ loop' = [loop EXCEPT ![c] = "done"]
        /\ total' = [total EXCEPT ![c] = 0]
    BY <1>12, KillFacts
  <2>2. loop'[d] \in Live => loop[d] \in Live /\ total'[d] = total[d]
    BY <1>0, <2>1 DEF Live
  <2> QED
    BY <1>0, <2>1, <2>2, ColonyStays
<1>13. ASSUME NEW c \in Colony, FollowUp(c)
       PROVE  ColonySpend(d)'
  BY <1>1, <1>13, FollowFacts
<1>14. UNCHANGED vars => UNCHANGED <<paid, total, loop, restarts>>
  BY DEF vars, money, counts
<1> QED
  BY NextCases, <1>1, <1>2, <1>3, <1>4, <1>5, <1>6, <1>7, <1>8, <1>9, <1>10, <1>11, <1>12,
     <1>13, <1>14

-----------------------------------------------------------------------------
(* The invariant of the thread and what it is for.                          *)

IInv == TypeInv /\ SpawnInv /\ EndInv /\ DepthInv /\ SpendInv /\ TrackInv

LEMMA Invariant == Spec => []IInv
<1>1. Init => IInv
  BY TypeInit, SpawnInit, EndInit, DepthInit, SpendInit, TrackInit DEF IInv
<1>2. IInv /\ [Next]_vars => IInv'
  <2> SUFFICES ASSUME IInv, [Next]_vars
               PROVE  IInv'
    OBVIOUS
  <2>1. TypeInv /\ SpawnInv /\ EndInv /\ DepthInv /\ SpendInv /\ TrackInv
    BY DEF IInv
  <2>2. TypeInv' /\ SpawnInv' /\ EndInv'
    BY <2>1, TypeNext, SpawnNext, EndNext
  <2>3. DepthInv' /\ TrackInv'
    BY <2>1, DepthNext, TrackNext
  <2>4. WorkspaceSpend' /\ \A d \in Colony : ColonySpend(d)'
    BY <2>1, WorkspaceNext, ColoniesNext DEF SpendInv
  <2>5. SpendInv'
    BY <2>4 DEF SpendInv
  <2> QED
    BY <2>2, <2>3, <2>5 DEF IInv
<1> QED
  BY <1>1, <1>2, PTL DEF Spec

(* The variables keep their types: a step that a stale index renumbers or    *)
(* reopens is still a step, and a plan's tracker speaks of the plan's tasks. *)
THEOREM TypeCorrect == Spec => []TypeOK
<1>1. IInv => TypeOK
  BY DEF IInv, TypeInv
<1> QED
  BY <1>1, Invariant, PTL

(* continuation_depth never exceeds the number of successes, however steps   *)
(* are added, moved, reset or bound between reading a step and closing it    *)
(* (colony_manager.py _hook_step_completion, projections.py                  *)
(* _on_workflow_step_completed).                                             *)
THEOREM DepthIsEarned == Spec => []DepthEarned
<1>1. IInv => DepthEarned
  <2> SUFFICES ASSUME IInv
               PROVE  DepthEarned
    OBVIOUS
  <2>1. /\ Cardinality(Closing) \in Nat /\ Cardinality(won) \in Nat /\ depth \in Nat
        /\ depth + Cardinality(Closing) <= Cardinality(won)
    BY FiniteParts DEF IInv, DepthInv, TypeInv, TypeOK
  <2>2. depth <= Cardinality(won)
    BY <2>1
  <2> QED
    BY <2>2 DEF DepthEarned
<1> QED
  BY <1>1, Invariant, PTL

(* A workspace loses at most one round a colony beyond its limit, and a      *)
(* colony at most one round beyond its own in every life of the process      *)
(* (BudgetEnforcer in runtime.py, _run_colony_inner in colony_manager.py).   *)
THEOREM OvershootIsBounded == Spec => []OvershootBounded
<1>1. IInv => OvershootBounded
  <2> SUFFICES ASSUME IInv
               PROVE  OvershootBounded
    OBVIOUS
  <2>1. WorkspaceSpend /\ TypeInv /\ \A c \in Colony : ColonySpend(c)
    BY DEF IInv, SpendInv
  <2> DEFINE f == RoundCost * Cardinality(InFlight)
             s == RoundCost * Cardinality(Spawned)
  <2>2. f \in Nat /\ s \in Nat
    BY <2>1, FiniteParts, Limits, Times
  <2>3. spent \in Nat /\ spent + f <= Limit - 1 + s
    BY <2>1 DEF WorkspaceSpend, TypeInv, TypeOK
  <2>4. s = RoundCost * Cardinality({c \in Colony : status[c] # "none"})
    BY DEF Spawned
  <2>5. \A c \in Colony : paid[c] <= (restarts + 1) * (ColonyLimit - 1 + RoundCost)
    BY <2>1 DEF ColonySpend, Once
  <2> HIDE DEF f, s
  <2>6. spent <= Limit - 1 + s
    BY <2>2, <2>3, Limits
  <2> QED
    BY <2>4, <2>5, <2>6 DEF OvershootBounded
<1> QED
  BY <1>1, Invariant, PTL

(* The tracker shows a task as over only when the follow-up of the colony    *)
(* that did it has run, as failed only when that colony had no success, and  *)
(* as completed without a success only when it was killed before that; no    *)
(* plan is summed up (parallel_plans.py mark_task_state, queen_runtime.py    *)
(* _check_parallel_aggregation).                                             *)
THEOREM TrackerIsHonest == Spec => []TrackerHonest
<1>1. IInv => TrackerHonest
  <2> SUFFICES ASSUME IInv
               PROVE  TrackerHonest
    OBVIOUS
  <2>1. TrackInv /\ EndInv
    BY DEF IInv
  <2>2. ASSUME NEW t \in DOMAIN tracker
        PROVE  /\ tracker[t].state \in Ended =>
                     tracker[t].col \in Colony /\ follow[tracker[t].col] = "told"
               /\ tracker[t].state = "failed" => tracker[t].col \notin won
               /\ tracker[t].state = "completed" =>
                     tracker[t].col \in won \/ status[tracker[t].col] = "killed"
    <3>1. tracker[t].state \in Ended =>
              status[tracker[t].col] \in {"completed", "failed", "killed"}
      BY <2>1 DEF TrackInv, EndInv
    <3>2. tracker[t].state \in Ended /\ status[tracker[t].col] = "completed" =>
              tracker[t].col \in won
      BY <2>1 DEF TrackInv, EndInv
    <3> QED
      BY <2>1, <3>1, <3>2 DEF TrackInv, Ended
  <2>3. \A c \in Colony : follow[c] \notin {"held", "summed"}
    BY <2>1 DEF TrackInv
  <2> QED
    BY <2>2, <2>3 DEF TrackerHonest
<1> QED
  BY <1>1, Invariant, PTL
=============================================================================
