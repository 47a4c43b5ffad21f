------------------------- MODULE RoundEngine_proofs -------------------------
(***************************************************************************)
(* Proofs about the rounds of a colony, for any finite set of agents, any   *)
(* topologies, costs, thresholds and bounds.                                *)
(***************************************************************************)
EXTENDS RoundEngine, Subsequences_proofs, FiniteSetTheorems

Size == Cardinality(Agent)

History == [stalled : Nat, worked : BOOLEAN, old : [stalled : Nat, worked : BOOLEAN]]

-----------------------------------------------------------------------------
(* The invariants.                                                          *)

(* A turn that awaits its tools may still ask the model again.              *)
TypeInv ==
    /\ TypeOK
    /\ \A a \in Agent : turn[a].pc = "tools" => turn[a].iteration < MaxIterations

(* The groups still to run: no agent is in two of them, and an agent in one *)
(* runs before those that want its help.                                    *)
Queued(groups, before) ==
    /\ \A j, k \in DOMAIN groups : \A a \in Agent :
          (a \in groups[j] /\ a \in groups[k]) => j = k
    /\ \A e \in before : \A j \in DOMAIN groups :
          e[1] \in groups[j] => \E k \in DOMAIN groups : j < k /\ e[2] \in groups[k]

Prefix(seen, outputs) ==
    Len(seen) \in 0..Len(outputs) /\ seen = SubSeq(outputs, 1, Len(seen))

(* Agents of later groups are idle, those of earlier ones are done; what a  *)
(* turn has in its context are the first outputs there are.                 *)
Executing ==
    /\ loop.groups # <<>>
    /\ loop.before \subseteq Agent \X Agent
    /\ Queued(loop.groups, loop.before)
    /\ \A a \in Agent :
          /\ turn[a].pc = "idle" <=> \E k \in DOMAIN loop.groups : k > 1 /\ a \in loop.groups[k]
          /\ turn[a].pc \notin {"idle", "done"} => a \in loop.groups[1]
          /\ a \in Range(tally.outputs) <=> turn[a].pc \in {"reporting", "done"}
          /\ turn[a].pc \in {"model", "tools"} => Prefix(turn[a].seen, tally.outputs)
    /\ \A e \in loop.before :
          turn[e[2]].pc \in {"model", "tools"} =>
             e[1] \in Range(turn[e[2]].seen) \/ Len(turn[e[2]].seen) >= RoutedFit

Executed ==
    /\ \A a \in Agent : turn[a].pc = "done"
    /\ Range(tally.outputs) = Agent
    /\ loop.total = tally.costs

TurnInv ==
    /\ loop.pc \in {"head", "route"} =>
          turn = [a \in Agent |-> Idle] /\ tally = Blank
    /\ loop.pc = "execute" => Executing
    /\ loop.pc \in {"compress", "verdict"} => Executed

(* What the turns that report have cost is the difference between the costs *)
(* of the round and what is in the log.                                     *)
Enumeration == CHOOSE p \in Order : TRUE

(* The running totals of a cost per agent.                                  *)
Totals(cost) ==
    {f \in [0..Size -> Int] :
        f[0] = 0 /\ \A i \in 1..Size : f[i] = f[i - 1] + cost[Enumeration[i]]}

Due == [a \in Agent |-> turn[a].cost]

CostInv ==
    /\ \A a \in Agent : turn[a].pc # "reporting" => turn[a].cost = 0
    /\ \E f \in Totals(Due) : tally.costs = tally.spent + f[Size]

(* The history with what it was before the redirects that the loop has not  *)
(* taken note of.                                                           *)
Stalled == since.stalled + since.old.stalled
Achieved == since.worked \/ since.old.worked

(* The counters that the loop carries are those of this history: they start *)
(* afresh when the loop takes note of a redirect, not when it lands.        *)
CounterInv ==
    /\ loop.stall <= Stalled
    /\ loop.ran \/ loop.productive => Achieved
    /\ ~fast /\ Achieved => loop.productive
    /\ fast => loop.action \in {"none", "continue", "converged"}
    /\ loop.boundaries <= colony.redirects
    /\ HaltEarned

-----------------------------------------------------------------------------
(* Routing.                                                                 *)

LEMMA SizeType == Size \in Nat \ {0}
<1>1. Size \in Nat /\ IsFiniteSet(Agent) /\ Agent # {}
  BY RoundAssumption, FS_CardinalityType DEF Size
<1>2. Size # 0
  BY <1>1, FS_EmptySet DEF Size
<1> QED
  BY <1>1, <1>2

LEMMA OrderFacts ==
    ASSUME NEW p \in Order
    PROVE  /\ p \in [1..Size -> Agent]
           /\ \A i, j \in 1..Size : p[i] = p[j] => i = j
           /\ \A a \in Agent : \E i \in 1..Size : p[i] = a
<1>1. p \in Injection(1..Size, Agent)
  BY DEF Order, Size
<1>2. p \in [1..Size -> Agent] /\ \A i, j \in 1..Size : p[i] = p[j] => i = j
  BY <1>1 DEF Injection, IsInjective
<1>3. Cardinality(1..Size) = Size
  <2>1. Size \in Int /\ 1 \in Int /\ Size >= 1
    BY SizeType
  <2> QED
    BY <2>1, FS_Interval
<1>4. IsFiniteSet(Agent)
  BY RoundAssumption
<1>5. Cardinality(1..Size) = Cardinality(Agent)
  BY <1>3 DEF Size
<1>6. p \in Surjection(1..Size, Agent)
  BY <1>1, <1>4, <1>5, FS_Injection
<1> QED
  BY <1>2, <1>6 DEF Surjection

LEMMA OrderExists == Order # {}
<1>1. ExistsBijection(1..Size, Agent)
  BY RoundAssumption, FS_CardinalityType DEF Size
<1> QED
  BY <1>1 DEF Order, Size, ExistsBijection, Bijection

LEMMA MaxFacts ==
    ASSUME NEW n \in Nat, NEW S \in SUBSET (1..n), S # {}
    PROVE  Max(S) \in S /\ \A y \in S : y <= Max(S)
<1>1. \E x \in S : \A y \in S : x >= y
  <2>1. S \in SUBSET Nat /\ \A y \in S : y <= n
    OBVIOUS
  <2> QED
    BY <2>1, Greatest
<1>2. Max(S) \in S /\ \A y \in S : Max(S) >= y
  BY <1>1 DEF Max
<1>3. \A y \in S : y \in Nat
  OBVIOUS
<1> QED
  BY <1>2, <1>3

(* An agent's level is above the levels of those before it whose help it    *)
(* wants.                                                                   *)
LEMMA LevelsRise ==
    ASSUME NEW edges, NEW p \in Order, NEW level \in Levels(edges, p),
           NEW i \in 1..Size, NEW j \in 1..Size, j < i, <<p[j], p[i]>> \in edges
    PROVE  level[j] < level[i]
<1> DEFINE before == {level[k] : k \in Earlier(edges, p, i)}
<1>1. Size \in Nat /\ DOMAIN p = 1..Size /\ level \in [1..Size -> 1..Size]
  BY SizeType, OrderFacts DEF Levels
<1>2. j \in Earlier(edges, p, i) /\ Earlier(edges, p, i) \subseteq 1..Size
  BY <1>1 DEF Earlier
<1>3. before \in SUBSET (1..Size) /\ level[j] \in before
  BY <1>1, <1>2
<1>4. level[i] = IF before = {} THEN 1 ELSE 1 + Max(before)
  BY <1>1 DEF Levels
<1> HIDE DEF before
<1>5. Max(before) \in before /\ level[j] <= Max(before)
  BY <1>1, <1>3, MaxFacts
<1>6. level[j] \in Nat /\ level[i] \in Nat /\ Max(before) \in Nat
  <2>1. Max(before) \in 1..Size
    BY <1>3, <1>5
  <2>2. level[j] \in 1..Size /\ level[i] \in 1..Size
    BY <1>1
  <2> QED
    <3>1. 1..Size \in SUBSET Nat
      BY SizeType
    <3> QED
      BY <2>1, <2>2, <3>1
<1> QED
  BY <1>3, <1>4, <1>5, <1>6

GroupsOf(groups, before) ==
    /\ groups \in Seq(SUBSET Agent) /\ groups # <<>>
    /\ before \subseteq Agent \X Agent
    /\ Queued(groups, before)
    /\ \A a \in Agent : \E k \in DOMAIN groups : a \in groups[k]

LEMMA GroupsFacts ==
    ASSUME NEW edges \in SUBSET {e \in Agent \X Agent : e[1] # e[2]},
           NEW p \in Order, NEW level \in Levels(edges, p)
    PROVE  GroupsOf(Groups(p, level), edges \ Backward(edges, p))
<1> DEFINE all == {level[i] : i \in DOMAIN p}
           G == Groups(p, level)
           B == edges \ Backward(edges, p)
<1>1. /\ Size \in Nat \ {0} /\ DOMAIN p = 1..Size /\ p \in [1..Size -> Agent]
      /\ level \in [1..Size -> 1..Size]
  BY SizeType, OrderFacts DEF Levels
<1>2. all \in SUBSET (1..Size) /\ level[1] \in all
  <2>1. 1 \in DOMAIN p
    BY <1>1
  <2>2. \A i \in DOMAIN p : level[i] \in 1..Size
    BY <1>1
  <2> QED
    BY <2>1, <2>2
<1>3. Max(all) \in 1..Size /\ \A i \in 1..Size : level[i] <= Max(all)
  <2>1. \A i \in 1..Size : level[i] \in all
    BY <1>1
  <2> HIDE DEF all
  <2>2. Size \in Nat /\ all # {}
    BY <1>1, <1>2
  <2>3. Max(all) \in all /\ \A y \in all : y <= Max(all)
    BY <1>2, <2>2, MaxFacts
  <2> QED
    BY <1>2, <2>1, <2>3
<1>4. G = [k \in 1..Max(all) |-> {p[i] : i \in {j \in 1..Size : level[j] = k}}]
  BY <1>1 DEF Groups
<1> HIDE DEF all, G
<1>5. G \in Seq(SUBSET Agent) /\ G # <<>> /\ DOMAIN G = 1..Max(all)
  <2>1. Max(all) \in Nat /\ Max(all) >= 1
    BY <1>1, <1>3
  <2>2. G \in [1..Max(all) -> SUBSET Agent]
    BY <1>1, <1>4
  <2>3. G \in Seq(SUBSET Agent) /\ Len(G) = Max(all) /\ DOMAIN G = 1..Max(all)
    BY <2>1, <2>2
  <2> QED
    BY <2>1, <2>3
<1>6. \A i \in 1..Size, k \in DOMAIN G : p[i] \in G[k] <=> level[i] = k
  <2>1. ASSUME NEW i \in 1..Size, NEW k \in DOMAIN G, p[i] \in G[k]
        PROVE  level[i] = k
    <3>1. PICK j \in 1..Size : level[j] = k /\ p[j] = p[i]
      BY <1>4, <1>5, <2>1
    <3> QED
      BY <3>1, OrderFacts
  <2>2. ASSUME NEW i \in 1..Size, NEW k \in DOMAIN G, level[i] = k
        PROVE  p[i] \in G[k]
    BY <1>4, <1>5, <2>2
  <2> QED
    BY <2>1, <2>2
<1>7. \A i \in 1..Size : level[i] \in DOMAIN G
  BY <1>1, <1>3, <1>5
<1>8. \A a \in Agent : \E k \in DOMAIN G : a \in G[k]
  <2>1. SUFFICES ASSUME NEW a \in Agent
                 PROVE  \E k \in DOMAIN G : a \in G[k]
    OBVIOUS
  <2>2. PICK i \in 1..Size : p[i] = a
    BY OrderFacts
  <2> QED
    BY <1>6, <1>7, <2>2
<1>9. \A j, k \in DOMAIN G : \A a \in Agent : (a \in G[j] /\ a \in G[k]) => j = k
  BY <1>6, OrderFacts
<1>10. ASSUME NEW e \in B, NEW j \in DOMAIN G, e[1] \in G[j]
       PROVE  \E k \in DOMAIN G : j < k /\ e[2] \in G[k]
  <2>1. e \in edges /\ e[1] \in Agent /\ e[2] \in Agent /\ e = <<e[1], e[2]>> /\ e[1] # e[2]
    OBVIOUS
  <2>2. PICK s \in 1..Size, t \in 1..Size : p[s] = e[1] /\ p[t] = e[2]
    BY <2>1, OrderFacts
  <2>3. s # t
    BY <2>1, <2>2
  <2>4. ~(t < s)
    <3>1. e \notin Backward(edges, p)
      OBVIOUS
    <3>2. t < s => e \in Backward(edges, p)
      BY <1>1, <2>1, <2>2 DEF Backward
    <3> QED
      BY <3>1, <3>2
  <2>5. s < t
    BY <2>3, <2>4
  <2>6. level[s] < level[t]
    BY <2>1, <2>2, <2>5, LevelsRise
  <2> QED
    BY <1>6, <1>7, <1>10, <2>2, <2>6
<1>11. B \subseteq Agent \X Agent
  OBVIOUS
<1>12. Queued(G, B)
  BY <1>9, <1>10 DEF Queued
<1>13. GroupsOf(G, B)
  BY <1>5, <1>8, <1>11, <1>12 DEF GroupsOf
<1> QED
  BY <1>13 DEF G

LEMMA RoutesFacts ==
    ASSUME NEW r \in Routes
    PROVE  GroupsOf(r.groups, r.before)
<1>1. PICK l \in Layering :
          r = [groups |-> Groups(l.order, l.level), before |-> l.edges \ Backward(l.edges, l.order)]
  BY DEF Routes
<1>2. /\ l.edges \in Topology /\ l.order \in Order
      /\ l.level \in Levels(l.edges, l.order)
  BY DEF Layering
<1>3. l.edges \in SUBSET {e \in Agent \X Agent : e[1] # e[2]}
  BY <1>2, RoundAssumption
<1>4. GroupsOf(Groups(l.order, l.level), l.edges \ Backward(l.edges, l.order))
  BY <1>2, <1>3, GroupsFacts
<1> QED
  BY <1>1, <1>4

LEMMA SequenceFacts ==
    ASSUME NEW p \in Order
    PROVE  GroupsOf([i \in DOMAIN p |-> {p[i]}],
                    {e \in Agent \X Agent : e \notin Backward({e}, p) /\ e[1] # e[2]})
<1> DEFINE G == [i \in DOMAIN p |-> {p[i]}]
           B == {e \in Agent \X Agent : e \notin Backward({e}, p) /\ e[1] # e[2]}
<1>1. /\ Size \in Nat \ {0} /\ DOMAIN p = 1..Size /\ p \in [1..Size -> Agent]
  BY SizeType, OrderFacts
<1>2. G = [i \in 1..Size |-> {p[i]}]
  BY <1>1
<1> HIDE DEF G
<1>3. G \in Seq(SUBSET Agent) /\ G # <<>> /\ DOMAIN G = 1..Size
  <2>1. G \in [1..Size -> SUBSET Agent]
    BY <1>1, <1>2
  <2>2. G \in Seq(SUBSET Agent) /\ Len(G) = Size /\ DOMAIN G = 1..Size
    BY <1>1, <2>1
  <2> QED
    BY <1>1, <2>2
<1>4. \A a, i : i \in 1..Size => (a \in G[i] <=> a = p[i])
  BY <1>2
<1>5. \A a \in Agent : \E k \in DOMAIN G : a \in G[k]
  BY <1>3, <1>4, OrderFacts
<1>6. \A j, k \in DOMAIN G : \A a \in Agent : (a \in G[j] /\ a \in G[k]) => j = k
  BY <1>3, <1>4, OrderFacts
<1>7. ASSUME NEW e \in B, NEW j \in DOMAIN G, e[1] \in G[j]
      PROVE  \E k \in DOMAIN G : j < k /\ e[2] \in G[k]
  <2>1. e[1] \in Agent /\ e[2] \in Agent /\ e = <<e[1], e[2]>> /\ e[1] # e[2]
    OBVIOUS
  <2>2. PICK t \in 1..Size : p[t] = e[2]
    BY <2>1, OrderFacts
  <2>3. p[j] = e[1] /\ j \in 1..Size
    BY <1>3, <1>4, <1>7
  <2>4. ~(t < j)
    <3>1. e \notin Backward({e}, p)
      OBVIOUS
    <3>2. t < j => e \in Backward({e}, p)
      BY <1>1, <2>1, <2>2, <2>3 DEF Backward
    <3> QED
      BY <3>1, <3>2
  <2>5. j < t
    BY <2>1, <2>2, <2>3, <2>4
  <2> QED
    BY <1>3, <1>4, <2>2, <2>5
<1>8. B \subseteq Agent \X Agent
  OBVIOUS
<1>9. Queued(G, B)
  BY <1>6, <1>7 DEF Queued
<1>10. GroupsOf(G, B)
  BY <1>3, <1>5, <1>8, <1>9 DEF GroupsOf
<1> QED
  BY <1>10 DEF G

-----------------------------------------------------------------------------
(* Type correctness.                                                        *)

LEMMA EnteredType ==
    ASSUME NEW r \in 0..MaxRounds, NEW n \in Nat
    PROVE  Entered(r, n) \in LoopState
BY DEF Entered, LoopState, Action

LEMMA BlankType == Idle \in TurnState /\ Blank \in Tally
<1>1. 0 \in 0..MaxIterations
  BY RoundAssumption
<1>2. Idle \in TurnState
  BY <1>1 DEF Idle, TurnState
<1>3. Blank \in Tally
  BY DEF Blank, Tally, Work
<1> QED
  BY <1>2, <1>3

LEMMA NoTurnsType ==
    ASSUME NoTurns
    PROVE  /\ turn' \in [Agent -> TurnState] /\ tally' \in Tally
           /\ \A a \in Agent : turn'[a].pc = "idle"
BY BlankType DEF NoTurns, Idle

LEMMA TypeInvInit == Init => TypeInv
<1> SUFFICES ASSUME Init
             PROVE  TypeInv
  OBVIOUS
<1>1. 0 \in 0..MaxRounds /\ 0 \in 0..MaxCrashes /\ 0 \in 0..MaxAsked
  BY RoundAssumption
<1>2. loop \in LoopState /\ turn \in [Agent -> TurnState] /\ tally \in Tally
  BY <1>1, EnteredType, BlankType DEF Init
<1>3. \A a \in Agent : turn[a].pc = "idle"
  BY DEF Init, Idle
<1> QED
  BY <1>1, <1>2, <1>3 DEF Init, TypeInv, TypeOK, Afresh, Nothing

LEMMA EndsType ==
    ASSUME TypeInv, NEW out \in {"completed", "halted", "failed", "killed", "lost"},
           Ends(out)
    PROVE  TypeInv'
<1>1. loop.round \in 0..MaxRounds
  BY DEF TypeInv, TypeOK, LoopState
<1>2. Entered(loop.round, 0) \in LoopState
  BY <1>1, EnteredType
<1>3. loop' \in LoopState
  BY <1>2 DEF Ends, LoopState
<1> QED
  BY <1>3, NoTurnsType DEF Ends, TypeInv, TypeOK, Afresh, Nothing

(* The other actions of the loop either leave the turns alone or take them  *)
(* back; the loop's record stays one.                                       *)
LEMMA LoopType ==
    ASSUME TypeInv, loop' \in LoopState,
           UNCHANGED <<turn, tally>> \/ NoTurns,
           UNCHANGED fast,
           colony' \in [redirects : Nat, escalated : BOOLEAN],
           asked' \in 0..MaxAsked,
           since' \in History,
           crashes' \in 0..MaxCrashes
    PROVE  TypeInv'
BY NoTurnsType DEF TypeInv, TypeOK, History

LEMMA NextRoundType == TypeInv /\ NextRound => TypeInv'
<1> SUFFICES ASSUME TypeInv, NextRound
             PROVE  TypeInv'
  OBVIOUS
<1>1. loop.round + 1 \in 0..MaxRounds
  <2>1. loop.round \in 0..MaxRounds /\ loop.round < MaxRounds
    BY DEF TypeInv, TypeOK, LoopState, NextRound
  <2>2. MaxRounds \in Nat
    BY RoundAssumption
  <2> QED
    BY <2>1, <2>2
<1>2. loop' \in LoopState
  BY <1>1 DEF TypeInv, TypeOK, LoopState, NextRound
<1> QED
  BY <1>2, LoopType DEF NextRound, TypeInv, TypeOK, History

LEMMA StartingType ==
    ASSUME TypeInv, NEW group, turn' = Starting(group)
    PROVE  /\ turn' \in [Agent -> TurnState]
           /\ \A a \in Agent : turn'[a].pc = "tools" => turn'[a].iteration < MaxIterations
<1>1. [Idle EXCEPT !.pc = "starting"] \in TurnState
  BY BlankType DEF TurnState
<1>2. [Idle EXCEPT !.pc = "starting"].pc = "starting"
  BY DEF Idle
<1> QED
  BY <1>1, <1>2 DEF TypeInv, TypeOK, Starting

LEMMA ExecutesType ==
    ASSUME TypeInv, NEW groups \in Seq(SUBSET Agent), NEW before \in SUBSET (Agent \X Agent),
           Executes(groups, before)
    PROVE  TypeInv'
<1>1. loop' \in LoopState
  BY DEF TypeInv, TypeOK, LoopState, Executes
<1>2. /\ turn' \in [Agent -> TurnState]
      /\ \A a \in Agent : turn'[a].pc = "tools" => turn'[a].iteration < MaxIterations
  BY StartingType DEF Executes
<1> QED
  BY <1>1, <1>2 DEF Executes, TypeInv, TypeOK

LEMMA RoutesType == TypeInv /\ (RoutesStigmergic \/ RoutesSequential) => TypeInv'
<1>1. ASSUME TypeInv, RoutesStigmergic
      PROVE  TypeInv'
  <2>1. PICK r \in Routes : Executes(r.groups, r.before)
    BY <1>1 DEF RoutesStigmergic
  <2>2. r.groups \in Seq(SUBSET Agent) /\ r.before \in SUBSET (Agent \X Agent)
    BY RoutesFacts DEF GroupsOf
  <2> QED
    BY <1>1, <2>1, <2>2, ExecutesType
<1>2. ASSUME TypeInv, RoutesSequential
      PROVE  TypeInv'
  <2> DEFINE p == CHOOSE q \in Order : TRUE
             G == [i \in DOMAIN p |-> {p[i]}]
             B == {e \in Agent \X Agent : e \notin Backward({e}, p) /\ e[1] # e[2]}
  <2>1. p \in Order
    BY OrderExists
  <2>2. Executes(G, B)
    BY <1>2 DEF RoutesSequential
  <2>3. G \in Seq(SUBSET Agent) /\ B \in SUBSET (Agent \X Agent)
    BY <2>1, SequenceFacts DEF GroupsOf
  <2> HIDE DEF G, B
  <2> QED
    BY <1>2, <2>2, <2>3, ExecutesType
<1> QED
  BY <1>1, <1>2

(* What a context holds are the first outputs, all of them or RoutedFit.    *)
LEMMA RoutedFacts ==
    ASSUME TypeInv, NEW seen \in Routed
    PROVE  /\ seen \in Seq(Agent) /\ Prefix(seen, tally.outputs)
           /\ seen = tally.outputs \/ Len(seen) >= RoutedFit
<1>1. tally.outputs \in Seq(Agent) /\ RoutedFit \in Nat
  BY RoundAssumption DEF TypeInv, TypeOK, Tally
<1>2. PICK k \in 0..Len(tally.outputs) :
         /\ seen = SubSeq(tally.outputs, 1, k)
         /\ k = Len(tally.outputs) \/ k >= RoutedFit
  BY DEF Routed
<1>3. seen \in Seq(Agent) /\ Len(seen) = k
  BY <1>1, <1>2
<1>4. k = Len(tally.outputs) => seen = tally.outputs
  BY <1>1, <1>2
<1> QED
  BY <1>2, <1>3, <1>4 DEF Prefix

LEMMA AppendFacts ==
    ASSUME NEW S, NEW s \in Seq(S), NEW a \in S
    PROVE  /\ Append(s, a) \in Seq(S) /\ Len(Append(s, a)) = Len(s) + 1
           /\ Range(Append(s, a)) = Range(s) \cup {a}
           /\ \A seen : Prefix(seen, s) => Prefix(seen, Append(s, a))
<1> DEFINE q == Append(s, a)
<1>1. /\ q \in Seq(S) /\ Len(q) = Len(s) + 1 /\ Len(s) \in Nat
      /\ DOMAIN q = 1..(Len(s) + 1) /\ DOMAIN s = 1..Len(s)
      /\ q[Len(s) + 1] = a /\ \A i \in 1..Len(s) : q[i] = s[i]
  OBVIOUS
<1> HIDE DEF q
<1>2. Range(q) = Range(s) \cup {a}
  <2>1. \A i \in DOMAIN q : i \in DOMAIN s \/ i = Len(s) + 1
    BY <1>1
  <2>2. Len(s) + 1 \in DOMAIN q /\ \A i \in DOMAIN s : i \in DOMAIN q
    BY <1>1
  <2> QED
    BY <1>1, <2>1, <2>2 DEF Range
<1>3. ASSUME NEW seen, Prefix(seen, s)
      PROVE  Prefix(seen, q)
  <2>1. Len(seen) \in 0..Len(s) /\ seen = SubSeq(s, 1, Len(seen))
    BY <1>3 DEF Prefix
  <2>2. Len(seen) \in 0..Len(q)
    BY <1>1, <2>1
  <2>3. SubSeq(q, 1, Len(seen)) = SubSeq(s, 1, Len(seen))
    BY <1>1, <2>1
  <2> QED
    BY <2>1, <2>2, <2>3 DEF Prefix
<1> QED
  BY <1>1, <1>2, <1>3 DEF q

(* A step of a turn.                                                        *)
LEMMA StepsType ==
    ASSUME TypeInv, NEW a \in Agent, NEW t \in TurnState, NEW s \in Tally, Steps(a, t, s),
           t.pc = "tools" => t.iteration < MaxIterations
    PROVE  TypeInv'
BY DEF Steps, TypeInv, TypeOK

LEMMA TurnType == \A a \in Agent : TypeInv /\ TurnStep(a) => TypeInv'
<1> SUFFICES ASSUME NEW a \in Agent, TypeInv, TurnStep(a)
             PROVE  TypeInv'
  OBVIOUS
<1>0. /\ turn[a] \in TurnState /\ tally \in Tally /\ fast \in BOOLEAN
      /\ turn[a].pc = "tools" => turn[a].iteration < MaxIterations
  BY DEF TypeInv, TypeOK
<1>1. CASE StartsTurn(a)
  <2>1. PICK seen \in Routed, k \in BOOLEAN :
           Steps(a, [turn[a] EXCEPT !.pc = "model", !.seen = seen],
                [tally EXCEPT !.knowledge = @ \/ k])
    BY <1>1 DEF StartsTurn
  <2>2. [turn[a] EXCEPT !.pc = "model", !.seen = seen] \in TurnState
    BY <1>0, RoutedFacts DEF TurnState
  <2>3. [tally EXCEPT !.knowledge = @ \/ k] \in Tally
    BY <1>0 DEF Tally
  <2>4. [turn[a] EXCEPT !.pc = "model", !.seen = seen].pc = "model"
    BY <1>0 DEF TurnState
  <2> QED
    BY <2>1, <2>2, <2>3, <2>4, StepsType
<1>2. CASE AsksTools(a)
  <2>1. [turn[a] EXCEPT !.pc = "tools"] \in TurnState
    BY <1>0 DEF TurnState
  <2>2. [turn[a] EXCEPT !.pc = "tools"].iteration < MaxIterations
    BY <1>0, <1>2 DEF TurnState, AsksTools
  <2> QED
    BY <1>0, <1>2, <2>1, <2>2, StepsType DEF AsksTools
<1>3. CASE Answers(a)
  <2>1. PICK c \in Costs, text \in {fast, FALSE} :
          Steps(a, [Idle EXCEPT !.pc = "reporting", !.cost = c],
                [tally EXCEPT !.outputs = Append(@, a), !.text = (@ \/ text), !.costs = @ + c])
    BY <1>3 DEF Answers
  <2>2. c \in Nat /\ text \in BOOLEAN
    BY <1>0, RoundAssumption
  <2>3. [Idle EXCEPT !.pc = "reporting", !.cost = c] \in TurnState
    BY <2>2, BlankType DEF TurnState
  <2>4. [tally EXCEPT !.outputs = Append(@, a), !.text = (@ \/ text), !.costs = @ + c] \in Tally
    <3>1. /\ Append(tally.outputs, a) \in Seq(Agent) /\ (tally.text \/ text) \in BOOLEAN
          /\ tally.costs + c \in Nat
      BY <1>0, <2>2 DEF Tally
    <3> QED
      BY <1>0, <3>1 DEF Tally
  <2>5. [Idle EXCEPT !.pc = "reporting", !.cost = c].pc = "reporting"
    BY DEF Idle
  <2> QED
    BY <2>1, <2>3, <2>4, <2>5, StepsType
<1>4. CASE RunsTools(a)
  <2>1. PICK w \in DOMAIN Work :
          NextIteration(a, [tally EXCEPT !.work = IF w > @ THEN w ELSE @])
    BY <1>4 DEF RunsTools
  <2> DEFINE t == [turn[a] EXCEPT !.pc = "model", !.iteration = @ + 1]
             s == [tally EXCEPT !.work = IF w > @ THEN w ELSE @]
  <2>2. turn[a].pc = "tools" /\ turn[a].iteration < MaxIterations
    BY <1>0, <1>4 DEF RunsTools, Turning
  <2>3. t \in TurnState /\ t.pc = "model"
    <3>1. turn[a].iteration + 1 \in 0..MaxIterations
      BY <1>0, <2>2, RoundAssumption DEF TurnState
    <3> QED
      BY <1>0, <3>1 DEF TurnState
  <2>4. s \in Tally
    BY <1>0 DEF Tally
  <2>5. Steps(a, t, s)
    BY <2>1 DEF NextIteration
  <2> HIDE DEF t, s
  <2> QED
    BY <2>3, <2>4, <2>5, StepsType
<1>5. CASE Reports(a)
  <2>1. [Idle EXCEPT !.pc = "done"] \in TurnState /\ [Idle EXCEPT !.pc = "done"].pc = "done"
    BY BlankType DEF TurnState
  <2>2. [tally EXCEPT !.spent = @ + turn[a].cost] \in Tally
    BY <1>0 DEF Tally, TurnState
  <2> QED
    BY <1>5, <2>1, <2>2, StepsType DEF Reports
<1>6. CASE TurnRaises(a)
  BY <1>6, EndsType DEF TurnRaises
<1> QED
  BY <1>1, <1>2, <1>3, <1>4, <1>5, <1>6 DEF TurnStep

LEMMA NextGroupType == TypeInv /\ NextGroup => TypeInv'
<1> SUFFICES ASSUME TypeInv, NextGroup
             PROVE  TypeInv'
  OBVIOUS
<1> DEFINE rest == Tail(loop.groups)
<1>1. loop \in LoopState /\ tally.costs \in Nat /\ loop.groups \in Seq(SUBSET Agent)
  BY DEF TypeInv, TypeOK, LoopState, Tally
<1>2. rest = <<>> \/ rest \in Seq(SUBSET Agent)
  BY <1>1
<1>3. <<>> \in Seq(SUBSET Agent) /\ {} \in SUBSET (Agent \X Agent)
  OBVIOUS
<1>4. loop' = [loop EXCEPT !.groups = rest, !.total = tally.costs,
                           !.before = IF rest = <<>> THEN {} ELSE @,
                           !.pc = IF rest = <<>> THEN "compress" ELSE @]
  BY DEF NextGroup
<1> HIDE DEF rest
<1>5. loop' \in LoopState
  BY <1>1, <1>2, <1>3, <1>4 DEF LoopState
<1>6. /\ turn' \in [Agent -> TurnState]
      /\ \A a \in Agent : turn'[a].pc = "tools" => turn'[a].iteration < MaxIterations
  <2>1. CASE UNCHANGED turn
    BY <2>1 DEF TypeInv, TypeOK
  <2>2. CASE turn' = Starting(Head(rest))
    BY <2>2, StartingType
  <2> QED
    BY <2>1, <2>2 DEF NextGroup, rest
<1> QED
  BY <1>5, <1>6 DEF NextGroup, TypeInv, TypeOK

LEMMA JudgedType ==
    ASSUME TypeInv, NEW action \in Action, NEW stall \in Nat, Judged(action, stall),
           since' \in History
    PROVE  TypeInv'
<1>1. loop \in LoopState /\ loop.ran \in BOOLEAN /\ loop.productive \in BOOLEAN /\ fast \in BOOLEAN
  BY DEF TypeInv, TypeOK, LoopState
<1>2. Ran \in BOOLEAN /\ Productive \in BOOLEAN
  BY <1>1 DEF Ran, Productive, Worked, Came
<1>3. loop.cost + loop.total \in Nat
  <2>1. loop.cost \in Nat /\ loop.total \in Nat
    BY <1>1 DEF LoopState
  <2> QED
    BY <2>1
<1>4. (IF action = "verified" THEN 0 ELSE stall) \in Nat
  OBVIOUS
<1>5. loop' \in LoopState
  <2> DEFINE n == IF action = "verified" THEN 0 ELSE stall
             l == [loop EXCEPT !.pc = "verdict", !.action = action, !.stall = n]
  <2>1. l \in LoopState
    BY <1>1, <1>4 DEF LoopState
  <2>2. l.cost = loop.cost
    BY <1>1 DEF LoopState
  <2>3. loop' = [l EXCEPT !.ran = Ran, !.productive = Productive, !.prev = TRUE,
                          !.cost = loop.cost + loop.total]
    BY <2>2 DEF Judged
  <2> HIDE DEF l
  <2> QED
    BY <1>2, <1>3, <2>1, <2>3 DEF LoopState
<1> QED
  BY <1>5, LoopType DEF Judged, TypeInv, TypeOK, History

LEMMA StallType ==
    ASSUME TypeInv, NEW r \in Readings
    PROVE  StallCount(r) \in Nat
<1>1. loop.stall \in Nat
  BY DEF TypeInv, TypeOK, LoopState
<1> QED
  BY <1>1 DEF StallCount

LEMMA JudgesType == TypeInv /\ (JudgesFast \/ Judges) => TypeInv'
<1> SUFFICES ASSUME TypeInv
             PROVE  JudgesFast \/ Judges => TypeInv'
  OBVIOUS
<1>0. since \in History
  BY DEF TypeInv, TypeOK, History
<1>1. ASSUME JudgesFast
      PROVE  TypeInv'
  <2>1. since' \in History
    BY <1>0, <1>1 DEF JudgesFast, History
  <2>2. (IF tally.text THEN "converged" ELSE "continue") \in Action
    BY DEF Action
  <2> QED
    BY <1>1, <2>1, <2>2, JudgedType DEF JudgesFast
<1>2. ASSUME Judges
      PROVE  TypeInv'
  <2>1. PICK r \in Readings :
          /\ Judged(Governance(r, StallCount(r)), StallCount(r))
          /\ since' = [since EXCEPT !.stalled = @ + (IF r.stalled \/ r.alike THEN 1 ELSE 0),
                                    !.worked = @ \/ Worked]
    BY <1>2 DEF Judges
  <2>2. since' \in History
    <3>1. since.stalled + (IF r.stalled \/ r.alike THEN 1 ELSE 0) \in Nat
      BY <1>0 DEF History
    <3>2. (since.worked \/ Worked) \in BOOLEAN
      BY <1>0 DEF Worked, Came, History
    <3> QED
      BY <1>0, <2>1, <3>1, <3>2 DEF History
  <2>3. Governance(r, StallCount(r)) \in Action
    BY DEF Governance, Action
  <2> QED
    BY <2>1, <2>2, <2>3, StallType, JudgedType
<1> QED
  BY <1>1, <1>2

LEMMA AfterRedirectFacts ==
    ASSUME NEW l \in LoopState, colony.redirects \in Nat
    PROVE  /\ AfterRedirect(l) \in LoopState
           /\ AfterRedirect(l).stall = IF Redirected THEN 0 ELSE l.stall
           /\ AfterRedirect(l).ran = IF Redirected THEN FALSE ELSE l.ran
           /\ AfterRedirect(l).productive = IF Redirected THEN FALSE ELSE l.productive
           /\ AfterRedirect(l).boundaries = IF Redirected THEN colony.redirects ELSE l.boundaries
<1> DEFINE m == [l EXCEPT !.stall = 0, !.ran = FALSE]
           n == [m EXCEPT !.productive = FALSE, !.boundaries = colony.redirects]
<1>1. m \in LoopState /\ m.stall = 0 /\ m.ran = FALSE
  BY DEF LoopState
<1>2. n = [l EXCEPT !.stall = 0, !.ran = FALSE, !.productive = FALSE,
                    !.boundaries = colony.redirects]
  OBVIOUS
<1>3. /\ n \in LoopState /\ n.stall = 0 /\ n.ran = FALSE /\ n.productive = FALSE
      /\ n.boundaries = colony.redirects
  <2> HIDE DEF m
  <2> QED
    BY <1>1 DEF LoopState
<1>4. AfterRedirect(l) = IF Redirected THEN n ELSE l
  BY <1>2 DEF AfterRedirect
<1> HIDE DEF m, n
<1>5. CASE Redirected
  BY <1>3, <1>4, <1>5
<1>6. CASE ~Redirected
  BY <1>4, <1>6
<1> QED
  BY <1>5, <1>6

(* The loop's record when the loop goes on.                                 *)
LEMMA GoesOnType ==
    ASSUME TypeInv, NEW l \in LoopState, GoesOn(l),
           colony' \in [redirects : Nat, escalated : BOOLEAN]
    PROVE  TypeInv'
<1>1. AfterRedirect(l) \in LoopState
  BY AfterRedirectFacts DEF TypeInv, TypeOK
<1>2. loop' \in LoopState
  BY <1>1 DEF GoesOn, LoopState, Action
<1>3. since' \in History
  BY DEF GoesOn, Afresh, Nothing, History, TypeInv, TypeOK
<1> QED
  BY <1>2, <1>3, LoopType DEF GoesOn, TypeInv, TypeOK

LEMMA VerdictType == TypeInv /\ Verdict => TypeInv'
<1> SUFFICES ASSUME TypeInv, Verdict
             PROVE  TypeInv'
  OBVIOUS
<1>1. CASE BudgetExhausted
  BY <1>1, EndsType DEF BudgetExhausted, Over
<1>2. CASE Completes
  BY <1>2, EndsType DEF Completes, Over
<1>3. CASE Continues
  BY <1>3, GoesOnType DEF Continues, TypeInv, TypeOK
<1>4. CASE Escalates
  <2>1. [loop EXCEPT !.stall = 0] \in LoopState
    BY DEF TypeInv, TypeOK, LoopState
  <2>2. colony' \in [redirects : Nat, escalated : BOOLEAN]
    BY <1>4 DEF Escalates, TypeInv, TypeOK
  <2> QED
    BY <1>4, <2>1, <2>2, GoesOnType DEF Escalates
<1>5. CASE Halts
  BY <1>5, EndsType DEF Halts, Over
<1> QED
  BY <1>1, <1>2, <1>3, <1>4, <1>5 DEF Verdict

LEMMA OutsideType == TypeInv /\ (AsksRedirect \/ RedirectLands \/ Killed \/ Restart) => TypeInv'
<1> SUFFICES ASSUME TypeInv
             PROVE  AsksRedirect \/ RedirectLands \/ Killed \/ Restart => TypeInv'
  OBVIOUS
<1>0. /\ asked \in 0..MaxAsked /\ crashes \in 0..MaxCrashes /\ MaxAsked \in Nat /\ MaxCrashes \in Nat
      /\ loop \in LoopState
  BY RoundAssumption DEF TypeInv, TypeOK
<1>1. ASSUME AsksRedirect
      PROVE  TypeInv'
  <2>1. asked + 1 \in 0..MaxAsked
    BY <1>0, <1>1 DEF AsksRedirect
  <2> QED
    BY <1>1, <2>1, LoopType DEF AsksRedirect, TypeInv, TypeOK, History
<1>2. ASSUME RedirectLands
      PROVE  TypeInv'
  <2>1. asked - 1 \in 0..MaxAsked
    BY <1>0, <1>2 DEF RedirectLands
  <2>2. colony' \in [redirects : Nat, escalated : BOOLEAN]
    BY <1>2 DEF RedirectLands, TypeInv, TypeOK
  <2>3. since' \in History
    <3> DEFINE n == since.old.stalled + since.stalled
               w == since.old.worked \/ since.worked
    <3>1. since \in History
      BY DEF TypeInv, TypeOK, History
    <3>2. n \in Nat /\ w \in BOOLEAN
      BY <3>1 DEF History
    <3>3. since' = [Afresh EXCEPT !.old = [stalled |-> n, worked |-> w]]
      BY <1>2 DEF RedirectLands
    <3> HIDE DEF n, w
    <3>4. since' = [stalled |-> 0, worked |-> FALSE, old |-> [stalled |-> n, worked |-> w]]
      BY <3>3 DEF Afresh
    <3> QED
      BY <3>2, <3>4 DEF History
  <2> QED
    BY <1>2, <2>1, <2>2, <2>3, LoopType DEF RedirectLands, TypeInv, TypeOK
<1>3. ASSUME Killed
      PROVE  TypeInv'
  BY <1>3, EndsType DEF Killed
<1>4. ASSUME Restart
      PROVE  TypeInv'
  <2>1. crashes + 1 \in 0..MaxCrashes /\ 0 \in 0..MaxAsked
    BY <1>0, <1>4 DEF Restart
  <2>2. loop.round \in 0..MaxRounds /\ colony.redirects \in Nat
    BY DEF TypeInv, TypeOK, LoopState
  <2>3. loop' \in LoopState
    BY <1>4, <2>2, EnteredType DEF Restart
  <2>4. since' \in History
    BY <1>4 DEF Restart, Afresh, Nothing, History
  <2> QED
    BY <1>4, <2>1, <2>3, <2>4, LoopType DEF Restart, TypeInv, TypeOK
<1> QED
  BY <1>1, <1>2, <1>3, <1>4

LEMMA TypeInvStep == TypeInv /\ [Next]_vars => TypeInv'
<1> SUFFICES ASSUME TypeInv, [Next]_vars
             PROVE  TypeInv'
  OBVIOUS
<1>1. CASE LoopStep
  <2>1. CASE WorkspaceStops \/ RoundsExhausted \/ RoundRaises
    BY <2>1, EndsType DEF WorkspaceStops, RoundsExhausted, RoundRaises
  <2> QED
    BY <1>1, <2>1, NextRoundType, RoutesType, NextGroupType, JudgesType, VerdictType
       DEF LoopStep
<1>2. CASE \E a \in Agent : TurnStep(a)
  BY <1>2, TurnType
<1>3. CASE AsksRedirect \/ RedirectLands \/ Killed \/ Restart
  BY <1>3, OutsideType
<1>4. CASE UNCHANGED vars
  BY <1>4 DEF vars, TypeInv, TypeOK
<1> QED
  BY <1>1, <1>2, <1>3, <1>4 DEF Next

LEMMA TypeInvariant == Spec => []TypeInv
BY TypeInvInit, TypeInvStep, PTL DEF Spec

(* Every variable keeps its type: no agent starts an iteration beyond the   *)
(* cap on iterations (runner.py:1545), no loop a round beyond max_rounds.   *)
THEOREM TypeCorrect == Spec => []TypeOK
<1>1. TypeInv => TypeOK
  BY DEF TypeInv
<1> QED
  BY <1>1, TypeInvariant, PTL

-----------------------------------------------------------------------------
(* The counters.                                                            *)

LEMMA AfreshCounters ==
    ASSUME since' = Afresh,
           loop'.stall = 0, loop'.ran = FALSE, loop'.productive = FALSE,
           loop'.action = "none", loop'.boundaries <= colony'.redirects
    PROVE  CounterInv'
<1>1. /\ since'.stalled = 0 /\ since'.worked = FALSE /\ since'.old = Nothing
      /\ since'.old.stalled = 0 /\ since'.old.worked = FALSE
  BY DEF Afresh, Nothing
<1> QED
  BY <1>1 DEF CounterInv, HaltEarned, Stalled, Achieved

LEMMA CounterInit == Init => CounterInv
<1> SUFFICES ASSUME Init
             PROVE  CounterInv
  OBVIOUS
<1>1. /\ loop.stall = 0 /\ loop.ran = FALSE /\ loop.productive = FALSE
      /\ loop.action = "none" /\ loop.pc = "head"
      /\ loop.boundaries = 0 /\ colony.redirects = 0
  BY DEF Init, Entered
<1>2. /\ since.stalled = 0 /\ since.worked = FALSE /\ since.old = Nothing
      /\ since.old.stalled = 0 /\ since.old.worked = FALSE
  BY DEF Init, Afresh, Nothing
<1> QED
  BY <1>1, <1>2 DEF CounterInv, HaltEarned, Stalled, Achieved

LEMMA EndsCounters ==
    ASSUME TypeInv, NEW out, Ends(out)
    PROVE  CounterInv'
<1>1. /\ loop'.stall = 0 /\ loop'.ran = FALSE /\ loop'.productive = FALSE
      /\ loop'.action = "none" /\ loop'.boundaries = 0
  BY DEF Ends, Entered
<1>2. colony'.redirects \in Nat /\ since' = Afresh
  BY DEF Ends, TypeInv, TypeOK
<1>3. loop'.boundaries <= colony'.redirects
  BY <1>1, <1>2
<1> QED
  BY <1>1, <1>2, <1>3, AfreshCounters

(* What the counters are read from is left alone, and no verdict comes up.  *)
LEMMA SameCounters ==
    ASSUME CounterInv, UNCHANGED <<fast, since, colony>>,
           loop'.stall = loop.stall, loop'.ran = loop.ran,
           loop'.productive = loop.productive, loop'.action = loop.action,
           loop'.boundaries = loop.boundaries,
           loop'.pc = "verdict" => loop.pc = "verdict"
    PROVE  CounterInv'
BY DEF CounterInv, HaltEarned, Stalled, Achieved, Redirected

(* The rounds before the redirect keep their weight until it is noticed.    *)
LEMMA LandsCounters == TypeInv /\ CounterInv /\ RedirectLands => CounterInv'
<1> SUFFICES ASSUME TypeInv, CounterInv, RedirectLands
             PROVE  CounterInv'
  OBVIOUS
<1>1. since \in History /\ loop \in LoopState /\ colony.redirects \in Nat
  BY DEF TypeInv, TypeOK, History
<1>2. /\ since'.stalled = 0 /\ since'.worked = FALSE
      /\ since'.old.stalled = since.old.stalled + since.stalled
      /\ since'.old.worked = (since.old.worked \/ since.worked)
  BY DEF RedirectLands, Afresh
<1>3. Stalled' = Stalled /\ (Achieved' <=> Achieved)
  BY <1>1, <1>2 DEF Stalled, Achieved, History
<1>4. colony'.redirects = colony.redirects + 1 /\ loop' = loop /\ fast' = fast
  BY DEF RedirectLands, TypeInv, TypeOK
<1>5. loop.boundaries \in Nat /\ loop.boundaries <= colony.redirects
  BY <1>1 DEF CounterInv, LoopState
<1>50. colony.redirects + 1 > loop.boundaries /\ loop.boundaries <= colony.redirects + 1
  BY <1>1, <1>5
<1>6. Redirected' /\ loop'.boundaries <= colony'.redirects
  BY <1>4, <1>50 DEF Redirected
<1>7. HaltEarned'
  <2>1. HaltEarned
    BY DEF CounterInv
  <2>2. /\ loop.action = "force_halt" /\ loop.pc = "verdict" =>
              Stalled >= StallHalt /\ ~Achieved
        /\ loop.action = "verified" /\ loop.pc = "verdict" => Achieved
    BY <2>1 DEF HaltEarned, Stalled, Achieved
  <2>3. /\ loop'.action = "force_halt" /\ loop'.pc = "verdict" =>
              Stalled' >= StallHalt /\ ~Achieved'
        /\ loop'.action = "verified" /\ loop'.pc = "verdict" => Achieved'
    BY <1>3, <1>4, <2>2
  <2> QED
    BY <1>6, <2>3 DEF HaltEarned, Stalled, Achieved
<1> QED
  BY <1>3, <1>4, <1>6, <1>7 DEF CounterInv

LEMMA JudgedCounters ==
    ASSUME TypeInv, CounterInv, NEW action, NEW stall, Judged(action, stall)
    PROVE  /\ loop'.pc = "verdict" /\ loop'.action = action
           /\ loop'.stall = IF action = "verified" THEN 0 ELSE stall
           /\ loop'.ran = Ran /\ loop'.productive = Productive
           /\ loop'.boundaries = loop.boundaries
           /\ fast' = fast /\ colony' = colony
BY DEF TypeInv, TypeOK, LoopState, Judged

(* What the judgement of a round adds to the history.                       *)
LEMMA JudgedHistory ==
    ASSUME TypeInv, CounterInv, UNCHANGED colony, loop'.boundaries = loop.boundaries,
           NEW n \in Nat, NEW w \in BOOLEAN,
           since'.stalled = since.stalled + n, since'.worked = (since.worked \/ w),
           since'.old = since.old
    PROVE  /\ Stalled' = Stalled + n /\ Stalled \in Nat
           /\ Achieved' <=> Achieved \/ w
           /\ since'.old # Nothing => Redirected'
           /\ loop'.boundaries <= colony'.redirects
<1>1. since \in History
  BY DEF TypeInv, TypeOK, History
<1>2. Stalled' = Stalled + n /\ Stalled \in Nat /\ (Achieved' <=> Achieved \/ w)
  BY <1>1 DEF Stalled, Achieved, History
<1>3. since'.old # Nothing => Redirected'
  BY DEF CounterInv, HaltEarned, Redirected
<1> QED
  BY <1>2, <1>3 DEF CounterInv

LEMMA FastCounters == TypeInv /\ CounterInv /\ JudgesFast => CounterInv'
<1> SUFFICES ASSUME TypeInv, CounterInv, JudgesFast
             PROVE  CounterInv'
  OBVIOUS
<1> DEFINE action == IF tally.text THEN "converged" ELSE "continue"
           w == ~Came("none")
<1>1. Judged(action, 0) /\ fast
  BY DEF JudgesFast
<1>2. action \in {"converged", "continue"} /\ w \in BOOLEAN
  BY DEF Came
<1>3. /\ since \in History
      /\ since' = [since EXCEPT !.worked = @ \/ w]
  BY DEF JudgesFast, TypeInv, TypeOK, History
<1> HIDE DEF action
<1>4. /\ loop'.action = action /\ loop'.stall = 0 /\ loop'.boundaries = loop.boundaries
      /\ loop'.ran = Ran /\ loop'.productive = Productive /\ fast' = fast /\ colony' = colony
  BY <1>1, <1>2, JudgedCounters
<1>5. w <=> ~Came("none")
  OBVIOUS
<1> HIDE DEF w
<1>6. /\ since'.stalled = since.stalled + 0 /\ since'.worked = (since.worked \/ w)
      /\ since'.old = since.old
  BY <1>3 DEF History
<1>7. /\ Stalled' = Stalled + 0 /\ Stalled \in Nat /\ (Achieved' <=> Achieved \/ w)
      /\ since'.old # Nothing => Redirected'
      /\ loop'.boundaries <= colony'.redirects
  <2>1. 0 \in Nat
    OBVIOUS
  <2> QED
    BY <1>2, <1>4, <1>6, <2>1, JudgedHistory
<1>8. Ran \/ Productive => Achieved'
  BY <1>5, <1>7 DEF Ran, Productive, Worked, Came, CounterInv
<1>9. 0 <= Stalled'
  BY <1>7
<1>10. HaltEarned'
  BY <1>2, <1>4, <1>7 DEF HaltEarned
<1> QED
  BY <1>1, <1>2, <1>4, <1>7, <1>8, <1>9, <1>10 DEF CounterInv

LEMMA JudgesCounters == TypeInv /\ CounterInv /\ Judges => CounterInv'
<1> SUFFICES ASSUME TypeInv, CounterInv, Judges
             PROVE  CounterInv'
  OBVIOUS
<1>1. PICK r \in Readings :
          /\ Judged(Governance(r, StallCount(r)), StallCount(r))
          /\ since' = [since EXCEPT !.stalled = @ + (IF r.stalled \/ r.alike THEN 1 ELSE 0),
                                    !.worked = @ \/ Worked]
  BY DEF Judges
<1> DEFINE action == Governance(r, StallCount(r))
           n == IF r.stalled \/ r.alike THEN 1 ELSE 0
<1>2. ~fast
  BY DEF Judges
<1>3. /\ loop'.action = action /\ loop'.boundaries = loop.boundaries
      /\ loop'.stall = IF action = "verified" THEN 0 ELSE StallCount(r)
      /\ loop'.ran = Ran /\ loop'.productive = Productive /\ fast' = fast /\ colony' = colony
  BY <1>1, JudgedCounters
<1>20. n \in Nat /\ Worked \in BOOLEAN /\ (n = IF r.stalled \/ r.alike THEN 1 ELSE 0)
  BY DEF Worked, Came
<1>21. /\ since'.stalled = since.stalled + n /\ since'.worked = (since.worked \/ Worked)
       /\ since'.old = since.old
  <2>1. since \in History
    BY DEF TypeInv, TypeOK, History
  <2> QED
    BY <1>1, <2>1 DEF History
<1> HIDE DEF n
<1>22. /\ Stalled' = Stalled + n /\ Stalled \in Nat
       /\ Achieved' <=> Achieved \/ Worked
       /\ since'.old # Nothing => Redirected'
       /\ loop'.boundaries <= colony'.redirects
  BY <1>3, <1>20, <1>21, JudgedHistory
<1>4. /\ loop.stall \in Nat /\ loop.stall <= Stalled
      /\ StallCount(r) \in Nat /\ loop.round \in Nat
      /\ StallFrom \in Nat \ {0} /\ StallHalt \in Nat
  <2>1. loop.stall \in Nat /\ loop.round \in 0..MaxRounds
    BY DEF TypeInv, TypeOK, LoopState
  <2>2. loop.stall <= Stalled
    BY DEF CounterInv
  <2>3. MaxRounds \in Nat /\ StallFrom \in Nat \ {0} /\ StallHalt \in Nat
    BY RoundAssumption
  <2>4. StallCount(r) \in Nat
    BY StallType
  <2> QED
    BY <2>1, <2>2, <2>3, <2>4
<1>5. StallCount(r) <= Stalled'
  BY <1>4, <1>20, <1>22 DEF StallCount
<1>6. loop'.stall <= Stalled'
  <2>1. 0 <= Stalled'
    BY <1>20, <1>22
  <2> QED
    BY <1>3, <1>5, <2>1
<1>8. Ran \/ Productive => Achieved'
  BY <1>2, <1>22 DEF Ran, Productive, Worked, CounterInv
<1>9. Achieved' => Productive
  BY <1>2, <1>22 DEF Productive, CounterInv
<1>10. action = "verified" => Achieved'
  BY <1>8 DEF Governance
<1>11. action = "force_halt" => Stalled' >= StallHalt /\ ~Achieved'
  <2> SUFFICES ASSUME action = "force_halt"
               PROVE  Stalled' >= StallHalt /\ ~Achieved'
    OBVIOUS
  <2>1. r.stalled /\ StallCount(r) >= StallHalt
    BY DEF Governance
  <2>2. loop.round > StallFrom
    BY <2>1 DEF Readings
  <2>3. loop.round >= 2
    BY <1>4, <2>2
  <2>4. ~Productive
    BY <2>1, <2>3 DEF Governance
  <2>5. Stalled' \in Nat
    BY <1>20, <1>22
  <2> QED
    BY <1>4, <1>5, <1>9, <2>1, <2>4, <2>5
<1> HIDE DEF action
<1>12. HaltEarned'
  BY <1>3, <1>10, <1>11, <1>22 DEF HaltEarned, Stalled, Achieved
<1> QED
  BY <1>2, <1>3, <1>6, <1>8, <1>9, <1>12, <1>22 DEF CounterInv

LEMMA GoesOnFacts ==
    ASSUME TypeInv, NEW l \in LoopState, GoesOn(l)
    PROVE  /\ loop'.stall = IF Redirected THEN 0 ELSE l.stall
           /\ loop'.ran = IF Redirected THEN FALSE ELSE l.ran
           /\ loop'.productive = IF Redirected THEN FALSE ELSE l.productive
           /\ loop'.boundaries = IF Redirected THEN colony.redirects ELSE l.boundaries
           /\ loop'.action = "none" /\ loop'.pc = "head"
<1> DEFINE m == AfterRedirect(l)
<1>1. /\ m \in LoopState
      /\ m.stall = IF Redirected THEN 0 ELSE l.stall
      /\ m.ran = IF Redirected THEN FALSE ELSE l.ran
      /\ m.productive = IF Redirected THEN FALSE ELSE l.productive
      /\ m.boundaries = IF Redirected THEN colony.redirects ELSE l.boundaries
  BY AfterRedirectFacts DEF TypeInv, TypeOK
<1>2. loop' = [m EXCEPT !.pc = "head", !.total = 0, !.action = "none"]
  BY DEF GoesOn
<1> HIDE DEF m
<1>3. /\ loop'.stall = m.stall /\ loop'.ran = m.ran /\ loop'.productive = m.productive
      /\ loop'.boundaries = m.boundaries
      /\ loop'.action = "none" /\ loop'.pc = "head"
  BY <1>1, <1>2 DEF LoopState
<1> QED
  BY <1>1, <1>3

LEMMA GoesOnCounters ==
    ASSUME TypeInv, CounterInv, NEW l \in LoopState, GoesOn(l),
           l.ran = loop.ran, l.productive = loop.productive,
           l.boundaries = loop.boundaries, colony'.redirects = colony.redirects,
           \/ l.stall = loop.stall /\ loop.action # "force_halt"
           \/ l.stall = 0
    PROVE  CounterInv'
<1>1. /\ loop'.stall = IF Redirected THEN 0 ELSE l.stall
      /\ loop'.ran = IF Redirected THEN FALSE ELSE l.ran
      /\ loop'.productive = IF Redirected THEN FALSE ELSE l.productive
      /\ loop'.boundaries = IF Redirected THEN colony.redirects ELSE l.boundaries
      /\ loop'.action = "none" /\ loop'.pc = "head"
  BY GoesOnFacts
<1>2. /\ since \in History
      /\ fast' = fast
      /\ since' = IF Redirected THEN Afresh ELSE
                  IF l.stall = 0 /\ loop.action = "force_halt" THEN [since EXCEPT !.stalled = 0]
                  ELSE since
  BY DEF TypeInv, TypeOK, GoesOn, History
<1>3. CASE Redirected
  <2>1. colony.redirects \in Nat
    BY DEF TypeInv, TypeOK
  <2> QED
    BY <1>1, <1>2, <1>3, <2>1, AfreshCounters
<1>4. CASE ~Redirected
  <2>1. since.old = Nothing /\ since'.old = Nothing /\ since'.worked = since.worked
    BY <1>2, <1>4 DEF CounterInv, HaltEarned, History
  <2>2. Stalled = since.stalled /\ Stalled' = since'.stalled /\ (Achieved' <=> Achieved)
    BY <1>2, <1>4, <2>1 DEF Stalled, Achieved, Nothing, History
  <2>3. loop'.stall <= Stalled'
    <3>1. CASE l.stall = 0
      BY <1>1, <1>2, <1>4, <2>2, <3>1 DEF History
    <3>2. CASE l.stall = loop.stall /\ loop.action # "force_halt"
      BY <1>1, <1>2, <1>4, <2>2, <3>2 DEF CounterInv
    <3> QED
      BY <3>1, <3>2
  <2> QED
    BY <1>1, <1>2, <1>4, <2>1, <2>2, <2>3 DEF CounterInv, HaltEarned
<1> QED
  BY <1>3, <1>4

LEMMA CounterStep == TypeInv /\ CounterInv /\ [Next]_vars => CounterInv'
<1> SUFFICES ASSUME TypeInv, CounterInv, [Next]_vars
             PROVE  CounterInv'
  OBVIOUS
<1>0. loop \in LoopState
  BY DEF TypeInv, TypeOK
<1>1. CASE LoopStep
  <2>1. CASE WorkspaceStops \/ RoundsExhausted \/ RoundRaises
    BY <2>1, EndsCounters DEF WorkspaceStops, RoundsExhausted, RoundRaises
  <2>2. CASE NextRound
    BY <1>0, <2>2, SameCounters DEF NextRound, LoopState
  <2>3. CASE RoutesStigmergic \/ RoutesSequential
    <3>1. PICK groups, before : Executes(groups, before)
      BY <2>3 DEF RoutesStigmergic, RoutesSequential
    <3> QED
      BY <1>0, <3>1, SameCounters DEF Executes, LoopState
  <2>4. CASE NextGroup
    <3>1. /\ loop'.stall = loop.stall /\ loop'.ran = loop.ran
          /\ loop'.productive = loop.productive /\ loop'.action = loop.action
          /\ loop'.boundaries = loop.boundaries
          /\ loop'.pc \in {"compress", loop.pc}
      BY <1>0, <2>4 DEF NextGroup, LoopState
    <3> QED
      BY <2>4, <3>1, SameCounters DEF NextGroup
  <2>5. CASE JudgesFast \/ Judges
    BY <2>5, FastCounters, JudgesCounters
  <2>6. CASE Verdict
    <3>1. CASE BudgetExhausted \/ Completes \/ Halts
      BY <3>1, EndsCounters DEF BudgetExhausted, Completes, Halts, Over
    <3>2. CASE Continues
      BY <1>0, <3>2, GoesOnCounters DEF Continues
    <3>3. CASE Escalates
      <4> DEFINE l == [loop EXCEPT !.stall = 0]
      <4>1. /\ l \in LoopState /\ l.stall = 0 /\ l.ran = loop.ran
            /\ l.productive = loop.productive /\ l.boundaries = loop.boundaries
        BY <1>0 DEF LoopState
      <4>2. GoesOn(l)
        BY <3>3 DEF Escalates
      <4> HIDE DEF l
      <4>3. colony'.redirects = colony.redirects
        BY <3>3 DEF Escalates, TypeInv, TypeOK
      <4> QED
        BY <4>1, <4>2, <4>3, GoesOnCounters
    <3> QED
      BY <2>6, <3>1, <3>2, <3>3 DEF Verdict
  <2> QED
    BY <1>1, <2>1, <2>2, <2>3, <2>4, <2>5, <2>6 DEF LoopStep
<1>2. CASE \E a \in Agent : TurnStep(a)
  <2>1. PICK a \in Agent : TurnStep(a)
    BY <1>2
  <2>2. CASE TurnRaises(a)
    BY <2>2, EndsCounters DEF TurnRaises
  <2>3. CASE UNCHANGED <<fast, loop, since, colony>>
    BY <2>3, SameCounters
  <2> QED
    BY <2>1, <2>2, <2>3
       DEF TurnStep, StartsTurn, AsksTools, Answers, RunsTools, NextIteration, Reports, Steps
<1>3. CASE AsksRedirect \/ RedirectLands
  <2>1. CASE AsksRedirect
    BY <2>1, SameCounters DEF AsksRedirect
  <2> QED
    BY <1>3, <2>1, LandsCounters
<1>4. CASE Killed
  BY <1>4, EndsCounters DEF Killed
<1>5. CASE Restart
  <2>1. /\ loop'.stall = 0 /\ loop'.ran = FALSE /\ loop'.productive = FALSE
        /\ loop'.action = "none" /\ loop'.pc = "head"
        /\ loop'.boundaries = colony'.redirects
    BY <1>5 DEF Restart, Entered
  <2>2. since' = Afresh /\ colony'.redirects \in Nat
    BY <1>5 DEF Restart, TypeInv, TypeOK
  <2>3. loop'.boundaries <= colony'.redirects
    BY <2>1, <2>2
  <2> QED
    BY <2>1, <2>2, <2>3, AfreshCounters
<1>6. CASE UNCHANGED vars
  BY <1>6, SameCounters DEF vars
<1> QED
  BY <1>1, <1>2, <1>3, <1>4, <1>5, <1>6 DEF Next

(* Halts and verified completions rest on the rounds since the counters     *)
(* were started afresh, whatever redirects, escalations, restarts and kills *)
(* come in between; rounds before a redirect count only as long as the loop *)
(* has not taken note of it.                                                *)
THEOREM VerdictsAreEarned == Spec => []HaltEarned
<1>1. Spec => []CounterInv
  BY CounterInit, CounterStep, TypeInvariant, PTL DEF Spec
<1>2. CounterInv => HaltEarned
  BY DEF CounterInv
<1> QED
  BY <1>1, <1>2, PTL

-----------------------------------------------------------------------------
(* The turns.                                                               *)

LEMMA TurnInit == Init => TurnInv
<1> SUFFICES ASSUME Init
             PROVE  TurnInv
  OBVIOUS
<1>1. loop.pc = "head"
  BY DEF Init, Entered
<1> QED
  BY <1>1 DEF Init, TurnInv

LEMMA TurnsTakenBack ==
    ASSUME NoTurns, loop'.pc \in {"head", "route", "ended"}
    PROVE  TurnInv'
BY DEF NoTurns, TurnInv

LEMMA SameTurns ==
    ASSUME TurnInv, UNCHANGED <<turn, tally>>, loop'.groups = loop.groups,
           loop'.before = loop.before, loop'.total = loop.total,
           \/ loop'.pc = loop.pc
           \/ loop.pc = "head" /\ loop'.pc = "route"
           \/ loop.pc = "compress" /\ loop'.pc = "verdict"
    PROVE  TurnInv'
<1>1. Executing => Executing'
  BY DEF Executing, Queued
<1>2. Executed => Executed'
  BY DEF Executed
<1> QED
  BY <1>1, <1>2 DEF TurnInv

LEMMA ExecutesTurns ==
    ASSUME TypeInv, TurnInv, loop.pc = "route", NEW groups, NEW before,
           GroupsOf(groups, before), Executes(groups, before)
    PROVE  TurnInv'
<1>1. /\ loop'.pc = "execute" /\ loop'.groups = groups /\ loop'.before = before
      /\ tally' = tally
  BY DEF Executes, TypeInv, TypeOK, LoopState
<1>2. /\ turn = [a \in Agent |-> Idle] /\ tally = Blank
  BY DEF TurnInv
<1>3. \A a \in Agent : turn'[a].pc = IF a \in groups[1] THEN "starting" ELSE "idle"
  BY <1>2 DEF Executes, Starting, Idle
<1>4. 1 \in DOMAIN groups /\ \A k \in DOMAIN groups : k \in Nat \ {0}
  BY DEF GroupsOf
<1>5. ASSUME NEW a \in Agent
      PROVE  turn'[a].pc = "idle" <=> \E k \in DOMAIN groups : k > 1 /\ a \in groups[k]
  <2>1. PICK k \in DOMAIN groups : a \in groups[k]
    BY DEF GroupsOf
  <2>2. CASE a \in groups[1]
    <3>1. \A j \in DOMAIN groups : a \in groups[j] => j = 1
      BY <1>4, <2>2 DEF GroupsOf, Queued
    <3> QED
      BY <1>3, <2>2, <3>1
  <2>3. CASE a \notin groups[1]
    <3>1. k > 1
      BY <1>4, <2>1, <2>3
    <3> QED
      BY <1>3, <2>1, <2>3, <3>1
  <2> QED
    BY <2>2, <2>3
<1>6. \A a \in Agent : a \notin Range(tally'.outputs) /\ turn'[a].pc \in {"starting", "idle"}
  BY <1>1, <1>2, <1>3 DEF Blank, Range
<1>7. groups # <<>> /\ before \subseteq Agent \X Agent /\ Queued(groups, before)
  BY DEF GroupsOf
<1>8. \A e \in before : turn'[e[2]].pc \notin {"model", "tools"}
  BY <1>6, <1>7
<1>9. Executing'
  BY <1>1, <1>3, <1>5, <1>6, <1>7, <1>8 DEF Executing, Queued
<1> QED
  BY <1>1, <1>9 DEF TurnInv

(* Those whose help an agent wants are done once it is not idle.            *)
LEMMA HelpIsDone ==
    ASSUME TypeInv, Executing, NEW e \in loop.before, turn[e[2]].pc # "idle"
    PROVE  turn[e[1]].pc = "done" /\ e[1] \in Range(tally.outputs)
<1>1. e[1] \in Agent /\ e[2] \in Agent
  BY DEF Executing
<1>2. loop.groups \in Seq(SUBSET Agent) /\ loop.groups # <<>>
  BY DEF TypeInv, TypeOK, LoopState, Executing
<1>3. 1 \in DOMAIN loop.groups /\ \A k \in DOMAIN loop.groups : k \in Nat \ {0}
  BY <1>2
<1>4. ASSUME turn[e[1]].pc # "done"
      PROVE  FALSE
  <2>1. PICK j \in DOMAIN loop.groups : e[1] \in loop.groups[j]
    BY <1>1, <1>3, <1>4 DEF Executing
  <2>2. PICK k \in DOMAIN loop.groups : j < k /\ e[2] \in loop.groups[k]
    BY <2>1 DEF Executing, Queued
  <2>3. k > 1
    BY <1>3, <2>2
  <2> QED
    BY <1>1, <2>2, <2>3 DEF Executing
<1> QED
  BY <1>1, <1>4 DEF Executing

LEMMA StepsTurns ==
    ASSUME TypeInv, TurnInv, loop.pc = "execute", NEW a \in Agent, NEW t, NEW s, Steps(a, t, s),
           turn[a].pc \notin {"idle", "done"}, t.pc # "idle",
           s.outputs = IF t.pc = "reporting" THEN Append(tally.outputs, a)
                       ELSE tally.outputs,
           t.pc = "done" <=> turn[a].pc = "reporting",
           t.pc \in {"model", "tools"} =>
              \/ t.seen \in Routed
              \/ turn[a].pc \in {"model", "tools"} /\ t.seen = turn[a].seen
    PROVE  TurnInv'
<1>1. Executing
  BY DEF TurnInv
<1>2. /\ \A b \in Agent : turn'[b] = IF b = a THEN t ELSE turn[b]
      /\ tally' = s /\ loop' = loop
  BY DEF Steps, TypeInv, TypeOK
<1>20. /\ Range(s.outputs) = IF t.pc = "reporting" THEN Range(tally.outputs) \cup {a}
                             ELSE Range(tally.outputs)
       /\ \A seen : Prefix(seen, tally.outputs) => Prefix(seen, s.outputs)
  <2>1. tally.outputs \in Seq(Agent)
    BY DEF TypeInv, TypeOK, Tally
  <2>2. /\ Range(Append(tally.outputs, a)) = Range(tally.outputs) \cup {a}
        /\ \A seen : Prefix(seen, tally.outputs) => Prefix(seen, Append(tally.outputs, a))
    BY <2>1, AppendFacts
  <2>3. CASE t.pc = "reporting"
    BY <2>2, <2>3
  <2>4. CASE t.pc # "reporting"
    BY <2>4
  <2> QED
    BY <2>3, <2>4
<1>3. ASSUME NEW b \in Agent
      PROVE  /\ turn'[b].pc = "idle" <=>
                    \E k \in DOMAIN loop.groups : k > 1 /\ b \in loop.groups[k]
             /\ turn'[b].pc \notin {"idle", "done"} => b \in loop.groups[1]
             /\ b \in Range(tally'.outputs) <=> turn'[b].pc \in {"reporting", "done"}
             /\ turn'[b].pc \in {"model", "tools"} => Prefix(turn'[b].seen, tally'.outputs)
  <2>1. CASE b = a
    <3>1. a \in Range(tally.outputs) <=> turn[a].pc \in {"reporting", "done"}
      BY <1>1 DEF Executing
    <3>2. a \in Range(s.outputs) <=> t.pc \in {"reporting", "done"}
      BY <1>20, <3>1
    <3>3. t.pc \in {"model", "tools"} => Prefix(t.seen, s.outputs)
      <4>1. turn[a].pc \in {"model", "tools"} => Prefix(turn[a].seen, tally.outputs)
        BY <1>1 DEF Executing
      <4> QED
        BY <1>20, <4>1, RoutedFacts
    <3> QED
      BY <1>1, <1>2, <2>1, <3>2, <3>3 DEF Executing
  <2>2. CASE b # a
    BY <1>1, <1>2, <1>20, <2>2 DEF Executing
  <2> QED
    BY <2>1, <2>2
<1>4. ASSUME NEW e \in loop.before, turn'[e[2]].pc \in {"model", "tools"}
      PROVE  e[1] \in Range(turn'[e[2]].seen) \/ Len(turn'[e[2]].seen) >= RoutedFit
  <2>1. e[1] \in Agent /\ e[2] \in Agent
    BY <1>1 DEF Executing
  <2>2. CASE e[2] # a
    BY <1>1, <1>2, <1>4, <2>1, <2>2 DEF Executing
  <2>3. CASE e[2] = a
    <3>1. e[1] \in Range(tally.outputs)
      BY <1>1, <2>3, HelpIsDone
    <3>2. turn'[a] = t
      BY <1>2
    <3>3. CASE t.seen \in Routed
      BY <2>3, <3>1, <3>2, <3>3, RoutedFacts
    <3>4. CASE turn[a].pc \in {"model", "tools"} /\ t.seen = turn[a].seen
      BY <1>1, <2>3, <3>2, <3>4 DEF Executing
    <3> QED
      BY <1>4, <2>3, <3>2, <3>3, <3>4
  <2> QED
    BY <2>2, <2>3
<1>5. Executing'
  BY <1>1, <1>2, <1>3, <1>4 DEF Executing, Queued
<1> QED
  BY <1>2, <1>5 DEF TurnInv

LEMMA TurnTurns == \A a \in Agent : TypeInv /\ TurnInv /\ TurnStep(a) => TurnInv'
<1> SUFFICES ASSUME NEW a \in Agent, TypeInv, TurnInv, TurnStep(a)
             PROVE  TurnInv'
  OBVIOUS
<1>0. turn[a] \in TurnState /\ tally \in Tally
  BY DEF TypeInv, TypeOK
<1>1. CASE StartsTurn(a)
  <2>1. PICK seen \in Routed, k \in BOOLEAN :
           Steps(a, [turn[a] EXCEPT !.pc = "model", !.seen = seen],
                [tally EXCEPT !.knowledge = @ \/ k])
    BY <1>1 DEF StartsTurn
  <2>2. loop.pc = "execute" /\ turn[a].pc = "starting"
    BY <1>1 DEF StartsTurn, Turning
  <2> DEFINE t == [turn[a] EXCEPT !.pc = "model", !.seen = seen]
             s == [tally EXCEPT !.knowledge = @ \/ k]
  <2>3. t.pc = "model" /\ t.seen \in Routed
    BY <1>0 DEF TurnState
  <2>4. s.outputs = tally.outputs
    BY <1>0 DEF Tally
  <2>5. Steps(a, t, s)
    BY <2>1
  <2> HIDE DEF t, s
  <2> QED
    BY <2>2, <2>3, <2>4, <2>5, StepsTurns
<1>2. CASE AsksTools(a)
  <2> DEFINE t == [turn[a] EXCEPT !.pc = "tools"]
  <2>1. loop.pc = "execute" /\ turn[a].pc = "model" /\ Steps(a, t, tally)
    BY <1>2 DEF AsksTools, Turning
  <2>2. t.pc = "tools" /\ t.seen = turn[a].seen
    BY <1>0 DEF TurnState
  <2> HIDE DEF t
  <2> QED
    BY <2>1, <2>2, StepsTurns
<1>3. CASE Answers(a)
  <2>1. PICK c \in Costs, text \in {fast, FALSE} :
          Steps(a, [Idle EXCEPT !.pc = "reporting", !.cost = c],
                [tally EXCEPT !.outputs = Append(@, a), !.text = (@ \/ text), !.costs = @ + c])
    BY <1>3 DEF Answers
  <2> DEFINE t == [Idle EXCEPT !.pc = "reporting", !.cost = c]
             s == [tally EXCEPT !.outputs = Append(@, a), !.text = (@ \/ text), !.costs = @ + c]
  <2>2. loop.pc = "execute" /\ turn[a].pc = "model"
    BY <1>3 DEF Answers, Turning
  <2>3. t.pc = "reporting" /\ s.outputs = Append(tally.outputs, a)
    BY <1>0 DEF Idle, Tally
  <2>4. Steps(a, t, s)
    BY <2>1
  <2> HIDE DEF t, s
  <2> QED
    BY <2>2, <2>3, <2>4, StepsTurns
<1>4. CASE RunsTools(a)
  <2>1. PICK w \in DOMAIN Work :
          NextIteration(a, [tally EXCEPT !.work = IF w > @ THEN w ELSE @])
    BY <1>4 DEF RunsTools
  <2> DEFINE t == [turn[a] EXCEPT !.pc = "model", !.iteration = @ + 1]
             s == [tally EXCEPT !.work = IF w > @ THEN w ELSE @]
  <2>2. loop.pc = "execute" /\ turn[a].pc = "tools"
    BY <1>4 DEF RunsTools, Turning
  <2>3. t.pc = "model" /\ t.seen = turn[a].seen /\ s.outputs = tally.outputs
    BY <1>0 DEF TurnState, Tally
  <2>4. Steps(a, t, s)
    BY <2>1 DEF NextIteration
  <2> HIDE DEF t, s
  <2> QED
    BY <2>2, <2>3, <2>4, StepsTurns
<1>5. CASE Reports(a)
  <2> DEFINE t == [Idle EXCEPT !.pc = "done"]
             s == [tally EXCEPT !.spent = @ + turn[a].cost]
  <2>1. loop.pc = "execute" /\ turn[a].pc = "reporting" /\ Steps(a, t, s)
    BY <1>5 DEF Reports, Turning
  <2>2. t.pc = "done" /\ s.outputs = tally.outputs
    BY <1>0 DEF Idle, Tally
  <2> HIDE DEF t, s
  <2> QED
    BY <2>1, <2>2, StepsTurns
<1>6. CASE TurnRaises(a)
  <2>1. NoTurns /\ loop'.pc = "ended"
    BY <1>6 DEF TurnRaises, Ends, Entered
  <2> QED
    BY <2>1, TurnsTakenBack
<1> QED
  BY <1>1, <1>2, <1>3, <1>4, <1>5, <1>6 DEF TurnStep

LEMMA EmptyLen ==
    ASSUME NEW S, NEW s \in Seq(S)
    PROVE  s = <<>> <=> Len(s) = 0
OBVIOUS

LEMMA NextGroupTurns == TypeInv /\ TurnInv /\ NextGroup => TurnInv'
<1> SUFFICES ASSUME TypeInv, TurnInv, NextGroup
             PROVE  TurnInv'
  OBVIOUS
<1> DEFINE G == loop.groups
           rest == Tail(G)
<1>1. Executing /\ G \in Seq(SUBSET Agent) /\ G # <<>> /\ loop \in LoopState
  BY DEF NextGroup, TurnInv, Executing, TypeInv, TypeOK, LoopState
<1>2. /\ Len(G) \in Nat /\ Len(G) >= 1 /\ Head(G) = G[1]
      /\ DOMAIN G = 1..Len(G) /\ DOMAIN rest = 1..(Len(G) - 1)
      /\ \A k \in 1..(Len(G) - 1) : rest[k] = G[k + 1]
  BY <1>1
<1>20. Len(G) \in Nat /\ Len(G) >= 1 /\ Len(rest) = Len(G) - 1 /\ rest \in Seq(SUBSET Agent)
  BY <1>1
<1>21. rest = <<>> <=> Len(rest) = 0
  BY <1>20, EmptyLen
<1>3. /\ loop'.groups = rest /\ loop'.total = tally.costs /\ tally' = tally
      /\ loop'.before = IF rest = <<>> THEN {} ELSE loop.before
      /\ loop'.pc = IF rest = <<>> THEN "compress" ELSE "execute"
      /\ turn' = IF rest = <<>> THEN turn ELSE Starting(Head(rest))
  BY <1>1 DEF NextGroup, LoopState
<1>4. \A a \in Agent : turn[a].pc \in {"idle", "done"}
  BY <1>1, <1>2 DEF NextGroup, GroupOver, Executing
<1>5. CASE rest = <<>>
  <2>1. Len(G) = 1
    <3>1. Len(rest) = 0
      BY <1>5, <1>21
    <3> HIDE DEF rest, G
    <3> QED
      BY <1>20, <3>1
  <2>2. \A a \in Agent : turn[a].pc = "done"
    <3>1. \A k \in DOMAIN G : ~(k > 1)
      BY <1>2, <2>1
    <3> QED
      BY <1>1, <1>4, <3>1 DEF Executing
  <2>3. Range(tally.outputs) = Agent
    <3>1. Range(tally.outputs) \subseteq Agent
      BY DEF TypeInv, TypeOK, Tally, Range
    <3>2. \A a \in Agent : a \in Range(tally.outputs)
      BY <1>1, <2>2 DEF Executing
    <3> QED
      BY <3>1, <3>2
  <2>4. Executed'
    BY <1>3, <1>5, <2>2, <2>3 DEF Executed
  <2> QED
    BY <1>3, <1>5, <2>4 DEF TurnInv
<1>6. CASE rest # <<>>
  <2>1. Len(G) >= 2 /\ 2 \in DOMAIN G /\ 1 \in DOMAIN rest /\ rest[1] = G[2] /\ Head(rest) = G[2]
    <3>1. Len(rest) # 0
      BY <1>6, <1>21
    <3>2. Len(G) >= 2
      <4> HIDE DEF rest, G
      <4> QED
        BY <1>20, <3>1
    <3>3. 1 \in 1..(Len(G) - 1) /\ 2 \in 1..Len(G)
      BY <1>2, <3>2
    <3>4. rest[1] = G[2]
      BY <1>2, <3>3
    <3>5. Head(rest) = rest[1]
      BY <1>1, <1>6
    <3> QED
      BY <1>2, <3>2, <3>3, <3>4, <3>5
  <2>2. \A j, k \in DOMAIN G : \A a \in Agent : (a \in G[j] /\ a \in G[k]) => j = k
    BY <1>1 DEF Executing, Queued
  <2>3. \A k \in DOMAIN rest : k + 1 \in DOMAIN G /\ rest[k] = G[k + 1] /\ k \in Nat \ {0}
    BY <1>2
  <2>4. \A k \in DOMAIN G : k > 1 => k - 1 \in DOMAIN rest /\ rest[k - 1] = G[k]
    BY <1>2
  <2>5. Queued(rest, loop.before)
    <3>1. ASSUME NEW j \in DOMAIN rest, NEW k \in DOMAIN rest, NEW a \in Agent,
                 a \in rest[j], a \in rest[k]
          PROVE  j = k
      <4>1. j + 1 = k + 1
        BY <2>2, <2>3, <3>1
      <4> QED
        BY <2>3, <4>1
    <3>2. ASSUME NEW e \in loop.before, NEW j \in DOMAIN rest, e[1] \in rest[j]
          PROVE  \E k \in DOMAIN rest : j < k /\ e[2] \in rest[k]
      <4>1. PICK k \in DOMAIN G : j + 1 < k /\ e[2] \in G[k]
        BY <1>1, <2>3, <3>2 DEF Executing, Queued
      <4>2. k \in Nat /\ j \in Nat \ {0}
        BY <1>2, <2>3
      <4>3. k > 1 /\ j < k - 1
        BY <4>1, <4>2
      <4> QED
        BY <2>4, <4>1, <4>3
    <3> QED
      BY <3>1, <3>2 DEF Queued
  <2>6. \A a \in Agent : turn'[a].pc = IF a \in G[2] THEN "starting" ELSE turn[a].pc
    BY <1>3, <1>6, <2>1 DEF Starting, Idle
  <2>7. ASSUME NEW a \in Agent
        PROVE  /\ turn'[a].pc = "idle" <=> \E k \in DOMAIN rest : k > 1 /\ a \in rest[k]
               /\ turn'[a].pc \notin {"idle", "done"} => a \in rest[1]
               /\ a \in Range(tally'.outputs) <=> turn'[a].pc \in {"reporting", "done"}
    <3>0. /\ turn[a].pc = "idle" <=> \E k \in DOMAIN G : k > 1 /\ a \in G[k]
          /\ a \in Range(tally.outputs) <=> turn[a].pc \in {"reporting", "done"}
      BY <1>1 DEF Executing
    <3>1. CASE a \in G[2]
      <4>1. turn[a].pc = "idle"
        BY <2>1, <3>0, <3>1
      <4>2. ASSUME NEW k \in DOMAIN rest, k > 1, a \in rest[k]
            PROVE  FALSE
        <5>1. k + 1 = 2
          BY <2>1, <2>2, <2>3, <3>1, <4>2
        <5> QED
          BY <2>3, <4>2, <5>1
      <4> QED
        BY <1>3, <2>1, <2>6, <3>0, <3>1, <4>1, <4>2
    <3>2. CASE a \notin G[2]
      <4>1. ASSUME NEW k \in DOMAIN G, k > 1, a \in G[k]
            PROVE  \E j \in DOMAIN rest : j > 1 /\ a \in rest[j]
        <5>1. k # 2 /\ k \in Nat
          BY <1>2, <3>2, <4>1
        <5>2. k - 1 > 1
          BY <4>1, <5>1
        <5> QED
          BY <2>4, <4>1, <5>2
      <4>2. ASSUME NEW k \in DOMAIN rest, k > 1, a \in rest[k]
            PROVE  \E j \in DOMAIN G : j > 1 /\ a \in G[j]
        <5>1. k + 1 > 1
          BY <2>3
        <5> QED
          BY <2>3, <4>2, <5>1
      <4> QED
        BY <1>3, <1>4, <2>6, <3>0, <3>2, <4>1, <4>2
    <3> QED
      BY <3>1, <3>2
  <2>8. /\ \A a \in Agent : turn'[a].pc \notin {"model", "tools"}
        /\ \A e \in loop.before : turn'[e[2]].pc \notin {"model", "tools"}
    BY <1>1, <1>4, <2>6 DEF Executing
  <2>9. /\ loop'.groups = rest /\ loop'.before = loop.before
        /\ loop.before \subseteq Agent \X Agent
    BY <1>1, <1>3, <1>6 DEF Executing
  <2>10. Queued(loop'.groups, loop'.before) /\ Queued(loop.groups, loop.before)'
    BY <2>5, <2>9 DEF Queued
  <2> HIDE DEF rest
  <2>11. Executing'
    BY <1>6, <2>7, <2>8, <2>9, <2>10 DEF Executing
  <2> QED
    BY <1>3, <1>6, <2>11 DEF TurnInv
<1> QED
  BY <1>5, <1>6

LEMMA TurnInvStep == TypeInv /\ TurnInv /\ [Next]_vars => TurnInv'
<1> SUFFICES ASSUME TypeInv, TurnInv, [Next]_vars
             PROVE  TurnInv'
  OBVIOUS
<1>0. loop \in LoopState
  BY DEF TypeInv, TypeOK
<1>1. ASSUME NEW out, Ends(out)
      PROVE  TurnInv'
  <2>1. NoTurns /\ loop'.pc = "ended"
    BY <1>1 DEF Ends, Entered
  <2> QED
    BY <2>1, TurnsTakenBack
<1>2. ASSUME NEW l \in LoopState, GoesOn(l)
      PROVE  TurnInv'
  <2>1. NoTurns /\ loop'.pc = "head"
    BY <1>2, GoesOnFacts DEF GoesOn
  <2> QED
    BY <2>1, TurnsTakenBack
<1>3. CASE LoopStep
  <2>1. CASE WorkspaceStops \/ RoundsExhausted \/ RoundRaises
    BY <1>1, <2>1 DEF WorkspaceStops, RoundsExhausted, RoundRaises
  <2>2. CASE NextRound
    BY <1>0, <2>2, SameTurns DEF NextRound, LoopState
  <2>3. CASE RoutesStigmergic
    BY <2>3, RoutesFacts, ExecutesTurns DEF RoutesStigmergic
  <2>4. CASE RoutesSequential
    <3> DEFINE p == CHOOSE q \in Order : TRUE
               B == {e \in Agent \X Agent : e \notin Backward({e}, p) /\ e[1] # e[2]}
    <3>1. p \in Order
      BY OrderExists
    <3>2. GroupsOf([i \in DOMAIN p |-> {p[i]}], B)
      BY <3>1, SequenceFacts
    <3>3. loop.pc = "route" /\ Executes([i \in DOMAIN p |-> {p[i]}], B)
      BY <2>4 DEF RoutesSequential
    <3> HIDE DEF p, B
    <3> QED
      BY <3>2, <3>3, ExecutesTurns
  <2>5. CASE NextGroup
    BY <2>5, NextGroupTurns
  <2>6. CASE JudgesFast \/ Judges
    <3>1. PICK action, stall : Judged(action, stall)
      BY <2>6 DEF JudgesFast, Judges
    <3>2. loop.pc = "compress"
      BY <2>6 DEF JudgesFast, Judges
    <3>3. /\ loop'.groups = loop.groups /\ loop'.before = loop.before
          /\ loop'.total = loop.total /\ loop'.pc = "verdict"
      BY <1>0, <3>1 DEF Judged, LoopState
    <3> QED
      BY <3>1, <3>2, <3>3, SameTurns DEF Judged
  <2>7. CASE Verdict
    <3>1. CASE BudgetExhausted \/ Completes \/ Halts
      BY <1>1, <3>1 DEF BudgetExhausted, Completes, Halts, Over
    <3>2. CASE Continues
      BY <1>0, <1>2, <3>2 DEF Continues
    <3>3. CASE Escalates
      <4>1. [loop EXCEPT !.stall = 0] \in LoopState
        BY <1>0 DEF LoopState
      <4> QED
        BY <1>2, <3>3, <4>1 DEF Escalates
    <3> QED
      BY <2>7, <3>1, <3>2, <3>3 DEF Verdict
  <2> QED
    BY <1>3, <2>1, <2>2, <2>3, <2>4, <2>5, <2>6, <2>7 DEF LoopStep
<1>4. CASE \E a \in Agent : TurnStep(a)
  BY <1>4, TurnTurns
<1>5. CASE AsksRedirect \/ RedirectLands
  BY <1>5, SameTurns DEF AsksRedirect, RedirectLands
<1>6. CASE Killed
  BY <1>1, <1>6 DEF Killed
<1>7. CASE Restart
  <2>1. NoTurns /\ loop'.pc = "head"
    BY <1>7 DEF Restart, Entered
  <2> QED
    BY <2>1, TurnsTakenBack
<1>8. CASE UNCHANGED vars
  BY <1>8, SameTurns DEF vars
<1> QED
  BY <1>3, <1>4, <1>5, <1>6, <1>7, <1>8 DEF Next

LEMMA TurnInvariant == Spec => []TurnInv
BY TurnInit, TurnInvStep, TypeInvariant, PTL DEF Spec

-----------------------------------------------------------------------------
(* The cost of a round.                                                     *)

LEMMA EnumerationFacts ==
    /\ Enumeration \in [1..Size -> Agent]
    /\ \A i, j \in 1..Size : Enumeration[i] = Enumeration[j] => i = j
    /\ \A a \in Agent : \E i \in 1..Size : Enumeration[i] = a
<1>1. Enumeration \in Order
  BY OrderExists DEF Enumeration
<1> QED
  BY <1>1, OrderFacts

(* Nothing is due: the total is nothing.                                    *)
LEMMA TotalsOfNone ==
    ASSUME NEW cost, \A a \in Agent : cost[a] = 0
    PROVE  /\ \E f \in Totals(cost) : f[Size] = 0
           /\ \A f \in Totals(cost) : f[Size] = 0
<1>0. Size \in Nat /\ \A i \in 1..Size : cost[Enumeration[i]] = 0
  BY SizeType, EnumerationFacts
<1>1. \E f \in Totals(cost) : f[Size] = 0
  <2> DEFINE f == [i \in 0..Size |-> 0]
  <2>1. f \in [0..Size -> Int] /\ f[0] = 0 /\ f[Size] = 0
    BY <1>0
  <2>2. \A i \in 1..Size : f[i] = f[i - 1] + cost[Enumeration[i]]
    BY <1>0
  <2>3. f \in Totals(cost)
    BY <2>1, <2>2 DEF Totals
  <2> QED
    BY <2>1, <2>3
<1>2. ASSUME NEW f \in Totals(cost)
      PROVE  f[Size] = 0
  <2> DEFINE Z == {i \in 0..Size : f[i] = 0}
  <2>1. 0 \in Z
    BY <1>0 DEF Totals
  <2>2. ASSUME NEW i \in 0..Size, i \in Z, i < Size
        PROVE  i + 1 \in Z
    <3>1. i + 1 \in 1..Size /\ (i + 1) - 1 = i
      BY <1>0, <2>2
    <3>2. f[i + 1] = f[i] + 0
      BY <1>0, <3>1 DEF Totals
    <3> QED
      BY <2>2, <3>1, <3>2
  <2> HIDE DEF Z
  <2>3. \A i \in 0..Size : (i \in Z /\ i < Size) => i + 1 \in Z
    BY <2>2
  <2>4. 0..Size \subseteq Z
    BY <1>0, <2>1, <2>3, Inductive
  <2>5. Size \in Z
    BY <1>0, <2>4
  <2> QED
    BY <2>5 DEF Z
<1> QED
  BY <1>1, <1>2

(* One cost changes: the total changes by as much.                          *)
LEMMA TotalsMove ==
    ASSUME NEW a \in Agent, NEW old \in [Agent -> Nat], NEW new \in [Agent -> Nat],
           \A b \in Agent : b # a => new[b] = old[b],
           NEW f \in Totals(old)
    PROVE  \E g \in Totals(new) : g[Size] = f[Size] - old[a] + new[a]
<1>0. Size \in Nat
  BY SizeType
<1>1. PICK q \in 1..Size : Enumeration[q] = a
  BY EnumerationFacts
<1>2. /\ f \in [0..Size -> Int] /\ f[0] = 0
      /\ \A i \in 1..Size : f[i] = f[i - 1] + old[Enumeration[i]]
  BY DEF Totals
<1> DEFINE d == new[a] - old[a]
           g == [i \in 0..Size |-> IF i < q THEN f[i] ELSE f[i] + d]
<1>3. d \in Int
  OBVIOUS
<1> HIDE DEF d
<1>4. g \in [0..Size -> Int]
  BY <1>2, <1>3
<1>5. g[0] = 0
  BY <1>0, <1>2
<1>6. ASSUME NEW i \in 1..Size
      PROVE  g[i] = g[i - 1] + new[Enumeration[i]]
  <2>1. /\ i \in 0..Size /\ i - 1 \in 0..Size /\ Enumeration[i] \in Agent
        /\ f[i] \in Int /\ f[i - 1] \in Int
        /\ f[i] = f[i - 1] + old[Enumeration[i]]
        /\ old[Enumeration[i]] \in Nat /\ new[Enumeration[i]] \in Nat
    <3>1. i \in 0..Size /\ i - 1 \in 0..Size
      BY <1>0
    <3>2. Enumeration[i] \in Agent
      BY EnumerationFacts
    <3> QED
      BY <1>2, <3>1, <3>2
  <2>2. /\ g[i] = IF i < q THEN f[i] ELSE f[i] + d
        /\ g[i - 1] = IF i - 1 < q THEN f[i - 1] ELSE f[i - 1] + d
    BY <2>1
  <2> HIDE DEF g
  <2>3. CASE i = q
    <3>1. Enumeration[i] = a
      BY <1>1, <2>3
    <3>2. g[i] = f[i] + d /\ g[i - 1] = f[i - 1]
      BY <2>2, <2>3
    <3>3. new[a] = old[a] + d /\ new[a] \in Nat /\ old[a] \in Nat
      BY DEF d
    <3> QED
      BY <1>3, <2>1, <3>1, <3>2, <3>3
  <2>4. CASE i # q
    <3>1. Enumeration[i] # a
      BY <1>1, <2>4, EnumerationFacts
    <3>2. new[Enumeration[i]] = old[Enumeration[i]]
      BY <2>1, <3>1
    <3>3. (i < q /\ i - 1 < q) \/ (~(i < q) /\ ~(i - 1 < q))
      BY <2>4
    <3> QED
      BY <1>3, <2>1, <2>2, <3>2, <3>3
  <2> QED
    BY <2>3, <2>4
<1>7. g \in Totals(new)
  BY <1>4, <1>5, <1>6 DEF Totals
<1>8. g[Size] = f[Size] + d
  BY <1>0, <1>1
<1>9. g[Size] = f[Size] - old[a] + new[a]
  <2>1. f[Size] \in Int /\ old[a] \in Nat /\ new[a] \in Nat
    BY <1>0, <1>2
  <2> HIDE DEF g
  <2> QED
    BY <1>8, <2>1 DEF d
<1> QED
  BY <1>7, <1>9

LEMMA CostInit == Init => CostInv
<1> SUFFICES ASSUME Init
             PROVE  CostInv
  OBVIOUS
<1>1. \A a \in Agent : turn[a].cost = 0 /\ Due[a] = 0
  BY DEF Init, Idle, Due
<1>2. tally.costs = 0 /\ tally.spent = 0
  BY DEF Init, Blank
<1>3. PICK f \in Totals(Due) : f[Size] = 0
  BY <1>1, TotalsOfNone
<1>4. tally.costs = tally.spent + f[Size]
  BY <1>2, <1>3
<1> QED
  BY <1>1, <1>3, <1>4 DEF CostInv

LEMMA NoCosts ==
    ASSUME NoTurns
    PROVE  CostInv'
<1>1. \A a \in Agent : turn'[a].cost = 0 /\ Due'[a] = 0
  BY DEF NoTurns, Idle, Due
<1>2. tally'.costs = 0 /\ tally'.spent = 0
  BY DEF NoTurns, Blank
<1>3. PICK f \in Totals(Due') : f[Size] = 0
  BY <1>1, TotalsOfNone
<1>4. tally'.costs = tally'.spent + f[Size]
  BY <1>2, <1>3
<1>5. Totals(Due') = Totals(Due)'
  BY DEF Totals
<1> QED
  BY <1>1, <1>3, <1>4, <1>5 DEF CostInv

LEMMA SameCosts ==
    ASSUME CostInv, UNCHANGED tally,
           \A a \in Agent : turn'[a].cost = turn[a].cost,
           \A a \in Agent : turn'[a].pc # "reporting" => turn'[a].cost = 0
    PROVE  CostInv'
<1>1. Due' = Due
  BY DEF Due
<1>2. Totals(Due)' = Totals(Due)
  BY <1>1 DEF Totals
<1> QED
  BY <1>2 DEF CostInv

LEMMA StepsCosts ==
    ASSUME TypeInv, CostInv, NEW a \in Agent, NEW t \in TurnState, NEW s \in Tally,
           Steps(a, t, s),
           t.pc # "reporting" => t.cost = 0,
           s.costs + tally.spent + turn[a].cost = tally.costs + s.spent + t.cost
    PROVE  CostInv'
<1>1. turn \in [Agent -> TurnState] /\ tally \in Tally
  BY DEF TypeInv, TypeOK
<1>2. turn' = [turn EXCEPT ![a] = t] /\ tally' = s
  BY DEF Steps
<1>3. turn' \in [Agent -> TurnState] /\ turn'[a] = t /\ \A b \in Agent : b # a => turn'[b] = turn[b]
  BY <1>1, <1>2
<1>4. /\ Due \in [Agent -> Nat] /\ Due' \in [Agent -> Nat]
      /\ Due[a] = turn[a].cost /\ Due'[a] = t.cost
      /\ \A b \in Agent : b # a => Due'[b] = Due[b]
  BY <1>1, <1>3 DEF Due, TurnState
<1>5. PICK f \in Totals(Due) : tally.costs = tally.spent + f[Size]
  BY DEF CostInv
<1>6. PICK g \in Totals(Due') : g[Size] = f[Size] - Due[a] + Due'[a]
  <2> DEFINE new == Due'
  <2>1. new \in [Agent -> Nat] /\ \A b \in Agent : b # a => new[b] = Due[b]
    BY <1>4
  <2> HIDE DEF new
  <2>2. \E g \in Totals(new) : g[Size] = f[Size] - Due[a] + new[a]
    BY <1>4, <2>1, TotalsMove
  <2> QED
    BY <2>2 DEF new
<1>7. Totals(Due') = Totals(Due)'
  BY DEF Totals
<1>8. s.costs = s.spent + g[Size]
  <2>1. f[Size] \in Int
    BY <1>5, SizeType DEF Totals
  <2>2. /\ tally.costs \in Nat /\ tally.spent \in Nat /\ s.costs \in Nat /\ s.spent \in Nat
        /\ turn[a].cost \in Nat /\ t.cost \in Nat
    BY <1>1 DEF Tally, TurnState
  <2>3. g[Size] = f[Size] - turn[a].cost + t.cost
    BY <1>4, <1>6
  <2> QED
    BY <1>5, <2>1, <2>2, <2>3
<1>9. \A b \in Agent : turn'[b].pc # "reporting" => turn'[b].cost = 0
  BY <1>3 DEF CostInv
<1> QED
  BY <1>2, <1>6, <1>7, <1>8, <1>9 DEF CostInv

LEMMA TurnCosts == \A a \in Agent : TypeInv /\ CostInv /\ TurnStep(a) => CostInv'
<1> SUFFICES ASSUME NEW a \in Agent, TypeInv, CostInv, TurnStep(a)
             PROVE  CostInv'
  OBVIOUS
<1>0. /\ turn[a] \in TurnState /\ tally \in Tally /\ fast \in BOOLEAN
      /\ turn[a].cost \in Nat /\ tally.costs \in Nat /\ tally.spent \in Nat
      /\ turn[a].pc # "reporting" => turn[a].cost = 0
  BY DEF TypeInv, TypeOK, TurnState, Tally, CostInv
<1>1. CASE StartsTurn(a)
  <2>1. PICK seen \in Routed, k \in BOOLEAN :
           Steps(a, [turn[a] EXCEPT !.pc = "model", !.seen = seen],
                [tally EXCEPT !.knowledge = @ \/ k])
    BY <1>1 DEF StartsTurn
  <2> DEFINE t == [turn[a] EXCEPT !.pc = "model", !.seen = seen]
             s == [tally EXCEPT !.knowledge = @ \/ k]
  <2>2. turn[a].pc = "starting"
    BY <1>1 DEF StartsTurn, Turning
  <2>3. t \in TurnState /\ t.cost = turn[a].cost
    BY <1>0, RoutedFacts DEF TurnState
  <2>4. s \in Tally /\ s.costs = tally.costs /\ s.spent = tally.spent
    BY <1>0 DEF Tally
  <2>5. Steps(a, t, s)
    BY <2>1
  <2> HIDE DEF t, s
  <2> QED
    BY <1>0, <2>2, <2>3, <2>4, <2>5, StepsCosts
<1>2. CASE AsksTools(a)
  <2> DEFINE t == [turn[a] EXCEPT !.pc = "tools"]
  <2>1. turn[a].pc = "model" /\ Steps(a, t, tally)
    BY <1>2 DEF AsksTools, Turning
  <2>2. t \in TurnState /\ t.cost = turn[a].cost
    BY <1>0 DEF TurnState
  <2> HIDE DEF t
  <2> QED
    BY <1>0, <2>1, <2>2, StepsCosts
<1>3. CASE Answers(a)
  <2>1. PICK c \in Costs, text \in {fast, FALSE} :
          Steps(a, [Idle EXCEPT !.pc = "reporting", !.cost = c],
                [tally EXCEPT !.outputs = Append(@, a), !.text = (@ \/ text), !.costs = @ + c])
    BY <1>3 DEF Answers
  <2> DEFINE t == [Idle EXCEPT !.pc = "reporting", !.cost = c]
             s == [tally EXCEPT !.outputs = Append(@, a), !.text = (@ \/ text), !.costs = @ + c]
  <2>2. turn[a].pc = "model" /\ c \in Nat /\ text \in BOOLEAN
    BY <1>0, <1>3, RoundAssumption DEF Answers, Turning
  <2>3. t \in TurnState /\ t.pc = "reporting" /\ t.cost = c
    <3>1. Idle \in TurnState
      BY BlankType
    <3> QED
      BY <2>2, <3>1 DEF TurnState
  <2>4. s \in Tally /\ s.costs = tally.costs + c /\ s.spent = tally.spent
    <3>1. /\ Append(tally.outputs, a) \in Seq(Agent) /\ (tally.text \/ text) \in BOOLEAN
          /\ tally.costs + c \in Nat
      BY <1>0, <2>2 DEF Tally
    <3> QED
      BY <1>0, <3>1 DEF Tally
  <2>5. Steps(a, t, s)
    BY <2>1
  <2> HIDE DEF t, s
  <2> QED
    BY <1>0, <2>2, <2>3, <2>4, <2>5, StepsCosts
<1>4. CASE RunsTools(a)
  <2>1. PICK w \in DOMAIN Work :
          NextIteration(a, [tally EXCEPT !.work = IF w > @ THEN w ELSE @])
    BY <1>4 DEF RunsTools
  <2> DEFINE t == [turn[a] EXCEPT !.pc = "model", !.iteration = @ + 1]
             s == [tally EXCEPT !.work = IF w > @ THEN w ELSE @]
  <2>2. turn[a].pc = "tools"
    BY <1>4 DEF RunsTools, Turning
  <2>3. t \in TurnState /\ t.cost = turn[a].cost
    <3>1. turn[a].iteration + 1 \in 0..MaxIterations
      <4>1. turn[a].iteration < MaxIterations /\ turn[a].iteration \in 0..MaxIterations
        BY <1>0, <2>2 DEF TypeInv, TurnState
      <4> QED
        BY <4>1, RoundAssumption
    <3> QED
      BY <1>0, <3>1 DEF TurnState
  <2>4. s \in Tally /\ s.costs = tally.costs /\ s.spent = tally.spent
    BY <1>0 DEF Tally
  <2>5. Steps(a, t, s)
    BY <2>1 DEF NextIteration
  <2> HIDE DEF t, s
  <2> QED
    BY <1>0, <2>2, <2>3, <2>4, <2>5, StepsCosts
<1>5. CASE Reports(a)
  <2> DEFINE t == [Idle EXCEPT !.pc = "done"]
             s == [tally EXCEPT !.spent = @ + turn[a].cost]
  <2>1. Steps(a, t, s)
    BY <1>5 DEF Reports
  <2>2. t \in TurnState /\ t.pc = "done" /\ t.cost = 0
    <3>1. Idle \in TurnState /\ Idle.cost = 0
      BY BlankType DEF Idle
    <3> QED
      BY <3>1 DEF TurnState
  <2>3. s \in Tally /\ s.costs = tally.costs /\ s.spent = tally.spent + turn[a].cost
    BY <1>0 DEF Tally
  <2> HIDE DEF t, s
  <2> QED
    BY <1>0, <2>1, <2>2, <2>3, StepsCosts
<1>6. CASE TurnRaises(a)
  BY <1>6, NoCosts DEF TurnRaises, Ends
<1> QED
  BY <1>1, <1>2, <1>3, <1>4, <1>5, <1>6 DEF TurnStep

(* Agents whose turns start were idle, and have cost nothing.               *)
LEMMA StartingCosts ==
    ASSUME TypeInv, CostInv, NEW group, turn' = Starting(group), UNCHANGED tally,
           \A a \in Agent : a \in group => turn[a].pc # "reporting"
    PROVE  CostInv'
<1>1. ASSUME NEW a \in Agent
      PROVE  /\ turn'[a].cost = turn[a].cost
             /\ turn'[a].pc # "reporting" => turn'[a].cost = 0
  <2>1. CASE a \in group
    <3>1. turn'[a].cost = 0
      BY <2>1 DEF Starting, Idle
    <3> QED
      BY <2>1, <3>1 DEF CostInv
  <2>2. CASE a \notin group
    BY <2>2 DEF Starting, CostInv
  <2> QED
    BY <2>1, <2>2
<1> QED
  BY <1>1, SameCosts

LEMMA CostStep == TypeInv /\ TurnInv /\ CostInv /\ [Next]_vars => CostInv'
<1> SUFFICES ASSUME TypeInv, TurnInv, CostInv, [Next]_vars
             PROVE  CostInv'
  OBVIOUS
<1>0. CASE UNCHANGED <<turn, tally>>
  BY <1>0, SameCosts DEF CostInv
<1>1. CASE NoTurns
  BY <1>1, NoCosts
<1>2. ASSUME RoutesStigmergic \/ RoutesSequential
      PROVE  CostInv'
  <2>1. PICK groups, before : Executes(groups, before)
    BY <1>2 DEF RoutesStigmergic, RoutesSequential
  <2>2. \A a \in Agent : turn[a].pc # "reporting"
    BY <1>2 DEF RoutesStigmergic, RoutesSequential, TurnInv, Idle
  <2> QED
    BY <2>1, <2>2, StartingCosts DEF Executes
<1>3. ASSUME NextGroup
      PROVE  CostInv'
  <2>1. CASE UNCHANGED turn
    BY <1>0, <1>3, <2>1 DEF NextGroup
  <2>2. CASE turn' = Starting(Head(Tail(loop.groups)))
    <3>1. Executing /\ loop.groups \in Seq(SUBSET Agent) /\ loop.groups # <<>>
      BY <1>3 DEF NextGroup, TurnInv, Executing, TypeInv, TypeOK, LoopState
    <3>2. \A a \in Agent : turn[a].pc # "reporting"
      BY <1>3, <3>1 DEF NextGroup, GroupOver, Executing
    <3> QED
      BY <1>3, <2>2, <3>2, StartingCosts DEF NextGroup
  <2> QED
    BY <1>3, <2>1, <2>2 DEF NextGroup
<1>4. CASE LoopStep
  BY <1>0, <1>1, <1>2, <1>3, <1>4
     DEF LoopStep, NextRound, WorkspaceStops, RoundsExhausted, JudgesFast, Judges, Judged,
         RoundRaises, Verdict, BudgetExhausted, Completes, Continues, Escalates, Halts,
         Over, Ends, GoesOn
<1>5. CASE \E a \in Agent : TurnStep(a)
  BY <1>5, TurnCosts
<1>6. CASE AsksRedirect \/ RedirectLands \/ Killed \/ Restart \/ UNCHANGED vars
  BY <1>0, <1>1, <1>6 DEF AsksRedirect, RedirectLands, Killed, Restart, Ends, vars
<1> QED
  BY <1>4, <1>5, <1>6 DEF Next

LEMMA CostInvariant == Spec => []CostInv
BY CostInit, CostStep, TypeInvariant, TurnInvariant, PTL DEF Spec

(* An agent starts after all those whose help it wants; it has their        *)
(* outputs in its context, or the first RoutedFit outputs or more; a round  *)
(* whose turns are over accounts for every agent and for every cost in the  *)
(* log, whatever the interleaving of its turns.                             *)
THEOREM TurnsAreInOrder == Spec => []TurnsInOrder
<1>1. TypeInv /\ TurnInv /\ CostInv => TurnsInOrder
  <2> SUFFICES ASSUME TypeInv, TurnInv, CostInv
               PROVE  TurnsInOrder
    OBVIOUS
  <2>1. ASSUME loop.pc = "execute", NEW e \in loop.before
        PROVE  /\ turn[e[2]].pc # "idle" => turn[e[1]].pc = "done"
               /\ turn[e[2]].pc \in {"model", "tools"} =>
                     /\ turn[e[2]].seen = SubSeq(tally.outputs, 1, Len(turn[e[2]].seen))
                     /\ \/ e[1] \in Range(turn[e[2]].seen)
                        \/ Len(turn[e[2]].seen) >= RoutedFit
    <3>1. Executing /\ e[2] \in Agent
      BY <2>1 DEF TurnInv, Executing
    <3> QED
      BY <2>1, <3>1, HelpIsDone DEF Executing, Prefix
  <2>2. ASSUME loop.pc \in {"compress", "verdict"}
        PROVE  Range(tally.outputs) = Agent /\ loop.total = tally.spent
    <3>1. Executed
      BY <2>2 DEF TurnInv
    <3>2. \A a \in Agent : Due[a] = 0
      BY <3>1 DEF Executed, CostInv, Due
    <3>3. PICK f \in Totals(Due) : tally.costs = tally.spent + f[Size]
      BY DEF CostInv
    <3>4. f[Size] = 0
      BY <3>2, <3>3, TotalsOfNone
    <3>5. tally.spent \in Nat
      BY DEF TypeInv, TypeOK, Tally
    <3> QED
      BY <3>1, <3>3, <3>4, <3>5 DEF Executed
  <2> QED
    BY <2>1, <2>2 DEF TurnsInOrder
<1> QED
  BY <1>1, TypeInvariant, TurnInvariant, CostInvariant, PTL
=============================================================================
