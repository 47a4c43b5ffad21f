------------------------------ MODULE QueenTurn ------------------------------
(***************************************************************************)
(* The Queen's turns: surface/queen_runtime.py, QueenAgent.respond, with    *)
(* the tool calls it makes (surface/queen_tools.py, dispatch) over the      *)
(* service router (ServiceRouter).                                          *)
(*                                                                          *)
(* Every operator message starts a coroutine (surface/commands.py); the     *)
(* turns of a thread queue up for its lock.  A turn reads the thread when   *)
(* it gets the lock, runs up to MaxIterations model calls with the tools    *)
(* they ask for, falls back on the prose it got, and emits one message.     *)
(* A step is what a turn does between two awaits; what the model says and   *)
(* how a tool ends are choices.                                             *)
(***************************************************************************)
EXTENDS ServiceRouter, Sequences

CONSTANTS Thread, NoThread,
          MaxTurns,       \* bound: operator messages, each with its responder
          Message,        \* what an operator's message is like
          MaxIterations,  \* _MAX_TOOL_ITERATIONS (7)
          MaxAsks,        \* bound: queries of agents
          MaxCalls,       \* bound: tool calls in one answer of the model
          PlanningModel   \* a queen_planning_model is configured

(* deliberate: _DELIBERATION_RE matches; work: it looks like colony work    *)
(* (then it is routed to colonies and gets their tools); question:          *)
(* _is_genuine_question; long: over 200 characters.                         *)
ASSUME QueenAssumption ==
    /\ MaxTurns \in Nat \ {0} /\ 1..MaxTurns \subseteq Caller
    /\ Message \subseteq [deliberate : BOOLEAN, work : BOOLEAN,
                          question : BOOLEAN, long : BOOLEAN]
    /\ NoThread \notin Thread
    /\ MaxAsks \in Nat
    /\ MaxIterations \in Nat \ {0} /\ MaxCalls \in Nat \ {0}
    /\ PlanningModel \in BOOLEAN

VARIABLES
    talk,      \* per thread: its queen_messages
    lock,      \* per thread: the holder of its lock and those who wait for it
    turn,      \* per turn: where it is
    asks       \* bound: the queries agents made

queenVars == <<talk, lock, turn, asks>>
vars == <<routerVars, queenVars>>

Turn  == 1..MaxTurns
Agent == Caller \ Turn

(* What a call of a tool comes to: it reads or fails ("look"), spawns,      *)
(* previews a spawn, acts otherwise, as propose_plan does ("act"), queries a *)
(* service, or raises where dispatch does not catch it ("broken").          *)
Tool == {"look", "spawn", "preview", "act", "query", "broken"}

Stage == {"loop", "intent", "followup", "cloud"}

(* none: no message yet; said: its message is being emitted; queued: for    *)
(* the lock; setup: memory retrieval and planning signals; model: a call of *)
(* the model; tools: the calls it asked for; asking: a service; intent: the *)
(* prose is parsed; reply, failed: the message to be emitted; leaving: the  *)
(* lock to be released.                                                     *)
TurnState == [pc : {"none", "said", "queued", "setup", "model", "tools", "asking", "intent",
                    "reply", "failed", "leaving", "done"},
              th : Thread \cup {NoThread},
              own : Nat, read : Nat,    \* the message it was started for, the one it reads
              fresh : BOOLEAN,          \* no answer of the Queen before it
              narrowed : BOOLEAN,
              cloud : BOOLEAN,          \* it uses the planning model
              stage : Stage,
              left : 0..MaxIterations,
              calls : 0..MaxCalls,       \* tool calls it has still to run
              acted : BOOLEAN, looked : BOOLEAN, followed : BOOLEAN,
              lost : BOOLEAN,           \* what raised has taken its answer
              prose : {"short", "full"}]   \* under 50 characters, or more

Idle == [pc |-> "none", th |-> NoThread, own |-> 0, read |-> 0, fresh |-> TRUE,
         narrowed |-> FALSE, cloud |-> FALSE, stage |-> "loop",
         left |-> MaxIterations, calls |-> 0, acted |-> FALSE,
         looked |-> FALSE, followed |-> FALSE, lost |-> FALSE, prose |-> "short"]

QueenInit ==
    /\ talk = [th \in Thread |-> <<>>]
    /\ lock = [th \in Thread |-> <<>>]
    /\ turn = [t \in Turn |-> Idle]
    /\ asks = 0

Init == RouterInit /\ QueenInit

Op(m) == [role |-> "operator", by |-> 0, msg |-> m]
Answer(t) == [role |-> "queen", by |-> t, msg |-> ""]

OperatorAt(th) == {i \in DOMAIN talk[th] : talk[th][i].role = "operator"}

Msg(t) == talk[turn[t].th][turn[t].read].msg

Quiet == UNCHANGED routerVars
Become(t, r) == turn' = [turn EXCEPT ![t] = r]

-----------------------------------------------------------------------------
(* The message and the lock                                                 *)

(* send_queen_message: the message is in the thread, its fan-out goes on.   *)
Says(t, th, m) ==
    /\ turn[t].pc = "none" /\ \A u \in 1..(t - 1) : turn[u].pc # "none"
    /\ talk' = [talk EXCEPT ![th] = Append(@, Op(m))]
    /\ Become(t, [turn[t] EXCEPT !.pc = "said", !.th = th, !.own = Len(talk[th]) + 1])
    /\ Quiet /\ UNCHANGED <<lock, asks>>

(* The fan-out, or the renaming of the thread that a first message brings,  *)
(* has raised: the message is in the thread and respond is never called.    *)
NeverAsked(t) ==
    /\ turn[t].pc = "said"
    /\ Become(t, [turn[t] EXCEPT !.pc = "done", !.lost = TRUE])
    /\ Quiet /\ UNCHANGED <<talk, lock, asks>>

(* create_task(queen.respond(...)), up to the lock.                         *)
Queues(t) ==
    LET th == turn[t].th IN
    /\ turn[t].pc = "said"
    /\ lock' = [lock EXCEPT ![th] = Append(@, t)]
    /\ Become(t, [turn[t] EXCEPT !.pc = "queued"])
    /\ Quiet /\ UNCHANGED <<talk, asks>>

\* Mutated: the first message of the thread.
FirstOfThread(t) == CHOOSE i \in OperatorAt(turn[t].th) : \A j \in OperatorAt(turn[t].th) : i <= j
(* _last_op_msg: the last message of an operator in the thread, now.        *)
LastOfThread(t) == CHOOSE i \in OperatorAt(turn[t].th) : \A j \in OperatorAt(turn[t].th) : j <= i

(* _respond_inner up to its first await.  No confirmation is ever pending:  *)
(* an answer's meta drops "preview" and "tool" (2299-2302).                 *)
Begins(t) ==
    LET th == turn[t].th IN
    /\ turn[t].pc = "queued" /\ Head(lock[th]) = t
    /\ Become(t, [turn[t] EXCEPT !.pc = "setup", !.read = LastOfThread(t),
                     !.fresh = \A i \in DOMAIN talk[th] : talk[th][i].role # "queen"])
    /\ Quiet /\ UNCHANGED <<talk, lock, asks>>

(* _is_colony_turn                                                          *)
ColonyTurn(m) == m.work /\ ~m.question /\ ~m.deliberate

(* Planning signals and memory are in; the toolset and the model are chosen.*)
SetUp(t) ==
    /\ turn[t].pc = "setup"
    /\ \E cloud \in {FALSE, PlanningModel} :
          Become(t, [turn[t] EXCEPT !.pc = "model",
                        !.narrowed = ColonyTurn(Msg(t)) /\ turn[t].fresh,
                        !.cloud = cloud])
    /\ Quiet /\ UNCHANGED <<talk, lock, asks>>

(* Of what a turn kept nothing is left when it leaves.                      *)
Left(t, lost) == [Idle EXCEPT !.pc = "leaving", !.th = turn[t].th, !.own = turn[t].own,
                              !.read = turn[t].read, !.lost = lost]

(* What is before the try of the tool loop raises (the prompt, the budget,  *)
(* the choice of tools and model): respond ends with it, and no message.    *)
SetUpRaises(t) ==
    /\ turn[t].pc = "setup"
    /\ Become(t, Left(t, TRUE))
    /\ Quiet /\ UNCHANGED <<talk, lock, asks>>

-----------------------------------------------------------------------------
(* The tool loop.  After*(r) is the record of a turn that goes on from r    *)
(* without an await.                                                        *)

(* One more question for a turn that only looked.  The prose of an answer   *)
(* counts until the next answer.                                            *)
WantsFollowUp(r, m) == ~r.acted /\ ~r.followed /\ r.looked /\ m.work

AfterFollowUp(r, m) ==
    IF ~r.acted /\ PlanningModel /\ ~r.cloud /\ r.prose # "full" /\ m.long
    THEN [r EXCEPT !.pc = "model", !.stage = "cloud", !.cloud = TRUE]
    ELSE [r EXCEPT !.pc = "reply"]

AfterIntent(r, m) ==
    IF WantsFollowUp(r, m)
    THEN [r EXCEPT !.pc = "model", !.stage = "followup", !.followed = TRUE]
    ELSE AfterFollowUp(r, m)

AfterLoop(r, m) ==
    IF r.acted THEN AfterIntent(r, m) ELSE [r EXCEPT !.pc = "intent"]

\* Mutated: the iterations are not counted at the end of a round of tools.
LoopsOn(r, m) == [r EXCEPT !.left = @ - 1, !.pc = "model"]
NextIteration(r, m) ==
    LET s == [r EXCEPT !.left = @ - 1] IN
    IF s.left > 0 THEN [s EXCEPT !.pc = "model", !.prose = "short"] ELSE AfterLoop(s, m)

(* The end of the calls one answer asked for.                               *)
AfterTools(r, m) ==
    CASE r.stage = "loop"     -> NextIteration([r EXCEPT !.looked = TRUE], m)
      [] r.stage = "intent"   -> AfterIntent(r, m)
      [] r.stage = "followup" -> AfterFollowUp(r, m)
      [] r.stage = "cloud"    -> [r EXCEPT !.pc = "reply"]

(* A failure in the loop ends the turn, with an error message; those of the *)
(* follow-up and of the cloud call are swallowed.                           *)
AfterFailure(r, m) ==
    LET s == [r EXCEPT !.calls = 0] IN
    CASE s.stage = "loop"     -> [s EXCEPT !.pc = "failed"]
      [] s.stage = "followup" -> AfterFollowUp(s, m)
      [] s.stage = "cloud"    -> [s EXCEPT !.pc = "reply"]

ModelFails(t) ==
    /\ turn[t].pc = "model"
    /\ Become(t, AfterFailure(turn[t], Msg(t)))
    /\ Quiet /\ UNCHANGED <<talk, lock, asks>>

(* The length of the prose is told apart where the cloud call looks at it.  *)
Prose(r, m) == IF m.long /\ ~r.cloud /\ ~r.acted THEN {"short", "full"} ELSE {"short"}

ModelAnswers(t, n, prose) ==
    LET r == [turn[t] EXCEPT !.prose = prose]
        m == Msg(t)
        again == r.stage = "loop" /\ WantsFollowUp(r, m)
    IN
    /\ turn[t].pc = "model" /\ prose \in Prose(turn[t], m)
    /\ CASE n > 0 -> Become(t, [r EXCEPT !.pc = "tools", !.calls = n])
         [] n = 0 /\ again -> Become(t, NextIteration([r EXCEPT !.followed = TRUE], m))
         [] n = 0 /\ ~again ->
              Become(t, IF r.stage = "loop" THEN AfterLoop(r, m) ELSE AfterTools(r, m))
    /\ Quiet /\ UNCHANGED <<talk, lock, asks>>

(* The safety net: in the loop, a deliberative message gets a plan          *)
(* (propose_plan), not colonies.                                            *)
Planned(r, m, tool) ==
    IF r.stage = "loop" /\ m.deliberate /\ tool \in {"spawn", "preview"} THEN "act" ELSE tool

(* _sanitize_dispatch_tool_call: a preview is stripped where a dispatch is  *)
(* forced; the cloud call is not sanitized.                                 *)
Sanitized(r, tool) ==
    IF tool = "preview" /\ \/ r.stage = "followup"
                           \/ r.stage \in {"loop", "intent"} /\ r.narrowed /\ ~r.acted
    THEN "spawn" ELSE tool

(* The call that is run next may be one of tool: what the model asked for   *)
(* is chosen when it is run, and the parsed intent is a spawn, a preview or *)
(* a kill.                                                                  *)
NextCall(t, tool) ==
    /\ turn[t].pc = "tools"
    /\ \E asked \in IF turn[t].stage = "intent" THEN {"look", "spawn", "preview", "act"} ELSE Tool :
          tool = Sanitized(turn[t], Planned(turn[t], Msg(t), asked))

(* The first call left is over; s is the turn with what the call did.       *)
CallOver(t, s) ==
    LET r == [s EXCEPT !.calls = @ - 1]
    IN  Become(t, IF r.calls = 0 THEN AfterTools(r, Msg(t)) ELSE r)

Acting(t) == [turn[t] EXCEPT !.acted = TRUE, !.prose = "short"]

(* dispatch: a tool that raises comes to a text and no action.              *)
RunTool(t) ==
    /\ \E tool \in {"look", "preview", "act"} :
          NextCall(t, tool) /\ CallOver(t, IF tool = "look" THEN turn[t] ELSE Acting(t))
    /\ Quiet /\ UNCHANGED <<talk, lock, asks>>

Spawns(t) ==
    /\ NextCall(t, "spawn")
    /\ CallOver(t, Acting(t))
    /\ Quiet /\ UNCHANGED <<talk, lock, asks>>

SpawnRefused(t) ==
    /\ NextCall(t, "spawn")
    /\ CallOver(t, turn[t])
    /\ Quiet /\ UNCHANGED <<talk, lock, asks>>

(* parse_tool_input and the thread's tools run outside of dispatch's try.   *)
BrokenTool(t) ==
    /\ NextCall(t, "broken")
    /\ Become(t, AfterFailure(turn[t], Msg(t)))
    /\ Quiet /\ UNCHANGED <<talk, lock, asks>>

(* _handle_query_service: the turn awaits the router; what is raised comes  *)
(* to a text.                                                               *)
AsksService(t, s) ==
    /\ NextCall(t, "query")
    /\ IF Unserved(s)
       THEN CallOver(t, turn[t]) /\ Quiet
       ELSE Query(t, s) /\ Become(t, [turn[t] EXCEPT !.pc = "asking"])
    /\ UNCHANGED <<talk, lock, asks>>

ServiceAnswered(t) ==
    /\ turn[t].pc = "asking" /\ query[t].pc = "none"
    /\ CallOver(t, [turn[t] EXCEPT !.pc = "tools"])
    /\ Quiet /\ UNCHANGED <<talk, lock, asks>>

(* parse_queen_intent and intent_to_tool_call: nothing, or a call to run.   *)
Parses(t) ==
    /\ turn[t].pc = "intent"
    /\ \/ Become(t, AfterIntent(turn[t], Msg(t)))
       \/ Become(t, [turn[t] EXCEPT !.pc = "tools", !.stage = "intent", !.calls = 1])
    /\ Quiet /\ UNCHANGED <<talk, lock, asks>>

-----------------------------------------------------------------------------
(* The answer                                                               *)

(* _emit_queen_message                                                      *)
Replies(t) ==
    /\ turn[t].pc \in {"reply", "failed"}
    /\ talk' = [talk EXCEPT ![turn[t].th] = Append(@, Answer(t))]
    /\ Become(t, Left(t, FALSE))
    /\ Quiet /\ UNCHANGED <<lock, asks>>

(* Its append raises, which it swallows.                                    *)
ReplyLost(t) ==
    /\ turn[t].pc \in {"reply", "failed"}
    /\ Become(t, Left(t, TRUE))
    /\ Quiet /\ UNCHANGED <<talk, lock, asks>>

(* async with: the lock is released however respond ends.                   *)
\* Mutated: the lock is not released.
KeepsLock(t) ==
    /\ turn[t].pc = "leaving"
    /\ Become(t, [turn[t] EXCEPT !.pc = "done"])
    /\ Quiet /\ UNCHANGED <<talk, lock, asks>>
Leaves(t) ==
    LET th == turn[t].th IN
    /\ turn[t].pc = "leaving"
    /\ lock' = [lock EXCEPT ![th] = Tail(@)]
    /\ Become(t, [turn[t] EXCEPT !.pc = "done"])
    /\ Quiet /\ UNCHANGED <<talk, asks>>

-----------------------------------------------------------------------------
(* An agent of a colony queries a service; a kill cancels it where it is    *)
(* (runner.py, _handle_query_service).                                      *)
AgentAsks(a, s) ==
    /\ asks < MaxAsks /\ asks' = asks + 1
    /\ Query(a, s)
    /\ UNCHANGED <<talk, lock, turn>>

AgentCancelled(a) == Cancelled(a) /\ UNCHANGED queenVars

RouterSteps(c) == QueryStep(c) /\ UNCHANGED queenVars

TurnStep(t) ==
    \/ NeverAsked(t) \/ Queues(t) \/ Begins(t) \/ SetUp(t) \/ SetUpRaises(t)
    \/ ModelFails(t)
    \/ \E n \in 0..MaxCalls, prose \in {"short", "full"} : ModelAnswers(t, n, prose)
    \/ RunTool(t) \/ Spawns(t) \/ SpawnRefused(t) \/ BrokenTool(t)
    \/ \E s \in Stype : AsksService(t, s)
    \/ ServiceAnswered(t)
    \/ Parses(t)
    \/ Replies(t) \/ ReplyLost(t) \/ Leaves(t)

Next ==
    \/ \E t \in Turn, th \in Thread, m \in Message : Says(t, th, m)
    \/ \E t \in Turn : TurnStep(t)
    \/ \E c \in Caller : RouterSteps(c)
    \/ \E a \in Agent :
          \/ \E s \in Stype : AgentAsks(a, s)
          \/ AgentCancelled(a)
    \/ RouterEnv /\ UNCHANGED queenVars

(* The event loop runs what is ready: a turn's steps (a model call answers  *)
(* or times out) and those of a query it made (its timeout fires).          *)
Fairness == \A t \in Turn : WF_vars(TurnStep(t) \/ RouterSteps(t))

FairSpec == Init /\ [][Next]_vars /\ Fairness

-----------------------------------------------------------------------------

TypeOK ==
    /\ RouterTypeOK
    /\ \A th \in Thread : \A i \in DOMAIN talk[th] :
          talk[th][i].role \in {"operator", "queen"}
    /\ \A th \in Thread : lock[th] \in Seq(Turn)
    /\ turn \in [Turn -> TurnState]
    /\ asks \in 0..MaxAsks

Answers(t) == {i \in DOMAIN talk[turn[t].th] : /\ talk[turn[t].th][i].role = "queen"
                                               /\ talk[turn[t].th][i].by = t}

\* No message is overlooked by the turn it started.  A turn that is over has
\* answered once, after the message it was started for, having read that
\* message or a later one; only one whose asking, set-up or emission raised has
\* not, and it has not spoken at all.  ("This method ALWAYS emits a
\* QueenMessage", queen_runtime.py:1326, is the claim those three break.)  The
\* turns of a thread do not overlap, and a turn that is over, answered or not,
\* holds up none of them.
AnswerCovers ==
    \A t \in {u \in Turn : turn[u].pc # "none"} :
        LET over == turn[t].pc \in {"leaving", "done"} IN
        /\ over /\ ~turn[t].lost =>
              /\ Cardinality(Answers(t)) = 1
              /\ turn[t].read >= turn[t].own
              /\ \A i \in Answers(t) : i > turn[t].read
        /\ ~over \/ turn[t].lost => Answers(t) = {}
        /\ turn[t].pc \notin {"said", "queued", "done"} =>
              Head(lock[turn[t].th]) = t
        /\ turn[t].pc = "done" =>
              \A i \in DOMAIN lock[turn[t].th] : lock[turn[t].th][i] # t

\* Every turn ends, though models fail and services never answer: the timeouts
\* of the queries free it and with it the lock.  Unless one of the three faults
\* took its answer, the operator has it then.
Answered ==
    \A t \in Turn : (turn[t].pc = "said") ~>
        (turn[t].pc = "done" /\ (turn[t].lost \/ Answers(t) # {}))
=============================================================================
