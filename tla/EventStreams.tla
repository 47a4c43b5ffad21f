---------------------------- MODULE EventStreams -----------------------------
(***************************************************************************)
(* The event streams of one colony: surface/ws_handler.py (the colony's     *)
(* queues, fan_out_event), the generators of surface/agui_endpoint.py and   *)
(* surface/routes/a2a.py, and emit_and_broadcast of surface/runtime.py.     *)
(*                                                                          *)
(* An emission appends a row, applies it to the projection, sends it to the *)
(* workspace's sockets and then puts it into every queue of the colony, in  *)
(* one step.  A stream takes rows from its queue and awaits its client at   *)
(* each frame.  Who kills, serves or runs the colony is ColonyLifecycle's   *)
(* matter: here any emitter emits what the colony's state allows.           *)
(***************************************************************************)
EXTENDS Subsequences, FiniteSets

CONSTANTS Emitter,    \* tasks that emit events of the colony
          Stream,     \* requests for its events
          Cap,        \* maxsize of a queue
          MaxIdle,    \* _MAX_IDLE
          MaxEvents   \* bound: rows appended in a behaviour

ASSUME StreamsAssumption ==
    /\ Cap \in Nat \ {0} /\ MaxIdle \in Nat \ {0} /\ MaxEvents \in Nat

VARIABLES
    events,   \* the colony's rows in the log, by what they do to its status
    standing, \* ColonyProjection.status
    emission, \* per emitter: where it is in emit_and_broadcast, with which row
    queues,   \* streams whose queue is in _colony_subscribers
    phase,    \* per stream: where it is
    via,      \* the endpoint it came in by
    queue,    \* its queue: numbers of rows
    idle,     \* its idle_count
    told,     \* the status of its RUN_FINISHED
    applied,  \* history: rows the projection applied
    fanned,   \* history: rows put into the queues, in that order
    raised,   \* history: applied rows that never were
    held,     \* history: what the status has been
    tail      \* history per stream: rows fanned out and rows applied before it
              \* subscribed, rows it took, rows its full queue refused

colonyVars == <<events, standing, emission, applied, fanned, raised, held>>
streamVars == <<queues, phase, via, queue, idle, told, tail>>
streamsVars == <<colonyVars, streamVars>>

Verdicts == {"completed", "failed"}
TerminalEvents == Verdicts \cup {"killed"}
EventKind == TerminalEvents \cup {"service", "work"}

Quiescent == [at |-> "none", row |-> 0]
NewTail == [since |-> 0, knew |-> {}, shown |-> <<>>, lost |-> {}]

StreamsInit ==
    /\ events = <<>> /\ standing = "running"
    /\ emission = [e \in Emitter |-> Quiescent]
    /\ queues = {}
    /\ phase = [s \in Stream |-> "unused"]
    /\ via = [s \in Stream |-> "none"]
    /\ queue = [s \in Stream |-> <<>>]
    /\ idle = [s \in Stream |-> 0]
    /\ told = [s \in Stream |-> "nothing"]
    /\ applied = {} /\ fanned = <<>> /\ raised = {} /\ held = {"running"}
    /\ tail = [s \in Stream |-> NewTail]

-----------------------------------------------------------------------------
(* Emissions.                                                               *)

(* The round loop gives one verdict, whatever became of the colony; a       *)
(* completed colony can be activated as a service, which writes the status  *)
(* before it emits; anybody may kill it, and events of its work or its      *)
(* chat come at any time.                                                   *)
MayEmit(kind) ==
    /\ kind \in Verdicts => \A i \in DOMAIN events : events[i] \notin Verdicts
    /\ kind = "service" => standing = "completed"

StatusWritten(kind, old) == IF kind = "service" THEN "service" ELSE old

EmitEvent(e, kind) ==
    /\ emission[e] = Quiescent
    /\ Len(events) < MaxEvents
    /\ MayEmit(kind)
    /\ events' = Append(events, kind)
    /\ emission' = [emission EXCEPT ![e] =
                      [at |-> "append", row |-> Len(events) + 1]]
    /\ standing' = StatusWritten(kind, standing)
    /\ held' = held \cup {standing'}
    /\ UNCHANGED <<applied, fanned, raised, streamVars>>

StatusApplied(kind, old) == IF kind = "work" THEN old ELSE kind

(* append returns, in the order of the calls: the row is applied, and the   *)
(* emission awaits the sockets of the workspace.                            *)
ApplyEvent(e) ==
    LET row == emission[e].row IN
    /\ emission[e].at = "append"
    /\ \A f \in Emitter : emission[f].at = "append" => row <= emission[f].row
    /\ emission' = [emission EXCEPT ![e].at = "fanout"]
    /\ standing' = StatusApplied(events[row], standing)
    /\ held' = held \cup {standing'}
    /\ applied' = applied \cup {row}
    /\ UNCHANGED <<events, fanned, raised, streamVars>>

Full(s) == Len(queue[s]) >= Cap

(* put_nowait into each queue of the colony; QueueFull is logged.           *)
FanOutEvent(e) ==
    LET row == emission[e].row IN
    /\ emission[e].at = "fanout"
    /\ emission' = [emission EXCEPT ![e] = Quiescent]
    /\ fanned' = Append(fanned, row)
    /\ queue' = [s \in Stream |-> IF s \in queues /\ ~Full(s)
                                  THEN Append(queue[s], row) ELSE queue[s]]
    /\ tail' = [s \in Stream |-> IF s \in queues /\ Full(s)
                                 THEN [tail[s] EXCEPT !.lost = @ \cup {row}]
                                 ELSE tail[s]]
    /\ UNCHANGED <<events, standing, applied, raised, held,
                   queues, phase, via, idle, told>>

(* The emitter is cancelled in one of its awaits, or the set of sockets     *)
(* changed while fan_out_event iterated over it: the queues get nothing.    *)
EmissionBreaks(e) ==
    /\ emission[e].at # "none"
    /\ emission' = [emission EXCEPT ![e] = Quiescent]
    /\ raised' = raised \cup (applied \cap {emission[e].row})
    /\ UNCHANGED <<events, standing, applied, fanned, held, streamVars>>

-----------------------------------------------------------------------------
(* Requests.                                                                *)

Running == standing = "running"

(* subscribe_colony does not suspend: whatever decides on the subscription  *)
(* still holds when the queue is there.                                     *)
SubscribeColony(s) ==
    /\ queues' = queues \cup {s}
    /\ tail' = [tail EXCEPT ![s] = [since |-> Len(fanned), knew |-> applied,
                                    shown |-> <<>>, lost |-> {}]]

(* handle_agui_run subscribes to the colony it just spawned, before the     *)
(* task of its rounds had its first step, and does not look at its status.  *)
HandleAguiRun(s) ==
    /\ phase[s] = "unused"
    /\ \A t \in Stream : via[t] # "agui"
    /\ \A i \in DOMAIN events : events[i] \notin Verdicts
    /\ SubscribeColony(s)
    /\ phase' = [phase EXCEPT ![s] = "attached"]
    /\ via' = [via EXCEPT ![s] = "agui"]
    /\ UNCHANGED <<colonyVars, queue, idle, told>>

(* attach_task_events: a colony that has settled gets no subscription.      *)
AttachTaskEvents(s) ==
    /\ phase[s] = "unused"
    /\ via' = [via EXCEPT ![s] = "a2a"]
    /\ \/ /\ Running
          /\ SubscribeColony(s)
          /\ phase' = [phase EXCEPT ![s] = "attached"]
       \/ /\ ~Running
          /\ phase' = [phase EXCEPT ![s] = "settled"]
          /\ UNCHANGED <<queues, tail>>
    /\ UNCHANGED <<colonyVars, queue, idle, told>>

(* _terminal_event_for_colony knows no services; AG-UI tells the status.    *)
Reported(s) ==
    IF via[s] = "a2a" /\ standing = "service" THEN "completed" ELSE standing

(* terminal_generator, which reads the projection as it is by then.         *)
TerminalGenerator(s) ==
    /\ phase[s] = "settled"
    /\ told' = [told EXCEPT ![s] = Reported(s)]
    /\ phase' = [phase EXCEPT ![s] = "over"]
    /\ UNCHANGED <<colonyVars, queues, via, queue, idle, tail>>

-----------------------------------------------------------------------------
(* The generators of live streams.                                          *)

(* The response started: RUN_STARTED, and the A2A stream's snapshot.        *)
Begin(s) ==
    /\ phase[s] = "attached"
    /\ phase' = [phase EXCEPT ![s] = "sending"]
    /\ UNCHANGED <<colonyVars, queues, via, queue, idle, told, tail>>

(* queue.get() returned: the row's frames; a terminal event's are the last. *)
Receive(s) ==
    LET row == Head(queue[s])
        terminal == events[row] \in TerminalEvents IN
    /\ queue[s] # <<>>
    /\ queue' = [queue EXCEPT ![s] = Tail(@)]
    /\ tail' = [tail EXCEPT ![s].shown = Append(@, row)]
    /\ idle' = [idle EXCEPT ![s] = 0]
    /\ told' = [told EXCEPT ![s] = IF terminal THEN events[row] ELSE @]
    /\ phase' = [phase EXCEPT ![s] = IF terminal THEN "ending" ELSE "sending"]
    /\ UNCHANGED <<colonyVars, queues, via>>

(* The client took the frame; a queue that is not empty is not awaited.     *)
FrameSent(s) ==
    /\ phase[s] = "sending"
    /\ \/ Receive(s)
       \/ /\ queue[s] = <<>>
          /\ phase' = [phase EXCEPT ![s] = "waiting"]
          /\ UNCHANGED <<colonyVars, queues, via, queue, idle, told, tail>>

QueueGet(s) == phase[s] = "waiting" /\ Receive(s)

(* Mutated: a timeout ends the run, as it did before Wave 52.               *)
TimeoutUnchecked(s) ==
    /\ phase[s] = "waiting"
    /\ idle' = [idle EXCEPT ![s] = @ + 1]
    /\ told' = [told EXCEPT ![s] = Reported(s)]
    /\ phase' = [phase EXCEPT ![s] = "ending"]
    /\ UNCHANGED <<colonyVars, queues, via, queue, tail>>

(* wait_for timed out, though a row may have come in the meantime: the      *)
(* status, or else an idle disconnect or a keepalive.                       *)
Timeout(s) ==
    /\ phase[s] = "waiting"
    /\ idle' = [idle EXCEPT ![s] = @ + 1]
    /\ \/ /\ ~Running
          /\ told' = [told EXCEPT ![s] = Reported(s)]
          /\ phase' = [phase EXCEPT ![s] = "ending"]
       \/ /\ Running
          /\ phase' = [phase EXCEPT ![s] = IF idle'[s] >= MaxIdle THEN "ending"
                                     ELSE "sending"]
          /\ UNCHANGED told
    /\ UNCHANGED <<colonyVars, queues, via, queue, tail>>

(* Mutated: the legacy form, without a queue.                               *)
UnsubscribeAll(s) == queues' = {}

UnsubscribeColony(s) == queues' = queues \ {s}

(* The last frame was sent, or the client left, at an await of the          *)
(* generator: its finally clause runs, and its locals go.                   *)
StreamEnds(s) ==
    /\ phase[s] \in {"sending", "waiting", "ending"}
    /\ phase' = [phase EXCEPT ![s] = "over"]
    /\ UnsubscribeColony(s)
    /\ queue' = [queue EXCEPT ![s] = <<>>]
    /\ idle' = [idle EXCEPT ![s] = 0]
    /\ tail' = [tail EXCEPT ![s] = NewTail]
    /\ UNCHANGED <<colonyVars, via, told>>

(* The client left before the response started: a generator that never ran  *)
(* has no finally, and its queue stays.                                     *)
LeavesEarly(s) ==
    /\ phase[s] \in {"attached", "settled"}
    /\ phase' = [phase EXCEPT ![s] = IF @ = "attached" THEN "forgotten" ELSE "over"]
    /\ UNCHANGED <<colonyVars, queues, via, queue, idle, told, tail>>

StreamsNext ==
    \/ \E e \in Emitter, kind \in EventKind : EmitEvent(e, kind)
    \/ \E e \in Emitter : ApplyEvent(e) \/ FanOutEvent(e) \/ EmissionBreaks(e)
    \/ \E s \in Stream :
          \/ HandleAguiRun(s) \/ AttachTaskEvents(s) \/ TerminalGenerator(s)
          \/ Begin(s) \/ FrameSent(s) \/ QueueGet(s) \/ Timeout(s)
          \/ StreamEnds(s) \/ LeavesEarly(s)

StreamsSpec == StreamsInit /\ [][StreamsNext]_streamsVars

-----------------------------------------------------------------------------
(* Properties.                                                              *)

EventRow == 1..Len(events)
Live == {"attached", "sending", "waiting", "ending"}
FanningOut == {emission[e].row : e \in {f \in Emitter : emission[f].at = "fanout"}}

Taken(s) == {tail[s].shown[i] : i \in DOMAIN tail[s].shown}
Waits(s) == {queue[s][i] : i \in DOMAIN queue[s]}
PutSince(s) == SubSeq(fanned, tail[s].since + 1, Len(fanned))

(* Every variable has its type; no queue exceeds its maxsize and no stream  *)
(* idles for longer than _MAX_IDLE timeouts (ws_handler.py, agui_endpoint). *)
StreamsTypeOK ==
    /\ events \in Seq(EventKind) /\ Len(events) <= MaxEvents
    /\ standing \in {"running", "service"} \cup TerminalEvents
    /\ emission \in [Emitter -> [at : {"none", "append", "fanout"},
                                 row : 0..Len(events)]]
    /\ queues \subseteq Stream
    /\ phase \in [Stream -> Live \cup {"unused", "settled", "over", "forgotten"}]
    /\ via \in [Stream -> {"none", "agui", "a2a"}]
    /\ queue \in [Stream -> Seq(EventRow)]
    /\ \A s \in Stream : Len(queue[s]) <= Cap
    /\ idle \in [Stream -> 0..MaxIdle]
    /\ told \in [Stream -> {"nothing", "service"} \cup TerminalEvents]
    /\ applied \subseteq EventRow /\ raised \subseteq EventRow
    /\ fanned \in Seq(EventRow)
    /\ held \subseteq {"running", "service"} \cup TerminalEvents
    /\ tail \in [Stream -> [since : 0..Len(fanned), knew : SUBSET EventRow,
                            shown : Seq(EventRow), lost : SUBSET EventRow]]

(* A live stream is the colony's fan-out since it subscribed: what it took  *)
(* and what waits in its queue are the rows put since, in their order,      *)
(* short of those its full queue refused, each of which came more than Cap  *)
(* rows after the subscription; and no row applied since is missing but     *)
(* those on their way and those whose fan-out broke (ws_handler.py).        *)
StreamIsTail ==
    \A s \in Stream : phase[s] \in Live =>
        /\ tail[s].shown \o queue[s] = Kept(PutSince(s), Nat \ tail[s].lost)
        /\ \A i \in DOMAIN fanned :
              fanned[i] \in tail[s].lost => i > tail[s].since + Cap
        /\ applied \ tail[s].knew \subseteq
              Taken(s) \cup Waits(s) \cup tail[s].lost \cup raised \cup FanningOut

(* A client that is told its run finished is told a status that the colony  *)
(* had, and the colony has not been running since, whatever was raised,     *)
(* refused or overtaken by a timeout (agui_endpoint.py, a2a.py).            *)
ToldAsHeld ==
    \A s \in Stream : told[s] # "nothing" => told[s] \in held /\ ~Running

(* No queue outlives its stream but those of clients that left before the   *)
(* generator had its first step (the generators' finally clauses).          *)
QueuesReleased ==
    \A s \in Stream : s \in queues <=> phase[s] \in Live \cup {"forgotten"}
=============================================================================
