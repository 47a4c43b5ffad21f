------------------------------ MODULE Outbound -------------------------------
(***************************************************************************)
(* What the process sends out: completions to providers (LLMRouter),        *)
(* forages to the web (Forager), a colony's events to clients               *)
(* (EventStreams) and the money its sweeps spend unasked (Autonomy).  They  *)
(* share nothing but the process, so a behaviour is one of the router, of   *)
(* the forager, of the streams or of the sweeps.                            *)
(***************************************************************************)
EXTENDS LLMRouter, Forager, EventStreams, Autonomy

VARIABLE part

outboundVars == <<vars, foragerVars, streamsVars, autonomyVars, part>>

OutboundInit ==
    /\ Init /\ ForagerInit /\ StreamsInit /\ AutonomyInit
    /\ part \in {"router", "forager", "streams", "sweeps"}
    /\ part # "router" => adapters = {} /\ ~keyed

OutboundNext ==
    \/ /\ part = "router" /\ Next
       /\ UNCHANGED <<foragerVars, streamsVars, autonomyVars, part>>
    \/ /\ part = "forager" /\ ForagerNext
       /\ UNCHANGED <<vars, streamsVars, autonomyVars, part>>
    \/ /\ part = "streams" /\ StreamsNext
       /\ UNCHANGED <<vars, foragerVars, autonomyVars, part>>
    \/ /\ part = "sweeps" /\ AutonomyNext
       /\ UNCHANGED <<vars, foragerVars, streamsVars, part>>

OutboundSpec == OutboundInit /\ [][OutboundNext]_outboundVars

(* The types of the four parts: the retry cap of a request (runtime.py),    *)
(* the fields of a forage (forager.py), the bounds of a stream's queue and  *)
(* of its idling (ws_handler.py), the ledger's actions (action_queue.py).   *)
Types == TypeOK /\ ForagerTypeOK /\ StreamsTypeOK /\ AutonomyTypeOK
=============================================================================
