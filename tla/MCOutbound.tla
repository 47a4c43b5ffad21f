----------------------------- MODULE MCOutbound ------------------------------
(* Model checking of Outbound.  The router has the default chain of three   *)
(* providers, one of them local, and a model outside the chain; the forager *)
(* finds two pages that share a chunk; two streams of one colony have       *)
(* queues of one row; an insight suggests a colony on paid models, while    *)
(* approved actions run uncharged whatever they cost.                       *)
EXTENDS Outbound, TLC

CONSTANTS gemini, llama, anthropic, pro, flash, qwen, sonnet, p1, p2, c1, c2

MCProviderOf == (pro :> gemini) @@ (flash :> gemini) @@ (qwen :> llama)
                @@ (sonnet :> anthropic)
MCChain == <<flash, qwen, sonnet>>
MCChunksOf == (p1 :> {c1, c2}) @@ (p2 :> {c2})
MCCosts == {1}

Symmetry == Permutations(Request) \cup Permutations(Cycle)
            \cup Permutations(Emitter) \cup Permutations(Stream)
=============================================================================
