\* Two requests at a time, three in all; the cooldown's parameters scaled down.
\* Two forages at a time, three in all; one emission fails; one restart.
\* Two rows of a colony, two streams, each with room for one of them.
\* One action of the ledger, three colonies, two days, a crash.
CONSTANTS
    Request = {r1, r2}
    gemini = gemini
    llama = llama
    anthropic = anthropic
    pro = pro
    flash = flash
    qwen = qwen
    sonnet = sonnet
    Provider = {gemini, llama, anthropic}
    Model = {pro, flash, qwen, sonnet}
    NoModel = NoModel
    ProviderOf <- MCProviderOf
    Local = {llama}
    Chain <- MCChain
    Cheapest = qwen
    Defaults = {pro, qwen}
    Table = {sonnet}
    Threshold = 2
    Window = 1
    CooldownTime = 2
    MaxRetries = 2
    MaxAsks = 3
    MaxTime = 4
    Cycle = {s1, s2}
    p1 = p1
    p2 = p2
    c1 = c1
    c2 = c2
    Page = {p1, p2}
    Chunk = {c1, c2}
    NoPage = NoPage
    NoChunk = NoChunk
    ChunksOf <- MCChunksOf
    MaxForages = 3
    MaxLapses = 1
    MaxLives = 2
    Emitter = {e1, e2}
    Stream = {w1, w2}
    Cap = 1
    MaxIdle = 2
    MaxEvents = 2
    Budget = 1
    MaxActive = 1
    Costs <- MCCosts
    ContinueCost = 1
    Compact = 1
    Keep = 1
    MaxFailures = 1
    MaxActions = 1
    MaxColonies = 3
    MaxDays = 2
    MaxCrashes = 1
SPECIFICATION OutboundSpec
SYMMETRY Symmetry
CHECK_DEADLOCK FALSE
INVARIANTS Types LocalBeforeGivingUp CreatedPerLife ForagesAccounted
           StreamIsTail ToldAsHeld DailyCap RunsAsApproved
PROPERTIES ColdAfterBurst CooledIsSkipped
