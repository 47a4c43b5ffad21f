\* One request whose only cloud provider fails, with the keys of app.py.
CONSTANTS
    Request = {r1, r2}
    gemini = gemini
    llama = llama
    anthropic = anthropic
    pro = pro
    flash = flash
    qwen = qwen
    sonnet = sonnet
    Provider = {gemini, llama, anthropic}
    Model = {pro, flash, qwen, sonnet}
    NoModel = NoModel
    ProviderOf <- MCProviderOf
    Local = {llama}
    Chain <- MCChain
    Cheapest = qwen
    Defaults = {pro, qwen}
    Table = {sonnet}
    Threshold = 2
    Window = 1
    CooldownTime = 2
    MaxRetries = 2
    MaxAsks = 2
    MaxTime = 4
    Cycle = {s1, s2}
    p1 = p1
    p2 = p2
    c1 = c1
    c2 = c2
    Page = {p1, p2}
    Chunk = {c1, c2}
    NoPage = NoPage
    NoChunk = NoChunk
    ChunksOf <- MCChunksOf
    MaxForages = 3
    MaxLapses = 1
    MaxLives = 2
    Emitter = {e1, e2}
    Stream = {w1, w2}
    Cap = 1
    MaxIdle = 2
    MaxEvents = 2
    Budget = 1
    MaxActive = 1
    Costs <- MCCosts
    ContinueCost = 1
    Compact = 1
    Keep = 1
    MaxFailures = 1
    MaxActions = 1
    MaxColonies = 3
    MaxDays = 2
    MaxCrashes = 1
SPECIFICATION OutboundSpec
SYMMETRY Symmetry
CHECK_DEADLOCK FALSE
INVARIANTS RoutesLocal
