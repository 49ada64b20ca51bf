SPECIFICATION SpecBoth
CONSTANTS
    rec = rec
    age = age
    embed = embed
    decoder = decoder
    t1 = t1
    t2 = t2
    t3 = t3
    Threads = {t1, t2, t3}
    Singles = {rec, age}
    Pooled = {embed, decoder}
    Sessions = {1, 2, 3, 4, 5}
    None = None
    Rank <- AdapterOrder
    Uses <- CaptionsAndFaces
    PoolSizes <- OneWorker
    MaxUses = 1
    MaxFailures = 1
    gemma = gemma
    gguf = gguf
    qwen = qwen
    joy = joy
    Callers = {"job", "caption1", "caption2"}
    ProcessOf <- Where
    Heavy = {gemma, gguf, qwen, joy}
    EngineOf <- Runtimes
    MayAsk <- Asks
    Nothing = Nothing
    MaxAsks = 4
CHECK_DEADLOCK FALSE
INVARIANT OneHeavyModel
