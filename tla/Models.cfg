SPECIFICATION GSpec
CONSTANTS
    a = a
    b = b
    red = red
    blue = blue
    green = green
    sea = sea
    city = city
    None = None
    Job = {1, 2}
    Size = 2
    Manifest <- Both
    Ids = {1, 2, 3}
    Pictures = {red, blue, green}
    People = {1, 2}
    Fits = {a}
    Alike <- Likenesses
    Limits = {1, 2}
    Factor = 1
    Slack = 1
    Pool = 2
    MinScore = 3
    SimilarMost = 2
    SimilarFloor = 3
    Cats = {1, 2}
    Labels = {1, 2, 3}
    Prompts = {sea, city}
    Tags = {sea, city}
    Affinity <- Affinities
    TagScore <- Scores1
    Weight <- Weights
    MinConfidence = 50
    MultiMinConfidence = 20
    Filters <- SomeFilters
    SourceOf <- Sources
    DateOf <- Dates
    SizeOf <- Sizes
    PageSize = 2
    SearchMost = 2
    Worlds <- SomeWorlds
CHECK_DEADLOCK FALSE
INVARIANTS ModelsUsable SearchTrue LabelsTrue ScrollsThrough
PROPERTIES EmbedderStays PendingEnds
