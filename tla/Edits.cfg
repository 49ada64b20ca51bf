SPECIFICATION Spec
CONSTANTS
    beach = beach
    pier = pier
    k1 = k1
    k2 = k2
    Asset = {beach, pier}
    Inst = {1, 2, 3}
    AssetOf <- OnAsset
    Face = {1}
    PhotoOf <- OnFace
    Spot <- Pixels
    Key = {k1, k2}
    Ops = {"ccw", "png"}
    BulkOps = {"cw", "png"}
    Uploaded <- Other
    Workflow <- Flows
    Runs <- SomeRuns
    AllSettings <- Others
    Nothing = Nothing
    Worlds <- SomeWorlds
    MaxRequests = 2
    MaxBusy = 2
    MaxFailures = 1
PROPERTIES
    PhotosInFrame
    VersionsKept
    SaveIsShown
    CropsApart
    ThumbsFollow
    ResultsLand
CHECK_DEADLOCK FALSE
