SPECIFICATION SpecB
CONSTANTS
    beach = beach
    wedding = wedding
    collage = collage
    f1 = f1
    f2 = f2
    f3 = f3
    Photo = {beach, wedding, collage}
    Edits = {collage}
    Face = {f1, f2, f3}
    PhotoOf <- OnPhoto
    Best <- BestFaces
    Name = {"anna", "ben"}
    NoName = NoName
    Upload = {"img"}
    Nowhere = Nowhere
    Idle = Idle
    Worlds <- SomeWorlds
    MaxPerson = 4
    MaxOps = 2
    MaxPending = 1
    MaxCrashes = 1
    MaxScans = 1
    Calls <- TwoCalls
    Keepers <- Keep
    Batches <- Uploads
    Detected <- Detection
    CropWorlds <- SomeCrops
PROPERTIES
    StaysInOrder
    PhotosKept
    RepairsConverge
    CropsOwned
CHECK_DEADLOCK FALSE
