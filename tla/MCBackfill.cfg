SPECIFICATION FairBackfill
CONSTANTS
    Null = Null
    night = night
    hand = hand
    Jobs = {night, hand}
    Nightly = night
    Tables <- MCTables
    Texts <- MCTexts
    Late <- MCLate
    Cap = 3
    BatchSize = 2
    MaxFailures = 1
INVARIANT OwnVector
PROPERTY PaidTwiceOnlyByOverlap EmbeddedInTheEnd LosesOneChunk
