\* The smoke test, or two front ends in turn; three chunks of sound.
SPECIFICATION SmokeSpec
CONSTANTS
    Sizes <- TurnedSizes
    Portrait <- Upright
    DrainLimit = 2
    MaxFrontEnds = 2
    MaxChunks = 3
    NoSize = NoSize
    Repeat = Repeat
    Nobody = Nobody
INVARIANTS
    TypeOK
    DrawnAsAnnounced
    PicturePerRun
    NoSoundLost
PROPERTIES
    SoundOnce
    PassMeansPictures
