SPECIFICATION ImagesSpec
CONSTANTS
    Contexts = {"piper", "chatterbox"}
    Target <- MCTarget
    Hard <- MCHard
    Window = 6
    InspectMax = 12
    Books <- MCBooks
    BatchMax = 2
    i1 = i1
    i2 = i2
    i3 = i3
    Images <- MCImages
    ImagesOf <- MCImagesOf
    MaxSources = 2
    None = None
INVARIANTS ImagesTypeOK NarrationIsTheText SourcesAreOwned
PROPERTIES PublicationCloses ImagesSettle
CHECK_DEADLOCK FALSE
