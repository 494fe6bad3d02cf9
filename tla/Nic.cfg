SPECIFICATION FairSpec
CONSTANTS
    MaxFrames = 2
    MaxTicks = 2
    MinFrame = 3
    MaxFrame = 5
    Gap = 3
INVARIANTS
    TicksTaken
    
PROPERTIES
    FrameTaken
