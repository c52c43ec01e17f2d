SPECIFICATION FilesSpec
CONSTANTS
    FrameSize = 2
    PcmSizes = {0, 1, 2, 3, 4, 5, 6}
    MaxJobs = 4
    MaxKills = 2
INVARIANTS
    DecodedIsPrefix
PROPERTIES
    RoundTrip
\* Nobody has to ask for a job.
CHECK_DEADLOCK FALSE
