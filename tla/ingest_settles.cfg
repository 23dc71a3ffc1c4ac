\* Liveness: one request at a time next to the transcoder, every fault.
SPECIFICATION FairSpec
CONSTANTS
    Handler = {h1}
    Video = {v1, v2}
    None = none
    MaxJobs = 1
    Allowed = {"crash", "deaf"}

VIEW WithoutHistory

PROPERTY UploadSettles
