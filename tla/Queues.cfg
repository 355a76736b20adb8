CONSTANTS
    Nothing = Nothing
    MaxTries = 2
    MaxStops = 1
    Extractors = {1, 2}
    Sources = {1, 2}
    SlowSources = {1}
    Announced = {1}
    Listeners = {1}
    VoiceJobs = {1, 2}
    Transcripts = {1, 2}
    FewTranscripts = {1}
    EdgeMessages = {1, 2}
    EdgeVoices = {1}
    Instances = {1, 2}
    MaxFaults = 1
    MaxRefusals = 2
    LastStage = 3
    ScanStages = {2}
    MaxFailed = 3
SPECIFICATION QueuesFairSpec
INVARIANTS QueueTypes RowsAgree
PROPERTIES DoneIsDone EverythingSettles
CHECK_DEADLOCK FALSE
