CONSTANTS
    main = main
    worker = worker
    Pids = {1, 2, 3, 4}
    Shell = 2
    Main = main
    Threads = {main, worker}
    Images = {"shell", "tool"}
    Scenes <- MCScenes
    MaxChanges = 3
    None = None
    Ids = {"a", "b"}
    Joined <- MCJoined
    Lines <- MCLines
    MaxWords = 4
    Nothing = Nothing
SPECIFICATION PanesSpec
CHECK_DEADLOCK FALSE
INVARIANTS
    PanesTypeOK
    SavedFromTheLeader
    LeaderSpeaksForGroup
    IdleHasNoJobs
    ResumeIdExact
    ReplaysTheSession
    AgentsHaveSessions
