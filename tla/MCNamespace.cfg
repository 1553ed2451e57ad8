SPECIFICATION Spec
CONSTANTS
    None = None
    Torrents = {1, 2, 3}
    Name <- Names
    Suffixed <- SuffixedNames
    Single <- SingleFiles
    Sidecars <- SidecarNames
    Default <- DefaultNames
    CategoryNames = {"a.srt"}
    MaxFaults = 0
    MaxCrashes = 0
INVARIANT RestartAccepts
CHECK_DEADLOCK FALSE
