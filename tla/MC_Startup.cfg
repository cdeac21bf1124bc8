CONSTANTS
    Hosts = {"h1", "h2"}
    Files <- MCFiles
    DefaultPort = 1
    Patience = 1
    MaxRuns = 2
    OtherPorts = {2}
SPECIFICATION FairSpec
CHECK_DEADLOCK FALSE
INVARIANTS NoStray
PROPERTIES PortsComeBack StartupEnds
