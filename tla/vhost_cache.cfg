SPECIFICATION Spec
CONSTANTS
    a = a  b = b  c = c  d = d  e = e  u = u
    ip1 = ip1  ip2 = ip2  v1 = v1  v2 = v2  v3 = v3  main = main
    Checks = {a, b, c, d, e}
    Unblockers = {u}
    IPs = {ip1, ip2}
    ipOf <- MCIpOf
    SqlLevel <- MCSqlLevel
    CodeLevel <- MCCodeLevel
    Excluded = {e}
    MaxRps = 3
    RateFloor = 2
    SqliThreshold = 1
    ScanMin = 2
    Window = 1
    ScanBlock = 1
    SqliBlock = 2
    MaxProfiles = 1
    MaxTime = 3
    Main = main
    VHosts = {v1, v2, v3}
    MissingRoots = {v3}
    Scripts <- MCScripts
    Statics <- MCStatics
    FrontController = {}
    Layout <- MCLayout
    ExecutionMode = "framework"
    Entry = "index.php"
    DirIndex <- MCDirIndex
    Whitelist <- MCWhitelist
    DataDirs = {"data.php"}
    Traversal = {"../x.php"}
    SystemPaths = {"c:/x.php"}
    Unreadable = {"secret.php"}
    ScanContent = TRUE
    TokenSet = TRUE
    DashboardEnabled = TRUE
    StatisticsEnabled = TRUE
    QueueCapacity = 1
    MaxFiles = 3
    Traffic <- Hosts
INVARIANT OwnHostAnswer
CHECK_DEADLOCK FALSE
