SPECIFICATION FairSpec
CONSTANTS
    Nodes = {1, 2, 3}
    Stoppers = {3}
    OneRound = {3}
    Writers = {2}
    Watchers = {1}
    InitPeer <- Chain
    MaxVersion = 4
    Budgets <- OneTrouble
INVARIANTS DownNeedsTwoFailures
PROPERTIES CrashIsNoticed NewsSpreads
CHECK_DEADLOCK FALSE
