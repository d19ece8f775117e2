SPECIFICATION AccSpec
CONSTANTS
    RouteAgents = {"g"}
    Accounts = {a1}
    Peers = {p1}
    Unset = Unset
    MaxRoutes = 0
    MaxRules = 2
    MaxBinds = 0
INVARIANT GroupsDoNotInherit
CHECK_DEADLOCK FALSE
