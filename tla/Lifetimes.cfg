\* Clients, connections, resources and processes: opened and closed.
SPECIFICATION Spec
CONSTANTS
    Callers = {"c1", "c2"}
    Shutdowners = {"c2"}
    MaxAttempts = 3
    OwnerWaits = TRUE
    Pushes = {1}
    Pops = {3, 4}
    Registers = {5}
    MaxPolls = 1
    CloseEarly = FALSE
    MqPushes = {"p1"}
    MqPops = {"g1", "g2"}
    MqDeletes = {"d1", "d2"}
    QueueOf <- MCQueueOf
    MaxConns = 2
    Builtins <- MCBuiltins
    UserLists <- MCUserLists
    MaxFailures = 2
    FleetSize = 2
    MaxMishaps = 2
    Handles = {1, 2}
    HasInput = {2}
    MaxProcesses = 1
    Asked <- MCAsked
    Hooks = {"h1", "h2"}
    PoolCalls = {"j1", "j2"}
    MaxWorkers = 1
INVARIANTS RecoveryInv BrokersInv RunsInv HelpersInv
PROPERTIES RetriesOnFresh CallsEnd SlotImplemented BrokersEnd RunsEnd HelpersReturn
