\* App::run with a workflow that sends up to three App messages (queries and
\* SetBuild) and awaits each reply.
CONSTANTS
    b1 = b1
    b2 = b2
    this_crate = this_crate
    Builds <- MC_Builds
    RunBuild = b1
    ThisCrate = this_crate
    FMsgs <- MC_QueryMsgs
    FSteps = 3
SPECIFICATION FairSpec
INVARIANTS
    TypeOK
    LifecycleLogged
PROPERTIES
    EventuallyStops
