SPECIFICATION Spec
CONSTANTS
    Nobody = Nobody
    Lock = {1, 2}
    Task <- MCTask
    Run <- MCRun
    RunOf <- MCRunOf
    Starter <- MCStarter
    Wants <- MCWants
    Interactive <- MCInteractive
    Script <- MCScript
    Jobs <- MCJobs
    Launches <- Contended
    Events = {"fail", "ctrl-c", "kill", "timeout"}
INVARIANTS
    AllOrNothing
    NoHoldAndWait
    WaitsInOrder
    LockedWhileRunning
    TerminalAlone
PROPERTIES
    RunsEnd
