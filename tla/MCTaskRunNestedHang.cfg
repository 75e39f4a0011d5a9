SPECIFICATION Spec
CONSTANTS
    build = build
    test = test
    lint = lint
    clean = clean
    deploy = deploy
    again = again
    publish = publish
    notify = notify
    Root = main
    Task <- MCTask
    Home <- MCHome
    Needs <- MCNeeds
    Post <- MCPost
    Same <- MCSame
    Script <- MCTask
    Multi = {lint}
    Invocations <- NestedCancelled
PROPERTIES
    EndsUnlessLeafLost
\* A run that has lost a leaf of an injected graph waits for ever.
CHECK_DEADLOCK FALSE
