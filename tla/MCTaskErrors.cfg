CONSTANTS
    main = main  sub = sub
    g = g  a = a  b = b  c = c  d = d  h = h  rc = rc  rd = rd  x = x
    none = none  t1 = t1  t2 = t2
    Workflow = {main}
    Main = main
    Task <- ErrorTask
    NoTask = none
    Tag = {t1, t2}
    Tasks <- ErrorTasks
    OnErrorTask <- ErrorCatch
    DeferredTask <- ErrorDefer
    Actions <- ErrorActions
    Fail = {rc}
    TagIDs <- ErrorTags
    Outcome <- ErrorOutcome
    MaxRepeat = 2
    MaxErrors = 4
    MaxGoto = 0
SPECIFICATION ReportSpec
INVARIANTS
    TypeOK
    ExitCodeTells
PROPERTY ErrorsAccounted
