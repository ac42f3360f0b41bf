CONSTANTS
    main = main  sub = sub
    g = g  a = a  b = b  c = c  d = d  h = h  rc = rc  rd = rd  x = x
    none = none  t1 = t1  t2 = t2
    Workflow = {main}
    Main = main
    Task <- RetryTask
    NoTask = none
    Tag = {t1, t2}
    Tasks <- RetryTasks
    OnErrorTask <- RetryCatch
    DeferredTask <- RetryDefer
    Actions <- RetryActions
    Fail = {}
    TagIDs <- RetryTags
    Outcome <- RetryOutcome
    MaxRepeat = 2
    MaxErrors = 4
    MaxGoto = 1
SPECIFICATION Spec
PROPERTY GotoHonoured
