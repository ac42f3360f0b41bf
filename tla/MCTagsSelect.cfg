CONSTANTS
    main = main  sub = sub
    g = g  a = a  b = b  c = c  d = d  h = h  rc = rc  rd = rd  x = x
    none = none  t1 = t1  t2 = t2
    Workflow = {main}
    Main = main
    Task <- SelectTask
    NoTask = none
    Tag = {t1, t2}
    Tasks <- SelectTasks
    OnErrorTask <- SelectNoTask
    DeferredTask <- SelectNoTask
    Actions <- SelectActions
    Fail = {}
    TagIDs <- SelectTags
    Outcome <- SelectOutcome
    MaxRepeat = 1
    MaxErrors = 0
    MaxGoto = 0
SPECIFICATION Spec
INVARIANT TagsSelect
