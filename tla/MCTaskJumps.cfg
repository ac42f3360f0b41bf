CONSTANTS
    main = main  sub = sub
    g = g  a = a  b = b  c = c  d = d  h = h  rc = rc  rd = rd  x = x
    none = none  t1 = t1  t2 = t2
    Workflow = {main, sub}
    Main = main
    Task <- JumpTask
    NoTask = none
    Tag = {t1, t2}
    Tasks <- JumpTasks
    OnErrorTask <- JumpCatch
    DeferredTask <- JumpDefer
    Actions <- JumpActions
    Fail = {}
    TagIDs <- JumpTags
    Outcome <- JumpOutcome
    MaxRepeat = 2
    MaxErrors = 2
    MaxGoto = 3
SPECIFICATION Spec
INVARIANTS
    SuccessMeansCaught
    ExitExcludesGoto
    ProcessOfFrame
PROPERTIES
    ExitStops
    GotoHonoured
    Termination
