CONSTANTS
    t1 = t1  t2 = t2
    t3 = t3
    Task = {t1, t2}
    Greeter = Greeter
    None = None
SPECIFICATION FairSpec
INVARIANTS TypeOK StackCountsTasks TaskStaysShown OneShimmer BarAgrees
PROPERTIES EveryoneReturns HiddenRests
CHECK_DEADLOCK FALSE
