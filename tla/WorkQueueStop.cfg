SPECIFICATION FairSpec
CONSTANTS
    dispatch1 = dispatch1
    dispatch2 = dispatch2
    job = job
    request = request
    Calls = {dispatch1, dispatch2}
    Impatient = {}
    Panicking = {}
    Capacity = 1
    NoCall = NoCall
CHECK_DEADLOCK FALSE
PROPERTY EveryRunAnswers
