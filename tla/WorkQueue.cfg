SPECIFICATION FairSpec
CONSTANTS
    dispatch1 = dispatch1
    dispatch2 = dispatch2
    job = job
    request = request
    Calls = {dispatch1, dispatch2, job, request}
    Impatient = {request}
    Panicking = {dispatch2}
    Capacity = 2
    NoCall = NoCall
CHECK_DEADLOCK FALSE
INVARIANTS CountKept AnswersAreTrue
PROPERTY AnsweredUnlessStranded
