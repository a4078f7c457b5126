SPECIFICATION FairSpec
CONSTANTS
    q1 = q1
    q2 = q2
    q3 = q3
    c1 = c1
    c2 = c2
    None = None
    Procs = {q1, q2, q3}
    Clients = {c1, c2}
    Polls = 1
    StartLimitBurst = 2
    Plans <- HostPlans
 
PROPERTIES RestartTruthful ClientSettles ServiceAnswers
CHECK_DEADLOCK FALSE
