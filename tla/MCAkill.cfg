SPECIFICATION FairSpec
CONSTANTS
    sra = sra
    oper = oper
    Masks = {m1, m2}
    Opers = {sra, oper}
    OperServ = OperServ
    Flags <- MCFlags
    Hours = {0, 1, 2}
    HourLen = 1
    MaxHours = 2
    FloodHours = 2
    IntMax = 3
    StampGap = 1
    DupMasks = FALSE
    EarlyStop = FALSE
    MaxTime = 4
    MaxAdds = 2
    MaxStarts = 2
CHECK_DEADLOCK FALSE
 
PROPERTY BansStay
 
