SPECIFICATION FairSpec
CONSTANTS
    Tasks = {t1, t2}
    MaxAge = 2
    MaxChanges = 1
    MaxRefusals = 1
INVARIANTS TypeOK NoTokenlessRequest ServedUsageIsTrue
PROPERTIES CallsEnd
