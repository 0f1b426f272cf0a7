\* Two tasks: one waiting and one refused, or one that comes after the other.
CONSTANTS
    Task = {t1, t2}
    Ui = Ui
    Nobody = Nobody
    Interval = 1
    MaxTime = 2
SPECIFICATION FairSpec
INVARIANTS OneWait
PROPERTIES Cadence StopReturns EndedWaitReturns
