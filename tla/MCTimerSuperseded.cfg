CONSTANTS
    Task = {t1, t2}
    Ui = Ui
    Nobody = Nobody
    Interval = 2
    MaxTime = 2
SPECIFICATION KeyedSpec
PROPERTY RunsOnForTheNext
