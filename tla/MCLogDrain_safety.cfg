CONSTANTS
    f1 = f1  f2 = f2  p1 = p1  c1 = c1
    Worker = Worker  None = None
    Foreground = {f1, f2}
    Plain = {p1}
    Controls = {c1}
    Hinting = {f2}
    Copying = {f1}
    Leavers = {f1, f2, p1, c1}
    Conns = 2
    Passive = 1
    Ordinary = 3
    Control = 5
SPECIFICATION Spec
INVARIANTS TypeOK ReserveKept DrainHasCause SleepersHaveWaker WaiterHoldsNothing
PROPERTIES DrainAdmitsNoReader
