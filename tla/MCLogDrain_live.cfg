CONSTANTS
    f1 = f1  f2 = f2  p1 = p1  c1 = c1
    Worker = Worker  None = None
    Foreground = {f1}
    Plain = {p1}
    Controls = {}
    Hinting = {}
    Copying = {}
    Leavers = {}
    Conns = 2
    Passive = 1
    Ordinary = 2
    Control = 3
SPECIFICATION FairSpec
PROPERTIES Converges ReadsAdmitted
