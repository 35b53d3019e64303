SPECIFICATION Spec
CONSTANTS
    s1 = s1
    s2 = s2
    i1 = i1
    i2 = i2
    NoSignal = NoSignal
    NoWorker = NoWorker
    Signal = {s1, s2}
    Instrument = {i1}
    InstrumentOf <- OneInstrument
    Long = {s1}
    Worker = {w1, w2}
    Sizes = {2}
    RoundsUp = {1}
    MaxOpen = 2
    Prices = {1}
    Ceilings = {3}
    MaxFaults = 0
SYMMETRY Symmetry
INVARIANTS
    NoFalseHalt
