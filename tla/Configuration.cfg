\* Lines of one or two characters and room for five bytes of them, so that a
\* stored line is evicted both for its entry and for its length.
CONSTANTS
    ATCMD_BUF_SIZE = 3
    PREVBUF_MAX_SIZE = 5
    PREVBUF_MAX_NUM = 2
    Macs = {m1, m2}
    NoMac = zero
    Addrs = {factory, other}
    FactoryAddr = factory
    Serials = {s1, s2}
    FactorySerial = s1
    Blank = blank
SPECIFICATION Spec
INVARIANTS HistoryExact ConfigApplied MacStored
