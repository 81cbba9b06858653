SPECIFICATION RtSpec
CONSTANTS
    Watchers = {w1, w2, w3}
    RtCallers = {c1, c2}
    RtNobody = RtNobody
    RtFaults = {"window"}
    RtMaxCalls = 5
INVARIANT
    AtMostOneWatcher
CHECK_DEADLOCK FALSE
