SPECIFICATION BreakerSpec
CONSTANTS
    Calls = {c1, c2, c3}
    Threshold = 3
PROPERTIES OpensOnFailures RecoversAlone
