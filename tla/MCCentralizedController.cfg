\* Two users, one strong and one weak SNR, a window of three reports; the
\* time to trigger is longer than the period of the checks.
SPECIFICATION FairSpec
CONSTANTS
    User = {u1, u2}
    Snr = {0, 40}
    MinReports = 3
    FirstLag = 2
    SecondLag = 1
    TimeToTrigger = 2
    HandoverDelay = 1
    CheckTime = 1
    Routes = 1
    HasWifi = TRUE
INVARIANTS
    HandoverSound
PROPERTIES
    HandoverWaits
    HandoverSpec
    WeakUserLeaves
