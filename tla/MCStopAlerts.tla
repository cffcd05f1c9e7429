---------------------------- MODULE MCStopAlerts ----------------------------
\* Instance of StopAlerts: three points, a stop at each end, one bus.
EXTENDS StopAlerts

ThreePlaces == 0..2
Fixes == [at : 0..2, precise : {TRUE}] \union {[at |-> 0, precise |-> FALSE]}
BothEnds == {0, 2}
OneEnd == {0}
===============================================================================
