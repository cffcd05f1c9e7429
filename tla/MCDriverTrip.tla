---------------------------- MODULE MCDriverTrip ----------------------------
\* Instance of DriverTrip: a bus, and two routes that are interchangeable.
EXTENDS DriverTrip, TLC

BusStatuses == {"ACTIVE", "INACTIVE"}
Symmetry == Permutations(Buses) \union Permutations(Routes)
=============================================================================
