----------------------------- MODULE MCWebPages -----------------------------
(* Small instances of WebPages for TLC.                                    *)
EXTENDS WebPages

EveryPage == AllPages
SomeFilters == {"ALL", "PENDING"}
=============================================================================
