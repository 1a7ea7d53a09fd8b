--------------------------- MODULE MCLibraryFiling ---------------------------
(* Small instances of LibraryFiling: one session for two runs, each of which *)
(* may file it under either of two topics, and two sessions for one run.     *)
EXTENDS LibraryFiling, TLC

CONSTANTS s1, s2, none, free, gone

MCOneSession == {s1}
MCSessions == {s1, s2}
MCTopics == {1, 2}
MCRuns == {1, 2}
MCOneRun == {1}
==============================================================================
