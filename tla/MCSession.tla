----------------------------- MODULE MCSession -----------------------------
EXTENDS Session, TLC

CONSTANTS a, b

OneSeed == <<a>>

TwoSeeds == <<a, a>>

AllSteps ==
  {"check", "move", "clean", "samples", "dirs", "read", "pivot", "nuke", "begin",
   "stats", "stats written", "fuzz", "save", "write", "trim", "trim written", "sync"}

\* Everywhere but while _resume/ is deleted.
MostSteps == AllSteps \ {"nuke"}
=============================================================================
