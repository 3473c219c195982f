--------------------------- MODULE MC_LoopThread ---------------------------
EXTENDS LoopThread

CONSTANTS NULLV, LoopV
====
