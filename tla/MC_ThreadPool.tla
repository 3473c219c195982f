--------------------------- MODULE MC_ThreadPool ---------------------------
EXTENDS ThreadPool

CONSTANTS BaseV
====
