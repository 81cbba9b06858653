--------------------------- MODULE MCRealtimeLife ---------------------------
\* The instance of RealtimeLife for TLC alone, with its window open.
EXTENDS RealtimeLife
=============================================================================
