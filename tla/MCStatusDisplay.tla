--------------------------- MODULE MCStatusDisplay ---------------------------
EXTENDS StatusDisplay
==============================================================================
