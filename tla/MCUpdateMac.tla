--------------------------- MODULE MCUpdateMac ---------------------------
EXTENDS UpdateMac

CONSTANTS a, b

\* As strings 0.10.0 would come before 0.9.2.
MCTags == <<<<0, 9, 2>>, <<0, 10, 0>>, <<1, 0, 1>>>>
==============================================================================
