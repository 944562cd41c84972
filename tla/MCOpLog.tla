------------------------------ MODULE MCOpLog ------------------------------
EXTENDS OpLog

CONSTANTS a1, a2, a3, d1, d2

MCNames == 1..2
=============================================================================
