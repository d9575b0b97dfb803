---------------------------- MODULE MCCallbacker ----------------------------
EXTENDS Callbacker, TLC
=============================================================================
