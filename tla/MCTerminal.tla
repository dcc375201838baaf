----------------------------- MODULE MCTerminal -----------------------------
EXTENDS Terminal

CONSTANTS x, y
=============================================================================
