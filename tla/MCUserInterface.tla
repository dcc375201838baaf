-------------------------- MODULE MCUserInterface --------------------------
EXTENDS UserInterface
=============================================================================
