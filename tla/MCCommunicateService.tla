------------------------- MODULE MCCommunicateService -------------------------
EXTENDS CommunicateService, TLC
\* Phones and connections are interchangeable.
Symmetry == Permutations(Conn) \cup Permutations(Phone)
=============================================================================
