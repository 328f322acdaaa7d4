------------------------------ MODULE MCSession ------------------------------
EXTENDS Session, TLC

ClientSymmetry == Permutations(Clients)
=============================================================================
