-------------------------- MODULE MCMessageLifecycle --------------------------
EXTENDS MessageLifecycle, TLC

CONSTANTS c1, c2, c3, sender, reader

MCCalls == {c1, c2, c3}
MCUsers == {sender, reader}

MCSymmetry == Permutations(MCCalls)
=============================================================================
