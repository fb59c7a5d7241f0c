---------------------------- MODULE MCStopEpochs ----------------------------
\* Small instances of StopEpochs for TLC.
EXTENDS StopEpochs, TLC

CONSTANTS a, b, new, old

TwoCallers == {a, b}
CallerSymmetry == Permutations(TwoCallers)
=============================================================================
