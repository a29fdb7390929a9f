------------------------------ MODULE MCForcedTx --------------------------------
EXTENDS ForcedTx

CONSTANTS a, w   \* a transfer and a withdrawal

MCTxs == {a, w}
MCWithdrawals == {w}
=============================================================================
