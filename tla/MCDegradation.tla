----------------------------- MODULE MCDegradation ------------------------------
EXTENDS Degradation

CONSTANT w

MCWithdrawals == {w}
MCMempool == <<PlainTx(w)>>
=============================================================================
