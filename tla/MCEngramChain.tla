----------------------------- MODULE MCEngramChain ------------------------------
EXTENDS EngramChain, TLC

CONSTANTS w

MCWithdrawals == {w}
MCMempools == {<<PlainTx(w)>>}
Symmetry == Permutations(Validators)
=============================================================================
