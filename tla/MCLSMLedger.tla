----------------------------- MODULE MCLSMLedger -----------------------------
\* The runs of the engine beside its ledger.
EXTENDS MCLSMEngine, LSMLedger

=============================================================================
