------------------------------ MODULE MCReadPath ------------------------------
\* The run of the reader: one id is enough to hide, replace and merge away.
EXTENDS MCLSMEngine, ReadPath

OneId == {i1}

=============================================================================
