-------------------------- MODULE MCOfflineBilling --------------------------
\* Small instances of OfflineBilling.
EXTENDS OfflineBillingProps, TLC

Interchangeable == Permutations(Workers)

=============================================================================
