--------------------------- MODULE MCInstancePool ---------------------------
(* Small instances of InstancePool for TLC.                                 *)
EXTENDS InstancePool

CONSTANTS alice, bob, t1, t2, nobody

TwoAccounts  == {alice, bob}
TwoThreads   == {t1, t2}
=============================================================================
