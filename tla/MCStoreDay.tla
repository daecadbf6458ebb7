----------------------------- MODULE MCStoreDay -----------------------------
EXTENDS StoreDayProps, TLC

CONSTANTS north, south, counter1, counter2, kiosk, asha, s1, s2, s3

\* Two stores with one counter each and one cashier who serves both.
TwoStores == {north, south}
TwoStoreProfiles == {counter1, kiosk}
TwoStoreOf == (counter1 :> north) @@ (kiosk :> south)

\* One store with two counters.
OneStore == {north}
OneStoreProfiles == {counter1, counter2}
OneStoreOf == (counter1 :> north) @@ (counter2 :> north)

OneUser == {asha}
TwoSessions == {s1, s2}
ThreeSessions == {s1, s2, s3}

=============================================================================
