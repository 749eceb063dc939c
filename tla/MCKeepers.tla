------------------------------ MODULE MCKeepers ------------------------------
EXTENDS Keepers
CONSTANTS u1, u2
MCEnrolled == <<u1, u2>>
KeepersSpec == KeepersInit /\ [][KeepersNext]_keeperVars /\ KeepersFairness
\* A run for everybody, and "Trade Now" for one beside or after it.
Kinds == \A r \in DOMAIN runs : IsManual(r) <=> r = 2
ForFirst == \A r \in DOMAIN runs : (IsManual(r) /\ At(r, "list")) => Head(keeper[r].todo) = u1
=============================================================================
