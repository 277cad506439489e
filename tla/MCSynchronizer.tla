--------------------------- MODULE MCSynchronizer ---------------------------
EXTENDS Synchronizer
\* each kind against each other one, but not at every place
Mixed(n) == CASE n = 2 -> {L2, Vars} [] n = 3 -> {L1, Vars} [] n = 4 -> {L1, L2} [] OTHER -> {Vars}
TwoKinds(n) == {L2, Vars}
=============================================================================
