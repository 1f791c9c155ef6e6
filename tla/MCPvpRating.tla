----------------------------- MODULE MCPvpRating -----------------------------
EXTENDS PvpRating, TLC

CONSTANTS alice, bob, carol, m1, m2

\* One rated duel and one against a synthetic rival.
OneWhite == m1 :> alice @@ m2 :> bob
OneBlack == m1 :> bob @@ m2 :> alice
AnyOutcome == m1 :> Results @@ m2 :> {"1-0"}

\* Two rated duels of alice, with different rivals.
TwoWhite == [m \in {m1, m2} |-> alice]
TwoBlack == m1 :> bob @@ m2 :> carol
WinThenLoss == m1 :> {"1-0"} @@ m2 :> {"0-1"}
WinThenWin == [m \in {m1, m2} |-> {"1-0"}]
=============================================================================
