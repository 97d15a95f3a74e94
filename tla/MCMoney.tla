------------------------------ MODULE MCMoney ------------------------------
(* A small instance of Money for TLC. *)
EXTENDS Money

\* 0.1 and 0.2 rupees as doubles: 7205759403792794 and twice as many units
Tenth == <<26843545, 161061274>>
Fifth == <<53687091, 53687092>>

TwoAmounts == {Tenth, Fifth}
=============================================================================
