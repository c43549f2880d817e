----------------------------- MODULE MCRegions -----------------------------
\* One address, in a locality, which a walk may skip, and in a neighborhood whose
\* boundary comes under another name.
EXTENDS Regions, TLC

CONSTANT s1

MCName == s1 :> [t \in Types |-> CASE t = "state" -> "A" [] t = "county" -> "K"
                                   [] t = "city" -> "c" [] t = "locality" -> "l"
                                   [] t = "neighborhood" -> "n" [] OTHER -> None]
MCNames == {"A", "K", "c", "l", "m", "n"}
MCBoundary == [n \in MCNames |-> IF n = "n" THEN "m" ELSE n]
Interchangeable == Permutations(Ids)
=============================================================================
