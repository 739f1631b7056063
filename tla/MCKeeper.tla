------------------------------ MODULE MCKeeper ------------------------------
(***************************************************************************)
(* Instances of Keeper for TLC: processes and markets are model values.    *)
(***************************************************************************)
EXTENDS Keeper, TLC

CONSTANTS k1, k2, m1, m2

\* The two processes race for a batch of the first market, and one of them has
\* another market to confuse its proof with.
RaceWatched == (k1 :> {m1, m2}) @@ (k2 :> {m1})

\* One process for one market.
OneWatched == k1 :> {m1}

=============================================================================
