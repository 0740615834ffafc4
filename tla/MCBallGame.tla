----------------------------- MODULE MCBallGame -----------------------------
EXTENDS BallGame

\* Bit patterns that send balls to all columns at every level.
MCSeeds == {<<180, 92>>, <<57, 227>>, <<6, 161>>}
=============================================================================
