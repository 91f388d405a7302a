---------------------------- MODULE MCRateLimiter ----------------------------
EXTENDS RateLimiter, TLC

CONSTANTS ping, range

\* One token per period, and three tokens in seven units: the interval is rounded
\* down to two.  The cost of nine tokens wraps to that of one.
MCPeriod == (ping :> 3 @@ range :> 7)
MCTokens == (ping :> 1 @@ range :> 3)
MCExpected == (ping :> {1} @@ range :> {0, 2, 3, 4, 9})
=============================================================================
