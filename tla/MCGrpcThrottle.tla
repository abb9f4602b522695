--------------------------- MODULE MCGrpcThrottle ---------------------------
EXTENDS GrpcThrottle, TLC

CONSTANTS register, login

\* Register admits fewer requests than Login; its window is longer than
\* the clean-up interval, that of Login as long as it.
MCLimit == register :> 2 @@ login :> 3
MCTtl   == register :> 4 @@ login :> 3

=============================================================================
