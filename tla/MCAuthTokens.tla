------------------------------ MODULE MCAuthTokens ------------------------------
(* AuthTokens for a user who is an owner or a guest.                        *)
EXTENDS AuthTokens, TLC

CONSTANTS h1, h2

MCRoles == {"Owner", "Guest"}
MCActions == {"Write"}

\* An owner may write and a guest may not.
MCGrants == {<<"Owner", "Write">>}

MCHandlers == {h1, h2}
Symmetry == Permutations(MCHandlers)
===============================================================================
