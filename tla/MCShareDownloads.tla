---------------------------- MODULE MCShareDownloads ----------------------------
EXTENDS ShareDownloads, TLC

\* Limits of zero, one, two and none, a link that is spent or nearly so, expiry at once,
\* later or never.
MCLinks ==
  {[expires_at |-> e, download_limit |-> l, download_count |-> c] :
     e \in {0, 1, NoExpiry}, l \in {0, 1, 2}, c \in {0}}
  \cup
  {[expires_at |-> e, download_limit |-> l, download_count |-> 1] :
     e \in {1, NoExpiry}, l \in {1, 2, NoLimit}}

\* Sessions run the same code.
SessionSymmetry == Permutations(Sessions)
===============================================================================
