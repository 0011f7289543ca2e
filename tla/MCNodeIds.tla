------------------------------- MODULE MCNodeIds -------------------------------
EXTENDS NodeIds, TLC

\* The fields callers fill in: all that build() requires, or one too few.
MCFieldChoices == {Required, Required \ {"node_type"}}

\* The threads run the same code.
ThreadSymmetry == Permutations(Threads)
===============================================================================
