---------------------------- MODULE MCStateStream ---------------------------
EXTENDS StateStream, TLC

MCFalls == {"IS_READY", "HAS_FALLEN"}

\* The pool's threads are interchangeable; used for safety runs only.
MCThreadSymmetry == Permutations(Threads)

\* The safety properties speak of one publish at a time: what two at once lead
\* to is left to the other runs.
MCOneAtATime == ~overlapped
=============================================================================
