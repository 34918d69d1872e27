------------------------------ MODULE MCSession ------------------------------
EXTENDS Session, TLC

\* Documents with what the patterns treat differently beside each other, at the
\* ends and in between.
TheLists ==
    {<<>>,
     <<<<"s", "p", "w", "s", "f", "s", "w", "p">>>>,
     <<<<"w", "s", "s", "w", "f">>, <<"f", "p", "s">>, <<"w", "p", "s", "w">>>>}

Symmetry == Permutations(Callers)
=============================================================================
