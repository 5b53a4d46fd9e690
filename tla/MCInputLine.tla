---------------------------- MODULE MCInputLine ----------------------------
EXTENDS InputLine

\* Two sessions: one without prompts, and one with more than the history keeps
\* and one prompt sent twice.
MCResumable == {<<>>, <<<<"w">>, <<"/">>, <<"/">>, <<"w", "@">>>>}
=============================================================================
