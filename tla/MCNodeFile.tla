----------------------------- MODULE MCNodeFile -----------------------------
(***************************************************************************)
(* Values of the constants for TLC.                                        *)
(***************************************************************************)
EXTENDS NodeFile

CONSTANTS a, b, c, stray

\* One file holds a repetition, as a file edited by hand may.
Files == {NoFile, <<>>, <<a>>, <<a, b, c>>, <<b, a, b>>}

=============================================================================
