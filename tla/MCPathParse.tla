---------------------------- MODULE MCPathParse ----------------------------
(* Instances of PathParse: every path over '/', '.' and one letter, for a   *)
(* table of three rows of six characters.                                   *)
EXTENDS PathParse

CONSTANT a

MCLetters == {a}
\* Up to the length of a row, and long enough to be refused.
FittingAndRefused == 0..6 \cup {8}
OneTooMany == {7}
=============================================================================
