--------------------------- MODULE MCBuildAndBoot ---------------------------
(* The header of the repository, at version 0.2.377, one at 0.9.99, so     *)
(* that numbers get longer, and a first build without one; a screen of 3   *)
(* rows of 4, two of which the lines for the drives take.                  *)
EXTENDS BuildAndBoot

CONSTANT Letter

Header(major, minor, build) ==
  <<[name |-> "guard", value |-> 0], [name |-> "BUILD_DATE", value |-> 0],
    [name |-> "BUILD_SYSTEM", value |-> 0],
    [name |-> "REVISION_MAJOR", value |-> major],
    [name |-> "REVISION_MINOR", value |-> minor],
    [name |-> "REVISION_BUILD", value |-> build],
    [name |-> "endif", value |-> 0]>>

MCStarts == {<<>>, Header(0, 9, 99), Header(0, 2, 377)}

\* A full line with and without a newline behind it, lines that end early, and
\* more lines than the screen has.
MCStrings == {<<Letter>>, <<Letter, Letter, Letter, Letter>>,
              <<Letter, NewLine, Letter, Letter, Letter, Letter, NewLine>>,
              <<NewLine, NewLine, NewLine, Letter>>}

MCValues == {0, 10, 171}
=============================================================================
