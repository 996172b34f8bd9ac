------------------------------ MODULE Revision ------------------------------
(***************************************************************************)
(* The revision tool (tools/revision/revision.c), which every build runs   *)
(* before it compiles: headers/revision.h is read, truncated and written   *)
(* again with one number increased.  The text is shorter than a stdio      *)
(* buffer, so nothing of it is in the file before the fflush of line 225;  *)
(* a run that is killed, or finds the disk full, leaves some prefix.       *)
(***************************************************************************)
EXTENDS Naturals, Sequences

CONSTANTS Starts,     \* contents revision.h may have before the first run
          MaxRuns     \* bound on the number of runs

VARIABLES header,     \* lines of revision.h; <<>> also when there is no file
          tool,       \* where the tool is, "idle" between runs
          command,    \* argv[1]
          numbers,    \* revision, minor, major of main
          status,     \* what the last run returned, 0 or 1
          counted,    \* the numbers the runs have asked for
          damaged,    \* a run has ended between truncation and last write
          runs

revisionVars == <<header, tool, command, numbers, status, counted, damaged, runs>>

Fields   == {"REVISION_MAJOR", "REVISION_MINOR", "REVISION_BUILD"}
Commands == {"build", "minor", "major"}
FieldOf  == [build |-> "REVISION_BUILD", minor |-> "REVISION_MINOR",
             major |-> "REVISION_MAJOR"]

Line(name, value) == [name |-> name, value |-> value]

\* The lines of a header.
Names == Fields \cup {"guard", "BUILD_DATE", "BUILD_SYSTEM", "endif"}

\* The text main generates, one entry for each part of it that matters.
Generated(n) == <<Line("guard", 0), Line("BUILD_DATE", 0), Line("BUILD_SYSTEM", 0),
                  Line("REVISION_MAJOR", n["REVISION_MAJOR"]),
                  Line("REVISION_MINOR", n["REVISION_MINOR"]),
                  Line("REVISION_BUILD", n["REVISION_BUILD"]),
                  Line("endif", 0)>>

\* The numbers are ints: what is left of one that is cut behind any of its
\* digits is a quotient by one of these.
Powers == {10, 100, 1000, 10000, 100000, 1000000, 10000000, 100000000, 1000000000}

Cut(line, power) == [line EXCEPT !.value = @ \div power]

\* A prefix of it that ends with a line (all that lacks may be the comment
\* behind #endif), or within the digits of a number.
Prefixes(lines) ==
  {SubSeq(lines, 1, k) : k \in 0..Len(lines)}
  \cup UNION {{Append(SubSeq(lines, 1, k - 1), Cut(lines[k], power)) :
                 power \in {p \in Powers : p <= lines[k].value}} : k \in DOMAIN lines}

-----------------------------------------------------------------------------

\* Zero for each number that is not in the file; the last line of a name counts.
GetRevision(lines) ==
  [f \in Fields |->
     LET found == {i \in DOMAIN lines : lines[i].name = f} IN
       IF found = {} THEN 0
       ELSE lines[CHOOSE i \in found : \A j \in found : j <= i].value]

Init == /\ header \in Starts
        /\ tool = "idle"
        /\ command = "build"
        /\ numbers = GetRevision(<<>>)
        /\ status = 0
        /\ counted = GetRevision(header)
        /\ damaged = FALSE
        /\ runs = 0

\* Faulty variant: the existing file is never read.
ParseSkipped(c) == /\ tool = "idle" /\ runs < MaxRuns
                   /\ command' = c
                   /\ numbers' = GetRevision(<<>>)
                   /\ tool' = "parsed"
                   /\ runs' = runs + 1
                   /\ UNCHANGED <<header, status, counted, damaged>>

\* revision <command> gcc: the file is opened for reading and parsed.
Parse(c) == /\ tool = "idle" /\ runs < MaxRuns
            /\ command' = c
            /\ numbers' = GetRevision(header)
            /\ tool' = "parsed"
            /\ runs' = runs + 1
            /\ UNCHANGED <<header, status, counted, damaged>>

\* fopen(..., "w") fails.
InvalidOutput == /\ tool = "parsed"
                 /\ tool' = "idle" /\ status' = 1
                 /\ UNCHANGED <<header, command, numbers, counted, damaged, runs>>

Truncate == /\ tool = "parsed"
            /\ header' = <<>>
            /\ numbers' = [numbers EXCEPT ![FieldOf[command]] = @ + 1]
            /\ counted' = [counted EXCEPT ![FieldOf[command]] = @ + 1]
            /\ tool' = "generating"
            /\ UNCHANGED <<command, status, damaged, runs>>

Write == /\ tool = "generating"
         /\ header' = Generated(numbers)
         /\ tool' = "idle" /\ status' = 0
         /\ UNCHANGED <<command, numbers, counted, damaged, runs>>

\* The disk is full: fflush writes a part and the library drops the rest, so
\* that fclose finds nothing to write; it returns 0 unless the close itself
\* fails.  Nobody looks at the result of fflush.
WriteFails == /\ tool = "generating"
              /\ header' \in Prefixes(Generated(numbers))
              /\ tool' = "idle" /\ status' \in {0, 1}
              /\ damaged' = TRUE
              /\ UNCHANGED <<command, numbers, counted, runs>>

\* The build is interrupted, at any point.
Killed == /\ tool # "idle"
          /\ header' \in {header} \cup
               IF tool = "generating" THEN Prefixes(Generated(numbers)) ELSE {}
          /\ tool' = "idle" /\ status' = 1
          /\ damaged' = (damaged \/ tool = "generating")
          /\ UNCHANGED <<command, numbers, counted, runs>>

Next == \/ \E c \in Commands : Parse(c)
        \/ InvalidOutput \/ Truncate \/ Write \/ WriteFails \/ Killed

-----------------------------------------------------------------------------

TypeOK == /\ tool \in {"idle", "parsed", "generating"}
          /\ command \in Commands
          /\ numbers \in [Fields -> Nat] /\ counted \in [Fields -> Nat]
          /\ status \in {0, 1}
          /\ damaged \in BOOLEAN
          /\ runs \in 0..MaxRuns

Complete == header = Generated(GetRevision(header))

\* A number is never lost by a run that is not cut short, and no run, cut
\* short or not, makes one larger than the runs have asked for.
Kept == tool # "generating" =>
          /\ ~damaged => GetRevision(header) = counted
          /\ \A f \in Fields : GetRevision(header)[f] <= counted[f]
=============================================================================
