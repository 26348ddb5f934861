-------------------------------- MODULE Versions --------------------------------
(***************************************************************************)
(* How versions and build identifiers are compared (internal/images/       *)
(* catalog.go and ubuntu.go).  A version is the tuple of the numbers in    *)
(* it: versionParts takes the runs of digits and drops what separates      *)
(* them, so "26.04" is <<26, 4>> and "20260803-999" is <<20260803, 999>>.  *)
(***************************************************************************)
EXTENDS Integers, Sequences

\* A missing number counts as zero.
Part(v, i) == IF i <= Len(v) THEN v[i] ELSE 0
Longest(a, b) == IF Len(a) >= Len(b) THEN Len(a) ELSE Len(b)

\* Faulty variant: any larger number decides, whatever comes before it.
AboveAnywhere(a, b) ==
    \E i \in 1 .. Longest(a, b) : Part(a, i) > Part(b, i)

\* The loop of compareVersions returns at the first numbers that differ.
Above(a, b) ==
    \E i \in 1 .. Longest(a, b) :
        /\ Part(a, i) > Part(b, i)
        /\ \A j \in 1 .. i - 1 : Part(a, j) = Part(b, j)

compareVersions(a, b) ==
    IF Above(a, b) THEN 1 ELSE IF Above(b, a) THEN -1 ELSE 0

(***************************************************************************)
(* The text of an identifier: its characters by rank, the separator below  *)
(* the digits and both above the end of the text.  sort.Strings compares   *)
(* texts as compareVersions compares versions.                             *)
(***************************************************************************)
digits[n \in Nat] ==
    IF n < 10 THEN <<n + 2>> ELSE Append(digits[n \div 10], (n % 10) + 2)

\* A build of Ubuntu is a date, or a date and a number ("20260731.2").
Text(b) == IF Len(b) = 1 THEN digits[b[1]] ELSE digits[b[1]] \o <<1>> \o digits[b[2]]
================================================================================
