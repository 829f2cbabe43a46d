----------------------------- MODULE MCPipeline -----------------------------
(***************************************************************************)
(* A small pipeline for TLC: a switch with two branches, `left` to a group *)
(* of two outputs, `right` to a group of one.  The number of an event      *)
(* decides where it goes.                                                  *)
(***************************************************************************)
EXTENDS Pipeline

CONSTANTS switch, leftBranch, rightBranch, leftGroup, rightGroup, o1, o2, o3

MCBranches ==
  (switch :> <<leftBranch, rightBranch>>) @@ (leftBranch :> <<>>) @@ (rightBranch :> <<>>)

\* The first, which both branches want, to the left, the third to the right; no predicate
\* wants the second.
MCVerdict ==
  (switch :> <<>>)
    @@ (leftBranch :> <<"yes", "no", "no">>)
    @@ (rightBranch :> <<"yes", "no", "yes">>)

\* The predicate of the left branch fails on the second.
MCVerdictFailing ==
  (switch :> <<>>)
    @@ (leftBranch :> <<"yes", "error", "yes">>)
    @@ (rightBranch :> <<"yes", "yes", "yes">>)

\* Two events that go the same way.
MCVerdictSame ==
  (switch :> <<>>) @@ (leftBranch :> <<"yes", "yes">>) @@ (rightBranch :> <<"no", "no">>)

MCGroupOf == (leftBranch :> leftGroup) @@ (rightBranch :> rightGroup)

MCOutputsOf == (leftGroup :> <<o1, o2>>) @@ (rightGroup :> <<o3>>)

\* One filter above each branch, none above the switch.
MCOneFilter == (switch :> 0) @@ (leftBranch :> 1) @@ (rightBranch :> 1)

MCTwoFilters == (switch :> 0) @@ (leftBranch :> 2) @@ (rightBranch :> 1)
=============================================================================
