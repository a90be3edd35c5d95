----------------------------- MODULE MCTuiRuns -----------------------------
(***************************************************************************)
(* Instances of TuiRuns for TLC.                                           *)
(***************************************************************************)
EXTENDS TuiRuns

CONSTANTS r1, r2, j1, j2

TwoRows == {r1, r2}
OneRow == {r1}
TwoJobs == {j1, j2}
OneJob == {j1}
=============================================================================
