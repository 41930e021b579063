--------------------------- MODULE MCRobotControl ---------------------------
(***************************************************************************)
(* Small instances of RobotControl for TLC: three channel numbers of which *)
(* the server accepts two, and a cell for the third.                       *)
(***************************************************************************)
EXTENDS RobotControl

CONSTANTS browser1, browser2

=============================================================================
