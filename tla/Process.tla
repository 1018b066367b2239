------------------------------ MODULE Process -------------------------------
(***************************************************************************)
(* The processes, as the clock and the file table both name them.          *)
(***************************************************************************)
CONSTANTS
  Proc,
  None   \* no process, no file and no object
=============================================================================
