---------------------------- MODULE MCGSCreator ----------------------------
(***************************************************************************)
(* Instance of GSCreator for TLC.  Two calls, so that what one leaves      *)
(* behind (handler, flag, errno, descriptors) meets the next; an image of  *)
(* two blocks over a pipe of one, so that gs blocks on its output.         *)
(***************************************************************************)
EXTENDS GSCreator
=============================================================================
