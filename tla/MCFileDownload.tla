---------------------------- MODULE MCFileDownload ----------------------------
(***************************************************************************)
(* Three contents for FileDownload: two of different lengths and an empty  *)
(* one.                                                                    *)
(***************************************************************************)
EXTENDS FileDownload, TLC

CONSTANTS v1, v2, empty

MCLength == (v1 :> 1) @@ (v2 :> 3) @@ (empty :> 0)
MCVersion == DOMAIN MCLength
=============================================================================
