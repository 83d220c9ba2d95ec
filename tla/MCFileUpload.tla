----------------------------- MODULE MCFileUpload -----------------------------
(* Files of one whole chunk, of none, of a chunk and a half, and of less    *)
(* than one.                                                               *)
EXTENDS FileUpload

MCSizes == <<2, 0, 3, 1>>

=============================================================================
