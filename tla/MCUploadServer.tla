--------------------------- MODULE MCUploadServer ---------------------------
(* Instances of UploadServer for TLC. *)
EXTENDS UploadServer, TLC

CONSTANTS a, b

(* A file of two chunks, one of one chunk, and an empty one. *)
Long  == <<a, b>>
Short == <<b>>
Empty == <<NoBytes>>

LongAndEmpty  == {Long, Empty}
LongAndShort  == {Long, Short}
ShortAndEmpty == {Short, Empty}
=============================================================================
