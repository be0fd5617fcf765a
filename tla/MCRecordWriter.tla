--------------------------- MODULE MCRecordWriter ---------------------------
(* Two requests saving the settings, channels of two, a table of one row. *)
EXTENDS RecordWriter
=============================================================================
