--------------------------- MODULE MCRecordWriters ---------------------------
(* Two writers, two values and two TTLs: rows are kept, replaced and made.  *)
EXTENDS RecordWriters

Six == 1..6
Two == 1..2
==============================================================================
