--------------------------- MODULE MCRecordWriter ---------------------------
(* Small instances of RecordWriter for TLC. *)
EXTENDS RecordWriter, TLC

\* The clients are interchangeable, and so are the streams; safety only.
ClientSymmetry == Permutations(Clients)
SourceSymmetry == Permutations(Clients) \cup Permutations(Streams)
=============================================================================
