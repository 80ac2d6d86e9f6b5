----------------------------- MODULE MCProducer -----------------------------
(* Small instances of Producer.                                            *)
EXTENDS Producer

\* Two blobs of each kind that is published, and an odd one between them.
KindsInstance == <<"valid", "invalid", "odd", "valid", "invalid">>
===============================================================================
