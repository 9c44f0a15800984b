--------------------------- MODULE MC_UploadTicket ---------------------------
(* Requests are interchangeable, and so are the items of the ticket.         *)
EXTENDS UploadTicket, TLC

Interchangeable == Permutations(Requests) \cup Permutations(Paths)
=============================================================================
