------------------------------ MODULE MCServer ------------------------------
(* Instances of Server for TLC. *)
EXTENDS Server, TLC

\* The sessions are interchangeable, and so are the names.
MCSymmetry == Permutations(Session) \cup Permutations(Name)

\* What a run lets the clients send.
Transfers == {"FileDataHeader", "FileDataChunk", "FileDataEnd", "FileDownloadRequest"}
Files == Transfers \cup {"FileDeleteRequest", "Unexpected"}
Kicks == Transfers \cup {"MessageChat", "WrongPassword", "UpdateWriteRate"}
Chats == {"MessageChat", "FileDataHeader"}
=============================================================================
