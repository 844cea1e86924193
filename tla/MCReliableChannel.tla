------------------------- MODULE MCReliableChannel -------------------------
(* Small instances of ReliableChannel: see the .cfg files.                 *)
EXTENDS ReliableChannel

FramedOnly == {"framed"}
AllSizes == SizeClasses

============================================================================
