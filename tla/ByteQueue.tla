------------------------------- MODULE ByteQueue -------------------------------
(* What a Buffer promises: a queue of bytes that are put in at the end and      *)
(* taken out, or dropped, at the front.                                        *)
EXTENDS Naturals, Sequences

CONSTANT Byte

VARIABLES bytes,  \* the readable bytes
          last    \* what went in or came out last

Moved == [op : {"put", "take"}, data : Seq(Byte)]

Init == bytes = <<>> /\ last \in Moved /\ last.data = <<>>

Put ==
    /\ last'.op = "put"
    /\ bytes' = bytes \o last'.data

Take ==
    /\ last'.op = "take"
    /\ \E n \in 0..Len(bytes) : /\ last'.data = SubSeq(bytes, 1, n)
                                /\ bytes' = SubSeq(bytes, n + 1, Len(bytes))

Next == last' \in Moved /\ (Put \/ Take)

Spec == Init /\ [][Next]_<<bytes, last>>
=============================================================================
