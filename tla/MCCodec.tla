------------------------------ MODULE MCCodec -------------------------------
(* A small instance of Codec for TLC. *)
EXTENDS Codec

MCNames == UNION {[1 .. n -> Characters] : n \in 0 .. 5}

\* Nothing, text within and beyond the cap, text that looks like a frame, and
\* frames of a content within and beyond the cap.
MCValues == {[kind |-> "text", sizes |-> <<0>>], [kind |-> "text", sizes |-> <<2>>],
             [kind |-> "text", sizes |-> <<3>>], [kind |-> "magic", sizes |-> <<2>>],
             [kind |-> "text", sizes |-> <<1, 2>>], [kind |-> "text", sizes |-> <<1, 3>>]}

=============================================================================
