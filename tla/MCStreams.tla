----------------------------- MODULE MCStreams -----------------------------
(* A small picture, and one with a stuffed FF in it that outgrows the buffer. *)
EXTENDS Streams

MCPicture == { <<"FF", "D8", "00", "FF", "D9">>,
               <<"FF", "D8", "00", "FF", "00", "00", "FF", "D9">> }
MCNoise   == { <<"FF">> }
=============================================================================
