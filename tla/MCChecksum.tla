----------------------------- MODULE MCChecksum -----------------------------
(***************************************************************************)
(* An instance of Checksum for TLC: bytes of two bits, every segment of up *)
(* to three bytes behind the checksum, and the longest segments there are, *)
(* full of ones, where the sum is largest.                                 *)
(***************************************************************************)
EXTENDS Checksum

Full(n) == [i \in 1 .. n |-> Base - 1]

AllAddresses == {<<a, b>> \o <<b, a>> : a \in Byte, b \in Byte} \cup {Full(4)}

AllContents == {<<0, 0>> \o s : s \in UNION {[1 .. n -> Byte] : n \in 0 .. 3}}
                 \cup {Full(n) : n \in 2 .. Word - 1}
=============================================================================
