------------------------------ MODULE Checksum ------------------------------
(***************************************************************************)
(* The checksums of common.cpp, computed anew over every packet the router *)
(* changes: of the IPv4 header and ICMP over the bytes alone, of UDP and   *)
(* TCP with the pseudo header.                                             *)
(*                                                                         *)
(* The code adds 16-bit words as the host, which is little-endian, finds   *)
(* them in memory, in a 32-bit sum; the receiver reads them in network     *)
(* order.  Base stands for 256, so a word is less than Base^2 and the sum  *)
(* less than Base^4.  The state is that of the loops of one computation.   *)
(* What a header has before its checksum is a whole number of words and is *)
(* added like any other; it is left out.                                   *)
(***************************************************************************)
EXTENDS Integers, SequencesExt

CONSTANTS
  Base,       \* 256
  Protocol,   \* the protocol number of the pseudo header
  Addresses,  \* source and destination of the pseudo header, in bytes
  Contents    \* the bytes from the checksum field on

Word == Base * Base
Limit == Word * Word

Byte == 0 .. Base - 1

\* A byte has two bits at least; there are two addresses of four bytes.
ASSUME ChecksumAssumption ==
  /\ Base \in Nat /\ Base >= 4 /\ Protocol \in Byte
  /\ \A s \in Addresses : s \in Seq(Byte) /\ Len(s) \in {2 * n : n \in 0 .. 4}
  /\ \A s \in Contents : s \in Seq(Byte) /\ Len(s) \in 2 .. Word - 1

Kinds == {"IP", "ICMP", "TCP", "UDP"}

VARIABLES
  kind,       \* which of the functions runs
  addresses,  \* those of the IPv4 header
  bytes,      \* the segment or the header, from its checksum field on
  pos,        \* the byte the loop is at, pseudo header first
  sum,
  pc          \* "add", "fold" or "done"

vars == <<kind, addresses, bytes, pos, sum, pc>>

-----------------------------------------------------------------------------
\* The lengths, and the protocol, are stored in network order.
PseudoHeader(k, a, s) ==
  IF k \in {"TCP", "UDP"}
    THEN a \o <<0, Protocol, Len(s) \div Base, Len(s) % Base>> ELSE <<>>

\* The bytes the sum is taken of.
Summed == PseudoHeader(kind, addresses, bytes) \o bytes

Blank(s) == [s EXCEPT ![1] = 0, ![2] = 0]

\* Faulty: the sum is as wide as its words.
AddedNarrow(s, w) == (s + w) % Word

Added(s, w) == (s + w) % Limit

\* Faulty: the last byte is taken for the high one.
HostWordPadded(s, i) == IF i < Len(s) THEN s[i] + Base * s[i + 1] ELSE Base * s[i]

\* The word the host finds at i; the last byte is added alone.
HostWord(s, i) == IF i < Len(s) THEN s[i] + Base * s[i + 1] ELSE s[i]

\* sum_1s_complement, and the additions before it.
Add ==
  /\ pc = "add" /\ pos <= Len(Summed)
  /\ sum' = Added(sum, HostWord(Summed, pos))
  /\ pos' = pos + 2
  /\ UNCHANGED <<kind, addresses, bytes, pc>>

AddEnds == /\ pc = "add" /\ pos > Len(Summed)
           /\ pc' = "fold"
           /\ UNCHANGED <<kind, addresses, bytes, pos, sum>>

\* In UDP a checksum of zero would mean that there is none.
Stored(k, c) == IF k = "UDP" /\ c = 0 THEN <<Base - 1, Base - 1>>
                ELSE <<c % Base, c \div Base>>

\* finalize_checksum: the loop, then the complement cut to 16 bits.
Fold == /\ pc = "fold" /\ sum >= Word
        /\ sum' = Added(sum % Word, sum \div Word)
        /\ UNCHANGED <<kind, addresses, bytes, pos, pc>>

Finish ==
  /\ pc = "fold" /\ sum < Word
  /\ bytes' = Stored(kind, Word - 1 - sum) \o SubSeq(bytes, 3, Len(bytes))
  /\ pc' = "done"
  /\ UNCHANGED <<kind, addresses, pos, sum>>

\* A packet that has been changed: its old checksum means nothing.
Init ==
  /\ kind \in Kinds /\ addresses \in Addresses
  /\ bytes \in {Blank(s) : s \in Contents}
  /\ kind = "IP" => Len(bytes) % 2 = 0
  /\ pos = 1 /\ sum = 0
  /\ pc = "add"

Next == Add \/ AddEnds \/ Fold \/ Finish

Spec == Init /\ [][Next]_vars

-----------------------------------------------------------------------------
\* Without a limit, the total of the first n words.
Totals(w) == LET t[n \in 0 .. Len(w)] == IF n = 0 THEN 0 ELSE t[n - 1] + w[n]
             IN t

HostWords(s) == [j \in 1 .. (Len(s) + 1) \div 2 |-> HostWord(s, 2 * j - 1)]

(***************************************************************************)
(* The loop loses nothing: the sum, as wide as it is, has all the words it *)
(* has passed, up to the longest segment a length field can name.          *)
(***************************************************************************)
NothingCut ==
  pc = "add" => sum = Totals(HostWords(Summed))[(pos - 1) \div 2]

\* The word the receiver finds; one that is cut off is filled up with zero.
NetworkWord(s, i) == Base * s[i] + IF i < Len(s) THEN s[i + 1] ELSE 0

NetworkWords(s) == [j \in 1 .. (Len(s) + 1) \div 2 |-> NetworkWord(s, 2 * j - 1)]

NetworkSum(s) == Totals(NetworkWords(s))[(Len(s) + 1) \div 2]

(***************************************************************************)
(* What the receiver adds up is a multiple of Word - 1, that is zero in    *)
(* one's complement: it accepts the packet, for even and odd lengths,      *)
(* though host and network disagree on what a word is.                     *)
(***************************************************************************)
Accepted == pc = "done" => NetworkSum(Summed) % (Word - 1) = 0
=============================================================================
