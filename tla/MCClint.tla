-------------------------------- MODULE MCClint -------------------------------
(***************************************************************************)
(* Bus masters for TLC.  Each drives an idle bus, reads, and writes of a   *)
(* few words, at the addresses where the decoder has something to decide:  *)
(* every register word, the first word past each register file, an address *)
(* in the middle of a word and the aliases above MTIME.                    *)
(***************************************************************************)
EXTENDS ClintRegMap

Idle == [valid |-> FALSE, addr |-> 0, wstrb |-> 0, wdata |-> 0]

Read(a)     == [valid |-> TRUE, addr |-> a, wstrb |-> 0, wdata |-> 0]
Store(a, v) == [valid |-> TRUE, addr |-> a, wstrb |-> 15, wdata |-> v]

\* A store of the byte at a: one strobe.
StoreByte(a, v) == [valid |-> TRUE, addr |-> a, wstrb |-> 2, wdata |-> v]

Reads(A)     == {Read(a) : a \in A}
Stores(A, V) == {Store(a, v) : a \in A, v \in V}

MsipWords  == {4 * h : h \in Harts}
CmpWords   == {16384 + 8 * h + 4 * w : h \in Harts, w \in Halves}
MtimeWords == {49144, 49148}

\* Words next to a register: past MSIP, past MTIMECMP, below and above MTIME.
Holes == {4 * N_CORES, 16380, 16384 + 8 * N_CORES, 49140, 49152}

\* Three harts: every register word and every hole, read and written, where the
\* hart select can name a fourth hart, which is not there.  Hart 1 only ever
\* stores what its registers hold.
ThreeHartRequests ==
  {Idle} \cup Reads(MsipWords \cup CmpWords \cup MtimeWords \cup Holes)
         \cup Stores({0, 8, 16400, 16404} \cup MtimeWords, Word)
         \cup Stores({4}, {0}) \cup Stores({16384, 16392, 16396} \cup Holes, {1})
         \cup {StoreByte(16389, 0), [Store(49144, 1) EXCEPT !.valid = FALSE]}

\* One hart, wider words: carries and the upper bits of MSIP.
OneHartRequests ==
  {Idle} \cup Reads({0, 4, 16388, 49148})
         \cup Stores({0, 16384, 16388, 49144, 49148}, Word)
===============================================================================
