---------------------------- MODULE MCClintTimebase ---------------------------
(* A master that sets MTIME and a deadline, one word at a time, at any     *)
(* moment, and one that leaves them alone.                                 *)
EXTENDS ClintTimebase

SetsTimer ==
  [valid: {FALSE}, addr: {49144}, wstrb: {0}, wdata: {0}]
  \cup [valid: {TRUE}, addr: {49144, 49148, 16384, 16388}, wstrb: {15}, wdata: Word]

LeavesMtime == [valid: {FALSE}, addr: {49144}, wstrb: {0}, wdata: {0}]
===============================================================================
