-------------------------- MODULE MC_TcpConnection --------------------------
(* Buffers scaled down from 8 + 1024 and a 65536-byte extrabuf to 1 + 2   *)
(* and 1: a fresh buffer has one stale byte, a two-byte message needs     *)
(* makeSpace() to grow the buffer, a later one moves the readable bytes   *)
(* down, and three peer bytes overflow into extrabuf.  Bytes are small   *)
(* numbers; 0 is the fresh buffer's byte.                                  *)
EXTENDS TcpConnection

MCMsgs == << <<1, 2>>, <<3>> >>
MCPeerBytes == <<5, 6, 7>>

====
