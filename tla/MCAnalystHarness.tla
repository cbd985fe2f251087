-------------------------- MODULE MCAnalystHarness --------------------------
(***************************************************************************)
(* Small instances of AnalystHarness for TLC: a read and a write the owner *)
(* is entitled to, one of each that is not, one MCP tool.                  *)
(***************************************************************************)
EXTENDS AnalystHarness

MCReads    == {"r1", "r2"}
MCWrites   == {"w1", "w2"}
MCTools    == {"t1"}
MCEntitled == {"read", "write", "r1", "w1"}

=============================================================================
