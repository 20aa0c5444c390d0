----------------------------- MODULE MCArtifacts -----------------------------
(* Every reply of up to MaxLines lines for TLC.  The sizes meet the minimum *)
(* of 24 characters exactly: one line of 24, two of 12 with their newline,  *)
(* but not one of 12, whatever blank lines surround it.                     *)
EXTENDS Artifacts

Fence(kind) == [fence |-> kind, size |-> 0]
Text(size) == [fence |-> "none", size |-> size]
MCLines == {Fence("bare"), Fence("tag"), Fence("info"), Text(0), Text(12), Text(24)}
=============================================================================
