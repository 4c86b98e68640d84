---------------------------- MODULE MCFtpSession ----------------------------
(***************************************************************************)
(* Instances of FtpSession for TLC.                                        *)
(***************************************************************************)
EXTENDS FtpSession

Client(name, aborts, disk, conns, k) ==
  [client: {name}, aborts: aborts, disk: disk, conns: {conns}, ready: {conns}, k: {k}]

(***************************************************************************)
(* A client that keeps to the dialogue, with and without aborted transfers *)
(* and failures of the disk; and one that sends any command at any time.   *)
(***************************************************************************)
MCEnvironments ==
  Client("polite", BOOLEAN, {"ok", "failing"}, 2, 2) \cup Client("any", {FALSE}, {"ok"}, 1, 1)

(***************************************************************************)
(* Someone else connects to the passive port too.                          *)
(***************************************************************************)
StrayEnvironments == Client("stray", {FALSE}, {"ok"}, 2, 1)
=============================================================================
