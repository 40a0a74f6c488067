------------------------------- MODULE MCMvcc -------------------------------
(* Instances of Mvcc for TLC: cursors and values are interchangeable. *)
EXTENDS Mvcc, TLC

(* Crash points: everywhere but between the two header stores of           *)
(* prepare_commit() ("cloned") and of rollback() ("unprepared").           *)
MCCrashOutsideWindows == Points \ {"cloned", "unprepared"}
MCCrashAnywhere == Points
MCCrashNever == {}

MCSymmetry == Permutations(Cursors) \cup Permutations(Vals)
=============================================================================
