----------------------------- MODULE AuditLogMC -----------------------------
(* Two threads and a short file for model-checking AuditLog.                *)
EXTENDS AuditLog

SameThreads == Permutations(Threads)
=============================================================================
