----------------------------- MODULE MCSmokeTest -----------------------------
(* Instances of SmokeTest for TLC.                                         *)
EXTENDS SmokeTest

\* Nobody else sees what a transaction does before its commit, so the rest
\* stands still while a migration is under way. Rivals and lost connections come
\* before the script; two incidents at most, others' commands and requests
\* among them, concern it, and those fall into its pauses.
Migrating == \E d \in Deployers : task[d] # "none"

MCSmokeNext ==
  /\ SmokeNext
  /\ Migrating => UNCHANGED <<throttleVars, scriptVars, rowVars, hostVars>>
  /\ runs' > 0 => /\ commands' + crashes' + others' <= 2
                  /\ breaks' = 0 /\ \A d \in Deployers : ~overtaken'[d]
  /\ commands' # commands => phase \in {"idle", "rest", "sleep"}
  /\ others' # others => phase = "sleep" /\ hits'["list"] # hits["list"]
  /\ phase = "idle" => now' <= LastStart
  /\ ~(Ended /\ runs = MaxRuns)

MCSmokeSpec ==
  /\ SmokeInit
  /\ [][MCSmokeNext]_smokeVars
  /\ WF_smokeVars(ScriptTimers)
  /\ WF_smokeVars(TimePasses /\ UNCHANGED schemaVars /\ Frame)
  /\ WF_smokeVars(SchemaStep /\ UNCHANGED throttleVars /\ Frame)

=============================================================================
