------------------------------ MODULE Consoles ------------------------------
(***************************************************************************)
(* A deployment runs one console for good: build_app (web_api.py) makes    *)
(* the standalone one (Console) or the legacy one (LegacyConsole), as the  *)
(* runtime_mode asks; the serve command makes the standalone one.          *)
(***************************************************************************)
EXTENDS Console

CONSTANTS Torn, MaxFaults

ASSUME ConsolesAssumption == MaxFaults \in Nat

VARIABLES
    mode,        \* runtime_mode
    settings, pins, disk, serving, changed, spoiled, starts, failures

legacyVars == <<settings, pins, disk, serving, changed, spoiled, starts, failures>>
allVars == <<mode, vars, legacyVars>>

Legacy == INSTANCE LegacyConsole WITH
    file <- disk, th <- serving, touched <- changed, restarts <- starts

ConsolesInit == mode \in {"standalone", "legacy"} /\ Init /\ Legacy!Init

Standalone == mode = "standalone" /\ Next /\ UNCHANGED <<mode, legacyVars>>
InLegacy == mode = "legacy" /\ Legacy!Next /\ UNCHANGED <<mode, vars>>

ConsolesSpec == ConsolesInit /\ [][Standalone \/ InLegacy]_allVars

-----------------------------------------------------------------------------
(* In the legacy console a request undoes nothing it is not about, unless  *)
(* that changed after it was read (LegacyConsole).                         *)
LegacyChangesKnowingly == Legacy!ChangesKnowingly

(* In the legacy console the file has what is in memory, unless its last   *)
(* writer was late, failed, clashed or was a job (LegacyConsole).          *)
LegacyFileFollows == Legacy!FileFollows

=============================================================================
