------------------------------ MODULE Settings ------------------------------
(***************************************************************************)
(* What zymi is told to keep: models.json, policy.json and mcp.json, each  *)
(* beside those who read and save it.  They share no variable.             *)
(***************************************************************************)
EXTENDS Models, PolicyFile, Mcp

(* Whatever crashes or fails in whatever step of a save, the three files   *)
(* have what was saved there before (save_models_config) and what the      *)
(* callers were told (the save_config of manage_policy and manage_mcp),    *)
(* with the exceptions that each of the three names.                       *)
SettingsSurvive == AddedModelsSurvive /\ RulesSurvive /\ ServersSurvive
=============================================================================
