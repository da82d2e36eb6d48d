----------------------------- MODULE MCCommands ------------------------------
(* Core as built with this client, an older one, and one of another schema. *)
EXTENDS Commands

AllFeatures == {"bootload", "instruments", "probes", "boards", "kinds", "hoststudies", "prompts"}

MCBuilds ==
  {[knows |-> AllFeatures, schema |-> "ours"],
   [knows |-> {"kinds"}, schema |-> "other"],
   [knows |-> AllFeatures \ {"kinds"}, schema |-> "other"]}

==============================================================================
