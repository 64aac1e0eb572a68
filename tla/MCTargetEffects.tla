-------------------------- MODULE MCTargetEffects --------------------------
(* Model values for TLC.  exec needs an approval, a write does not; the Task's *)
(* authority has the two effect classes only, or every class.                 *)
EXTENDS EffectEvidence

MCAskBefore == {"exec"}
MCAuthority == {"write", "exec"}
MCFullAuthority == OperationClasses
MCPreconditions == {0}
=============================================================================
