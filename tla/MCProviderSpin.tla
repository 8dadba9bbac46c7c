---------------------------- MODULE MCProviderSpin ----------------------------
(***************************************************************************)
(* Keys and symmetry for the model-checking runs of the provider rounds.   *)
(***************************************************************************)
EXTENDS ProviderSpin, TLC

SpinKeys == Kinds \X Rounds

Symmetry ==
    Permutations(Calls) \cup Permutations(Consumers) \cup Permutations(Messages)

=============================================================================
