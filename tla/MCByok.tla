------------------------------- MODULE MCByok -------------------------------
(* Instances of Byok for TLC: two people, each with a key at the provider  *)
(* of the default model, and an anonymous account.                         *)
EXTENDS Byok, TLC

CONSTANTS ada, bob, guest, anthropic, openai, a1, b1

MCUsers == {ada, bob, guest}
MCSignedIn == {ada, bob}
MCProviders == {anthropic, openai}
MCKeys == {a1, b1}
MCKeyOwner == a1 :> ada @@ b1 :> bob
MCKeyProvider == a1 :> anthropic @@ b1 :> anthropic

Symmetry == Permutations(Slots) \cup Permutations(Masters)
=============================================================================
