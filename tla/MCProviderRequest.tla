-------------------------- MODULE MCProviderRequest --------------------------
(* A clock of four ticks a second; a duration overflows at four seconds.     *)
EXTENDS ProviderRequest

=============================================================================
