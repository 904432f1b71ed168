--------------------------- MODULE MCWakeControl ---------------------------
(* The owner knows the password on the label and one of her own, her guest *)
(* only the label; the stranger guesses.                                   *)
EXTENDS WakeControl

CONSTANTS owner, guest, stranger, secret, guess

KnownPasswords == [ b \in Browsers |-> CASE b = owner -> {Default, secret}
                                         [] b = guest -> {Default}
                                         [] OTHER     -> {guess} ]
=============================================================================
