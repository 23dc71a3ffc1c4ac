------------------------ MODULE PaymentConfirmationMC ------------------------
(* Model values for TLC: the handlers are interchangeable.                 *)
EXTENDS PaymentConfirmation, TLC

Symmetry == Permutations(Handler)

=============================================================================
