-------------------------- MODULE MCExchangeRegistry --------------------------
(* Small instances of ExchangeRegistry. *)
EXTENDS ExchangeRegistry, TLC

CONSTANTS i1, i2, r1, r2, k1, k2, stray, stateless, anonymous

\* one answer, the other with an unknown key, and one with one of another kind
MCAnswers == {k1 :> TRUE, k2 :> TRUE @@ stray :> TRUE, k1 :> TRUE @@ k2 :> FALSE}
MCMixed == i1 :> stateless @@ i2 :> Unbound
MCSymmetry == Permutations(Retries)
=============================================================================
