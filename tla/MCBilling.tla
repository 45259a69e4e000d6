------------------------------- MODULE MCBilling -------------------------------
(* An instance of Billing for TLC.                                          *)
EXTENDS Billing, TLC

\* A plan whose limit the page rounds to none.
MCTerms == {[traffic |-> 1, days |-> 1]}

\* None, the extension alone, and a box for no end that overrules it.  Nobody
\* ticks the reset here: it touches only the bytes used, which the collector
\* moves too, and Traffic has it racing with the collector.
MCBoxes == {{}, {"extend"}, {"never", "extend"}}

Symmetry == Permutations(Admins)
=============================================================================
