------------------------------- MODULE Listed -------------------------------
(***************************************************************************)
(* What is known of the lists that are handed over.                        *)
(***************************************************************************)
EXTENDS Sequences

IsSequence(s) == s \in Seq({s[n] : n \in DOMAIN s})

Lists(x, names) == \A name \in names : IsSequence(x[name])
=============================================================================
