---------------------------- MODULE MCTranslator ----------------------------
(* Translator on a small instance.                                         *)
EXTENDS Translator, TLC

\* One kind stands for the statements that emit a single instruction: they
\* differ only in the instruction's name.
MCStmtKinds == {"print"}

MCSymmetry == Permutations(Names) \cup Permutations(Funcs)
=============================================================================
