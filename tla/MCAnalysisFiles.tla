--------------------------- MODULE MCAnalysisFiles ---------------------------
(* AnalysisFiles for TLC.  Its run checks a liveness property, for which   *)
(* symmetry is not sound, so no set of ids is declared symmetric.          *)
EXTENDS AnalysisFiles
=============================================================================
