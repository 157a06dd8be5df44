----------------------------- MODULE MCDiagnostics -----------------------------
EXTENDS Diagnostics

CONSTANTS c1, c2
=============================================================================
