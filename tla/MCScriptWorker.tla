--------------------------- MODULE MCScriptWorker ---------------------------
EXTENDS ScriptWorker
=============================================================================
