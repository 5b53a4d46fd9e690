----------------------------- MODULE MCPickers -----------------------------
EXTENDS Pickers
=============================================================================
