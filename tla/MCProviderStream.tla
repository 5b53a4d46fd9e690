------------------------- MODULE MCProviderStream -------------------------
EXTENDS ProviderStream
NewlineStyles == {"cr", "crlf"}
AnswerKinds == {"thinking", "tool"}
CallNames == {"c1", "c2"}
=============================================================================
