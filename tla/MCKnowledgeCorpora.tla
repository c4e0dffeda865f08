------------------------- MODULE MCKnowledgeCorpora -------------------------
(* A few requests for one corpus at once.                                  *)
EXTENDS KnowledgeCorporaProps
=============================================================================
