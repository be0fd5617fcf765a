------------------------ MODULE MCAnswerTranslation ------------------------
(* Every way round, on answers of up to three items in up to four pieces:  *)
(* two calls that take turns with a text between them.  Every second piece *)
(* ends an object, so that an answer may end in the middle of one.         *)
EXTENDS AnswerTranslation
=============================================================================
