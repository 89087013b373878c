--------------------------- MODULE MCReplProtocol ---------------------------
(* Instance of ReplProtocol for TLC.                                        *)
EXTENDS ReplProtocol

CONSTANTS e1, t1

MCKinds == {<<"normal", "normal">>, <<"tiny", "tiny">>, <<"read", "tiny">>}
=============================================================================
