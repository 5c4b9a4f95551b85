---------------------------- MODULE MCCompaction ----------------------------
EXTENDS Compaction

MCReplies == {<<"text">>, <<"text", "call", "call">>, <<>>}
=============================================================================
