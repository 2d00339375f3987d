----------------------------- MODULE MCSession -----------------------------
(* Small instances of Session.                                             *)
EXTENDS Session

\* Every kind of call, two reads side by side, a claim of completion that
\* comes after a read.
SomeBatches == {<<"read", "complete">>, <<"write", "ask">>, <<"read", "read">>}
OneBatch == {<<"read", "complete">>}
=============================================================================
