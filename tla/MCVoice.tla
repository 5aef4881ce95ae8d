------------------------------- MODULE MCVoice -------------------------------
(* Voice on a small instance: the peer's first call overflows the jitter *)
(* buffer, a second one follows.                                         *)
EXTENDS Voice

Lengths == <<3, 1>>
=============================================================================
