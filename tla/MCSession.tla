----------------------------- MODULE MCSession -----------------------------
(* Values for model-checking Session.tla.                                  *)
EXTENDS Session
CONSTANTS f, h
MCCallback == {f, h}
=============================================================================
