-------------------------------- MODULE MCMailbox --------------------------------
(* Two consumers; two ids, each of which may be sent to either of two            *)
(* conversations, so that they share one, or not, or clash.                      *)
EXTENDS RedisMailbox
CONSTANTS v, w
Mail(id, conversation) ==
  [id |-> id, conversation |-> conversation, correlation |-> "", source |-> <<>>]
Post == {Mail(id, conversation) : id \in {"x", "y"}, conversation \in {"A", "B"}}
=============================================================================
