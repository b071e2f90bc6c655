----------------------------- MODULE MCChatAgents -----------------------------
(* The root delegates at most twice, counting its controls.  In the first     *)
(* family its provider makes one call and may ask with it; in the second it   *)
(* makes two, so it may call a tool after its question.                       *)
EXTENDS ChatAgents
ByDepth(f) == [d \in 0..Depth |-> f[d + 1]]
RootCalls == ByDepth(<<2, 1>>)
RootOffers == ByDepth(<<{"wait", "connected", "lifted", "steer", "answer", "cancel"}, {"ask"}>>)
AskCalls == ByDepth(<<2, 2>>)
AskOffers == ByDepth(<<{"connected", "answer"}, {"ask", "tool"}>>)
OnlyRoot == {Root}
=============================================================================
