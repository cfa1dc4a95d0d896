---------------------------- MODULE MCConversation ----------------------------
(* Instances of Conversation for TLC. *)
EXTENDS Conversation

Picture  == <<Part("text", "b"), Part("image", "c")>>
Refusal  == <<Part("refusal", "d")>>
LocalRef == <<Part("unsupported", "e")>>

AnyContent == {Picture, LocalRef}
AnyOutput  == {Picture}
AnySay     == {<<>>, Refusal}

Function == [type |-> "function", nested |-> FALSE, name |-> "tool"]
Builtin  == [type |-> "web_search", nested |-> FALSE, name |-> None]
AnyTools == {<<>>, <<Builtin, Function>>}
=============================================================================
