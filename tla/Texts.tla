--------------------------------- MODULE Texts ---------------------------------
(***************************************************************************)
(* All that is done to texts: what is said passes through the daemons      *)
(* (Conversation), and what is typed through the color codes (Colors).     *)
(* wIRCd calls no color function, so that the two share nothing: a text is *)
(* typed before anything is said.                                          *)
(***************************************************************************)
EXTENDS Conversation, Colors

vars == <<conversation, draft, kind>>

Init == ConversationInit /\ ColorsInit

Speak == kind = "none" /\ ConversationNext /\ UNCHANGED <<draft, kind>>
Draft == ConversationInit /\ ColorsNext /\ UNCHANGED conversation

Next == Speak \/ Draft

Spec == Init /\ [][Next]_vars
=============================================================================
