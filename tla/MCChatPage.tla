----------------------------- MODULE MCChatPage -----------------------------
(***************************************************************************)
(* A small instance of ChatPage: a page that may be reloaded, and two      *)
(* turns.  The first shows a text cut by a tool, or asks for approval and  *)
(* fails; the second may overlap it, if its page was reloaded or lost.     *)
(***************************************************************************)
EXTENDS ChatPage

CONSTANTS p1

MCPages == {p1}
MCStreams ==
  <<{<<"text", "ping", "tool_use", "text", "done">>,
     <<"approval_request", "text", "error">>},
    {<<"text", "done">>}>>
=============================================================================
