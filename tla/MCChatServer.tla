------------------------------ MODULE MCChatServer ------------------------------
(***************************************************************************)
(* What the server does around a generation, in one instance: sessions and *)
(* their cancellation, and the guard on the tools a model calls, for the   *)
(* three native protocols over a few tokens each.  "word" stands for text  *)
(* and for what a call holds, "nl" for whitespace.  A behaviour is about   *)
(* one of the two ("about"); the other one rests in its initial state,     *)
(* where fairness asks nothing of it.                                      *)
(***************************************************************************)
EXTENDS HttpServer, ToolGuard, TLC

Grammar(first) ==
  ("start" :> [t \in first |-> "body"]) @@ ("body" :> ("word" :> "body" @@ "end" :> "final"))

ReasoningTokens == {"word", "nl", "call", "end", "channel", "think", "/think", "eos"}

Qwen == [tokens |-> ReasoningTokens,
         marker |-> <<"call">>, opener |-> <<"think">>, close |-> "/think",
         start |-> "start", next |-> Grammar({"nl"}), final |-> {"final"},
         first |-> {"nl"}, post |-> {"eos", "nl", "call"}, reset |-> {}, stop |-> {"eos"}]

Gemma == [Qwen EXCEPT !.opener = <<"channel", "think">>,
                      !.next = Grammar({"word"}), !.first = {"word"}]

\* The text of a parameter may hold the words of the marker.
Muse == [tokens |-> {"atem", "call", ">", ">nl", "nl", "end", "eom", "eos"},
         marker |-> <<"atem", "call">>, opener |-> <<>>, close |-> "none",
         start |-> "start",
         next |-> ("start" :> (">" :> "open" @@ ">nl" :> "body")) @@
                  ("open" :> ("nl" :> "body")) @@
                  ("body" :> ("atem" :> "body" @@ "call" :> "body" @@ "end" :> "final")),
         final |-> {"final"}, first |-> {">", ">nl"},
         post |-> {"eom", "eos"}, reset |-> {"eom"}, stop |-> {"eos"}]

MCProtocols == {Qwen, Gemma, Muse}

\* Prompts that end in the first half of what opens reasoning, or a call; the
\* last one in reasoning.
MCPrompts == { <<"word", "channel">>, <<"nl", "atem">>, <<"channel", "think">> }

-----------------------------------------------------------------------------
VARIABLE about

vars == <<about, serverVars, guardVars>>

Init ==
  /\ about \in {"server", "guard"}
  /\ ServerInit
  /\ GuardInit /\ (about = "server" => protocol = Muse)

Next ==
  /\ UNCHANGED about
  /\ \/ about = "server" /\ ServerNext /\ UNCHANGED guardVars
     \/ about = "guard" /\ GuardNext /\ UNCHANGED serverVars

Spec == Init /\ [][Next]_vars /\ ServerFairness
=============================================================================
