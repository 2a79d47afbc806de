------------------------------- MODULE HttpServer -------------------------------
(***************************************************************************)
(* The HTTP server over the vision kit: a handler thread per request, the  *)
(* main thread that serves, is signalled and shuts down, and the kit's     *)
(* thread.  A handler's generation is a session, which either thread may   *)
(* cancel.  The kit is VlmKit's, cut down to what a handler sees of it.    *)
(***************************************************************************)
EXTENDS Naturals, SequencesExt, FiniteSets

CONSTANTS Sessions,   \* requests that come, each with its handler and session
          MaxTexts,   \* bound: texts of an answer
          Signals     \* bound: SIGINT and SIGTERM that come

ASSUME ServerAssumption == IsFiniteSet(Sessions) /\ MaxTexts \in Nat /\ Signals \in Nat

VARIABLES
  pc,         \* where a handler is
  sent,       \* what it has written: "status", "headers", "progress", "text", "terminal", "done", "error"
  lost,       \* sessions whose client is gone
  cancelled,  \* _cancelled of a session is set
  done,       \* _done of a session is set
  active,     \* _active_sessions
  messages,   \* to the kit
  running,    \* the kit's requests
  out,        \* a request's response queue
  kit,        \* "up", "failed", or "down"
  main,       \* the main thread's calls, innermost first
  locked,     \* does the main thread hold _active_sessions_lock?
  signals     \* how many came

handlers == <<pc, sent>>
sessions == <<cancelled, done, active>>
kitVars == <<messages, running, out, kit>>
mainVars == <<main, locked, signals>>
serverVars == <<handlers, lost, sessions, kitVars, mainVars>>

Working == {"headers", "submit", "read", "finish"}
Cleaning == {"cancel", "set", "stop", "close"}
Calls == {"serving", "lock", "copy", "each", "set", "stop", "unload", "exit"}

ServerTypeOK ==
  /\ pc \in [Sessions -> {"body", "register", "ended"} \cup Working \cup Cleaning]
  /\ \A s \in Sessions : sent[s] \in Seq({"status", "headers", "progress", "text",
                                          "terminal", "done", "error"})
  /\ lost \cup cancelled \cup done \cup active \cup running \subseteq Sessions
  /\ \A s \in Sessions : s \in active <=> pc[s] \in Working \cup Cleaning
  /\ messages \in Seq({"submit", "remove"} \X Sessions)
  /\ kit \in {"up", "failed", "down"}
  /\ \A i \in DOMAIN main : main[i].at \in Calls /\ main[i].todo \subseteq Sessions
  /\ locked \in BOOLEAN /\ signals \in 0..Signals

Frame(at, todo) == [at |-> at, todo |-> todo]

ServerInit ==
  /\ pc = [s \in Sessions |-> "body"] /\ sent = [s \in Sessions |-> <<>>]
  /\ lost = {} /\ cancelled = {} /\ done = {} /\ active = {}
  /\ messages = <<>> /\ running = {} /\ out = [s \in Sessions |-> <<>>] /\ kit = "up"
  /\ main = <<Frame("serving", {})>> /\ locked = FALSE /\ signals = 0

\* Daemon threads end with the main thread.
Up == Head(main).at # "exit"

Goto(s, at) == pc' = [pc EXCEPT ![s] = at]

\* _write_bytes: a write to a client that is gone raises _ClientConnectionError,
\* which do_POST takes quietly.
Write(s, what, at) ==
  IF s \in lost THEN Goto(s, "cancel") /\ UNCHANGED sent
  ELSE Goto(s, at) /\ sent' = [sent EXCEPT ![s] = @ \o what]

\* Any other error is written to the client, if it is still there.
WriteError(s) ==
  /\ Goto(s, "cancel")
  /\ sent' = IF s \in lost THEN sent ELSE [sent EXCEPT ![s] = Append(@, "error")]

Put(message) == messages' = Append(messages, message)

-----------------------------------------------------------------------------
(* A handler's do_POST().                                                  *)

\* The client goes away, or its connection stalls for longer than the timeout.
ClientLost(s) ==
  /\ Up /\ s \notin lost /\ pc[s] # "ended"
  /\ lost' = lost \cup {s}
  /\ UNCHANGED <<handlers, sessions, kitVars, mainVars>>

\* Not authorized, not found, too large, timed out, not a chat request, ...
Reject(s) ==
  /\ Up /\ pc[s] = "body"
  /\ Goto(s, "ended")
  /\ sent' = IF s \in lost THEN sent ELSE [sent EXCEPT ![s] = <<"status">>]
  /\ UNCHANGED <<lost, sessions, kitVars, mainVars>>

Prepare(s) ==
  /\ Up /\ pc[s] = "body"
  /\ Goto(s, "register")
  /\ UNCHANGED <<sent, lost, sessions, kitVars, mainVars>>

RegisterSession(s) ==
  /\ Up /\ pc[s] = "register" /\ ~locked
  /\ active' = active \cup {s}
  /\ Goto(s, "headers")
  /\ UNCHANGED <<sent, lost, cancelled, done, kitVars, mainVars>>

StartSse(s) ==
  /\ Up /\ pc[s] = "headers"
  /\ Write(s, <<"headers">>, "submit")
  /\ UNCHANGED <<lost, sessions, kitVars, mainVars>>

\* The first next() of the generator: generate() of the kit.
Submit(s) ==
  /\ Up /\ pc[s] = "submit"
  /\ IF kit = "up" THEN Put(<<"submit", s>>) /\ Goto(s, "read") /\ UNCHANGED sent
     ELSE WriteError(s) /\ UNCHANGED messages
  /\ UNCHANGED <<lost, sessions, running, out, kit, mainVars>>

Stopping(s) == s \in cancelled

\* Variant with a fault: the removal is queued, and the next response read.
ReadsOn(s) == Goto(s, "read") /\ UNCHANGED sent

AfterStop(s) == Write(s, <<"terminal">>, "finish")

\* The reporter writes a comment, unless the session is cancelled; the kit's
\* generator removes the request when it says stop, and when it raises.
ReadBegin(s) ==
  IF Stopping(s)
  THEN Put(<<"remove", s>>) /\ AfterStop(s)
  ELSE /\ Write(s, <<"progress">>, "read")
       /\ IF s \in lost THEN Put(<<"remove", s>>) ELSE UNCHANGED messages

\* The generator's next result, if any, and what _stream_generation writes of it.
Read(s) ==
  /\ Up /\ pc[s] = "read" /\ out[s] # <<>>
  /\ out' = [out EXCEPT ![s] = Tail(@)]
  /\ CASE Head(out[s]) = "begin" -> ReadBegin(s)
       [] Head(out[s]) = "text" -> Write(s, <<"text">>, "read") /\ UNCHANGED messages
       [] Head(out[s]) \in {"final", "cancel"} ->
            Write(s, <<"terminal">>, "finish") /\ UNCHANGED messages
       [] Head(out[s]) = "end" -> Goto(s, "finish") /\ UNCHANGED <<sent, messages>>
       [] OTHER -> WriteError(s) /\ UNCHANGED messages
  /\ UNCHANGED <<lost, sessions, running, kit, mainVars>>

\* Variant with a fault: an answer without an end is completed.
AlwaysTerminal(s) == TRUE

TerminalSent(s) == "terminal" \in ToSet(sent[s])

\* The generator is exhausted: "MLX generation ended without a stop condition."
FinishStream(s) ==
  /\ Up /\ pc[s] = "finish"
  /\ IF TerminalSent(s) THEN Write(s, <<"done">>, "close") ELSE WriteError(s)
  /\ UNCHANGED <<lost, sessions, kitVars, mainVars>>

\* GenerationSession.cancel(), by the handler: looked at, set, stopped.
CancelLooks(s) ==
  /\ Up /\ pc[s] = "cancel"
  /\ Goto(s, IF s \in cancelled \cup done THEN "close" ELSE "set")
  /\ UNCHANGED <<sent, lost, sessions, kitVars, mainVars>>

CancelSets(s) ==
  /\ Up /\ pc[s] = "set"
  /\ cancelled' = cancelled \cup {s}
  /\ Goto(s, "stop")
  /\ UNCHANGED <<sent, lost, done, active, kitVars, mainVars>>

\* Variant with a fault: nobody tells the kit.
StopForgotten(s) == UNCHANGED messages

\* runtime.stop(), by each thread that found the session not cancelled.
Stop(s) == Put(<<"remove", s>>)

CancelStops(s) ==
  /\ Up /\ pc[s] = "stop"
  /\ Stop(s)
  /\ Goto(s, "close")
  /\ UNCHANGED <<sent, lost, cancelled, done, active, running, out, kit, mainVars>>

\* Variant with a fault: the session stays registered.
RegisteredStill(s) == active

Unregistered(s) == active \ {s}

\* finish() and unregister_session(); closing the kit's generator does nothing.
EndSession(s) ==
  /\ Up /\ pc[s] = "close" /\ ~locked
  /\ done' = done \cup {s}
  /\ active' = Unregistered(s)
  /\ Goto(s, "ended")
  /\ UNCHANGED <<sent, lost, cancelled, kitVars, mainVars>>

Handler(s) ==
  \/ Reject(s) \/ Prepare(s) \/ RegisterSession(s) \/ StartSse(s)
  \/ Submit(s) \/ Read(s) \/ FinishStream(s)
  \/ CancelLooks(s) \/ CancelSets(s) \/ CancelStops(s) \/ EndSession(s)

-----------------------------------------------------------------------------
(* External: the kit's thread, as VlmKit has it.                           *)

Answered(requests, with) ==
  out' = [s \in Sessions |-> IF s \in requests THEN Append(out[s], with) ELSE out[s]]

KitRest == UNCHANGED <<handlers, lost, sessions, mainVars>>

KitTakes ==
  /\ Up /\ kit = "up" /\ messages # <<>>
  /\ messages' = Tail(messages)
  /\ LET s == Head(messages)[2]
     IN \/ Head(messages)[1] = "submit" /\ running' = running \cup {s} /\ Answered({s}, "begin")
        \/ Head(messages)[1] = "submit" /\ Answered({s}, "error") /\ UNCHANGED running
        \/ Head(messages)[1] = "remove" /\ running' = running \ {s}
                                        /\ Answered({s} \cap running, "cancel")
  /\ UNCHANGED kit /\ KitRest

\* Bound: MaxTexts.
KitEmits(s) ==
  /\ Up /\ kit = "up" /\ s \in running
  /\ Len(SelectSeq(sent[s] \o out[s], LAMBDA x : x = "text")) < MaxTexts
  /\ Answered({s}, "text")
  /\ UNCHANGED <<messages, running, kit>> /\ KitRest

\* With a stop condition, or without one when text was held back.
KitEnds(s) ==
  /\ Up /\ kit = "up" /\ s \in running
  /\ running' = running \ {s}
  /\ \/ out' = [out EXCEPT ![s] = @ \o <<"final", "end">>]
     \/ Answered({s}, "end")
  /\ UNCHANGED <<messages, kit>> /\ KitRest

Held == running \cup {s \in Sessions : <<"submit", s>> \in ToSet(messages)}

\* All requests are answered when the kit fails, and when it is shut down.
KitGoes(how, with) ==
  /\ Up /\ kit = "up"
  /\ kit' = how
  /\ Answered(Held, with)
  /\ running' = {} /\ messages' = <<>>

KitFails == KitGoes("failed", "error") /\ KitRest

-----------------------------------------------------------------------------
(* The main thread.                                                        *)

Top == Head(main)
Becomes(frame) == main' = <<frame>> \o Tail(main)
MainRest == UNCHANGED <<handlers, lost>>

\* A signal interrupts the main thread wherever it is.
Signal ==
  /\ Up /\ signals < Signals /\ Top.at \in Calls
  /\ signals' = signals + 1
  /\ main' = <<Frame("lock", {})>> \o main
  /\ UNCHANGED <<handlers, lost, sessions, kitVars, locked>>

\* server.shutdown() ends serve_forever(), and the clean-up cancels once more.
StopServing ==
  /\ Top.at = "serving" /\ signals > 0
  /\ Becomes(Frame("lock", {}))
  /\ UNCHANGED <<sessions, kitVars, locked, signals>> /\ MainRest

\* Variant with a fault: the lock is not given back.
LockKept == TRUE

AfterCopy == FALSE

\* cancel_active_sessions(): a copy is taken under the lock, ...
TakeLock ==
  /\ Top.at = "lock" /\ ~locked
  /\ locked' = TRUE
  /\ Becomes(Frame("copy", {}))
  /\ UNCHANGED <<sessions, kitVars, signals>> /\ MainRest

CopySessions ==
  /\ Top.at = "copy"
  /\ locked' = AfterCopy
  /\ Becomes(Frame("each", active))
  /\ UNCHANGED <<sessions, kitVars, signals>> /\ MainRest

\* ... and each is cancelled.
MainLooks(s) ==
  /\ Top.at = "each" /\ s \in Top.todo
  /\ IF s \in cancelled \cup done THEN Becomes(Frame("each", Top.todo \ {s}))
     ELSE Becomes([at |-> "set", todo |-> Top.todo, session |-> s])
  /\ UNCHANGED <<sessions, kitVars, locked, signals>> /\ MainRest

MainSets ==
  /\ Top.at = "set"
  /\ cancelled' = cancelled \cup {Top.session}
  /\ Becomes([Top EXCEPT !.at = "stop"])
  /\ UNCHANGED <<done, active, kitVars, locked, signals>> /\ MainRest

MainStops ==
  /\ Top.at = "stop"
  /\ Stop(Top.session)
  /\ Becomes(Frame("each", Top.todo \ {Top.session}))
  /\ UNCHANGED <<cancelled, done, active, running, out, kit, locked, signals>> /\ MainRest

\* A signal handler returns to what it interrupted; the clean-up closes the
\* server, which takes no more requests, and goes on to unload.
CancelReturns ==
  /\ Top.at = "each" /\ Top.todo = {}
  /\ IF Len(main) > 1 THEN main' = Tail(main) ELSE Becomes(Frame("unload", {}))
  /\ UNCHANGED <<sessions, kitVars, locked, signals>> /\ MainRest

\* runtime.unload(): the kit's thread answers its requests and is joined.
Unload ==
  /\ Top.at = "unload"
  /\ IF kit = "up" THEN KitGoes("down", "cancel") ELSE UNCHANGED kitVars
  /\ Becomes(Frame("exit", {}))
  /\ UNCHANGED <<sessions, locked, signals>> /\ MainRest

Main ==
  \/ StopServing \/ TakeLock \/ CopySessions \/ MainSets \/ MainStops
  \/ CancelReturns \/ Unload
  \/ \E s \in Sessions : MainLooks(s)

Kit ==
  \/ KitTakes
  \/ \E s \in Sessions : KitEmits(s) \/ KitEnds(s)

ServerNext ==
  \/ \E s \in Sessions : Handler(s) \/ ClientLost(s)
  \/ Kit \/ KitFails \/ Signal \/ Main

ServerSpec == ServerInit /\ [][ServerNext]_serverVars

\* Threads that can step do, but a client need not send its body.
ServerFairness ==
  /\ \A s \in Sessions : WF_serverVars(pc[s] # "body" /\ Handler(s))
  /\ WF_serverVars(KitTakes) /\ WF_serverVars(Main)
  /\ \A s \in Sessions : WF_serverVars(KitEmits(s) \/ KitEnds(s))

ServerFairSpec == ServerSpec /\ ServerFairness

-----------------------------------------------------------------------------
(* Properties.                                                             *)

(* A client that stays is answered to the end: by a status alone, or by a  *)
(* stream with one terminal payload and [DONE] after it, or by a stream    *)
(* that ends with an error and has no [DONE] (the tests of test_http.py    *)
(* say so of single cases).                                                *)
AnswersComplete ==
  \A s \in Sessions :
    /\ pc[s] = "ended" /\ s \notin lost => Last(sent[s]) \in {"status", "done", "error"}
    /\ "done" \in ToSet(sent[s]) =>
         /\ Last(sent[s]) = "done" /\ sent[s][Len(sent[s]) - 1] = "terminal"
         /\ ToSet(sent[s]) \cap {"error", "status"} = {}
    /\ Cardinality({i \in DOMAIN sent[s] : sent[s][i] = "terminal"}) <= 1

(* Whatever the kit runs for a session that has ended is about to be       *)
(* removed: the word is in the kit's queue, or with the main thread.       *)
NoOrphan ==
  \A s \in running \ active :
    \/ <<"remove", s>> \in ToSet(messages)
    \/ \E i \in DOMAIN main : main[i].at \in {"set", "stop"} /\ main[i].session = s

(* A session cancelled before its request reached the kit, whose removal   *)
(* found nothing there, shows no text: its reporter stops it.              *)
CancelledEarly(s) == s \in cancelled /\ pc[s] \in {"headers", "submit"}
EarlyCancelHolds ==
  \A s \in Sessions : [](CancelledEarly(s) => []("text" \notin ToSet(sent[s])))

(* A signal ends the server, though handlers may still be reading bodies   *)
(* or waiting for the kit.                                                 *)
ShutdownCompletes == signals > 0 ~> Top.at = "exit"

(* A request leaves neither a session nor a generation behind, and no      *)
(* answer looks complete that is not.                                      *)
RequestsEndWell ==
  /\ ServerTypeOK
  /\ AnswersComplete
  /\ NoOrphan

=============================================================================
