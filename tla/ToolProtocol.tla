----------------------------- MODULE ToolProtocol ------------------------------
(***************************************************************************)
(* What tool_runtime.py promises of a text that calls tools in a model's   *)
(* native protocol: a call, once its marker is complete, is continued by   *)
(* the tool grammar alone; after a call only the protocol's continuations  *)
(* follow; and no call begins while visible reasoning is open.  The text   *)
(* grows by one permitted token at a time.                                 *)
(***************************************************************************)
EXTENDS ToolPhases

VARIABLES protocol, text, phase

protocolVars == <<protocol, text, phase>>

ProtocolInit ==
  /\ protocol \in Protocols
  /\ text \in PromptsOf(protocol)
  /\ phase = Talk

Say(t) ==
  /\ t \in Permitted(protocol, phase, ReasoningIsOpen(protocol, text))
  /\ text' = Append(text, t)
  /\ phase' = PhaseAfter(protocol, phase, text', t)
  /\ UNCHANGED protocol

ProtocolNext == \E t \in protocol.tokens : Say(t)

ProtocolSpec == ProtocolInit /\ [][ProtocolNext]_protocolVars

=============================================================================
