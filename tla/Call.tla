-------------------------------- MODULE Call -------------------------------
(***************************************************************************)
(* What a connection promises to the one who types the commands: a command *)
(* is carried out once, before the prompt comes back, and the session      *)
(* changes at that instant only, and only for a command that is meant to   *)
(* change it.  Once the connection is lost nothing is promised.            *)
(***************************************************************************)

CONSTANTS
    Commands,
    Movers,     \* those that may change the session
    Askers,     \* those that ask, when carried out, what has become of it
    Nothing,    \* no command
    Fresh       \* the session at first

VARIABLES phase, command, session

Init == phase = "idle" /\ command = Nothing /\ session = Fresh

Call(c) ==
    /\ phase = "idle" /\ phase' = "called"
    /\ command' = c /\ session' = session

\* the server takes the request and acts on it
Serve ==
    /\ phase = "called" /\ phase' = "served"
    /\ command' = command
    /\ command \in Movers \/ session' = session

AskBack ==
    /\ phase = "served" /\ command \in Askers /\ phase' = "called"
    /\ command' = command /\ session' = session

Return ==
    /\ phase = "served" /\ phase' = "idle"
    /\ command' = Nothing /\ session' = session

Lose == phase' = "lost"

Next == (\E c \in Commands : Call(c)) \/ Serve \/ AskBack \/ Return \/ Lose

Spec == Init /\ [][Next]_<<phase, command, session>>
=============================================================================
