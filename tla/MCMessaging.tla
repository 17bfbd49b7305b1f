----------------------------- MODULE MCMessaging ----------------------------
(***************************************************************************)
(* What the proxies do on NATS subjects, for TLC: chat, and the notices of *)
(* changed policies.  The two share no state, so a behaviour is one of     *)
(* either, while the other stays in one initial state.  At first one of    *)
(* the policies is stored, so that each can be added or removed, and the   *)
(* second player has layers of its own; what else it may have is written.  *)
(***************************************************************************)
EXTENDS MCChat, PolicySync

CONSTANT r1

VARIABLE subject
messagingVars == <<subject, chatVars, vars>>

MessagingInit ==
    /\ subject \in {"chat", "policies"}
    /\ ChatInit /\ Init
    /\ store = {r1} /\ bucket[p2] = Tuner
    /\ subject = "policies" => bucket[lobby] = Lobby /\ bucket[game] = Game

MessagingNext ==
    /\ UNCHANGED subject
    /\ \/ subject = "chat" /\ ChatNext /\ UNCHANGED vars
       \/ subject = "policies" /\ Next /\ UNCHANGED chatVars

MessagingSpec == MessagingInit /\ [][MessagingNext]_messagingVars /\ Fairness
=============================================================================
