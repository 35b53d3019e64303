---------------------------- MODULE TradeStream ----------------------------
(***************************************************************************)
(* HyperliquidTradeStream (signal-bridge/position_monitor.mjs): the        *)
(* websocket that carries every exchange print of the coins the monitor    *)
(* has positions in.                                                       *)
(*                                                                         *)
(* A socket's events arrive whenever they like, also those of a socket the *)
(* stream has already let go of; every handler drops an event that is not  *)
(* the current socket's.  Timers fire whenever they are armed.             *)
(***************************************************************************)
EXTENDS Naturals

CONSTANTS
    Coins,         \* coins the monitor may ask for
    Sockets,       \* identities of sockets that can exist at one time
    NoSocket,      \* this.ws = null
    LastBackoff    \* index of the last entry of RECONNECT_BACKOFF_MS

VARIABLES
    state,         \* IDLE, CONNECTING, CONNECTED, DISCONNECTED, UNAVAILABLE
    desired,       \* coins setCoins asked for last
    subscribed,    \* coins the current socket has been asked for
    ws,            \* the current socket
    attempts,      \* reconnects since the last onopen, capped at LastBackoff
    reconnect,     \* reconnectTimer is armed
    ping,          \* pingTimer is armed
    sock,          \* per socket: unused, opening, open, closing
    feed           \* per socket: the coins the exchange sends prints of

stream == <<state, desired, subscribed, ws, attempts, reconnect, ping>>
vars == <<stream, sock, feed>>

\* Without a WebSocket implementation the stream only remembers what it was asked for.
Available == state # "UNAVAILABLE"

Init ==
    /\ state \in {"IDLE", "UNAVAILABLE"}
    /\ desired = {}
    /\ subscribed = {}
    /\ ws = NoSocket
    /\ attempts = 0
    /\ reconnect = FALSE
    /\ ping = FALSE
    /\ sock = [s \in Sockets |-> "unused"]
    /\ feed = [s \in Sockets |-> {}]

\* Mutant: the last delay of the backoff is the last attempt.
ArmReconnectUnlessTired ==
    /\ reconnect' = (attempts < LastBackoff)
    /\ attempts' = IF attempts < LastBackoff THEN attempts + 1 ELSE attempts

\* scheduleReconnect
ArmReconnect ==
    /\ reconnect' = TRUE
    /\ attempts' = IF attempts < LastBackoff THEN attempts + 1 ELSE attempts

\* connect, with something desired: the constructor opens a socket or throws.
Connect ==
    \/ \E s \in Sockets :
        /\ sock[s] = "unused"
        /\ sock' = [sock EXCEPT ![s] = "opening"]
        /\ ws' = s
        /\ state' = "CONNECTING"
        /\ reconnect' = FALSE
        /\ UNCHANGED <<attempts, feed>>
    \/ /\ state' = "DISCONNECTED"
       /\ ArmReconnect
       /\ UNCHANGED <<ws, sock, feed>>

\* close: the current socket is let go of, and with it both timers.
Close ==
    /\ desired' = {}
    /\ reconnect' = FALSE
    /\ ping' = FALSE
    /\ ws' = NoSocket
    /\ subscribed' = {}
    /\ state' = IF Available THEN "IDLE" ELSE state
    /\ sock' = IF ws = NoSocket THEN sock ELSE [sock EXCEPT ![ws] = "closing"]
    /\ UNCHANGED <<attempts, feed>>

\* Mutant: what the old positions needed stays subscribed, as if nobody would mind.
ResubscribeAdds(coins) ==
    /\ subscribed' = coins
    /\ feed' = [feed EXCEPT ![ws] = @ \cup coins]

\* The (un)subscribe messages that bring the current socket to `coins`.
Resubscribe(coins) ==
    /\ subscribed' = coins
    /\ feed' = [feed EXCEPT ![ws] = (@ \ (subscribed \ coins)) \cup (coins \ subscribed)]

-----------------------------------------------------------------------------
\* setCoins
ForgetsCoins == Close

SetCoins(coins) ==
    /\ coins # {}
    /\ desired' = coins
    /\ \/ /\ Available /\ ws = NoSocket /\ ~reconnect
          /\ Connect
          /\ UNCHANGED <<subscribed, ping>>
       \/ /\ state = "CONNECTED"
          /\ Resubscribe(coins)
          /\ UNCHANGED <<state, ws, attempts, reconnect, ping, sock>>
       \/ /\ ~Available \/ reconnect \/ state = "CONNECTING"
          /\ UNCHANGED <<state, subscribed, ws, attempts, reconnect, ping, sock, feed>>

ReconnectTimer ==
    /\ reconnect
    /\ desired # {}
    /\ Connect
    /\ UNCHANGED <<desired, subscribed, ping>>

\* ws.onopen: forgets the old subscriptions, then setCoins([...desired]).
OnOpen(s) ==
    /\ sock[s] = "opening"
    /\ sock' = [sock EXCEPT ![s] = "open"]
    /\ ws = s
    /\ attempts' = 0
    /\ state' = "CONNECTED"
    /\ subscribed' = desired
    /\ feed' = [feed EXCEPT ![s] = desired]
    /\ ping' = TRUE
    /\ UNCHANGED <<desired, ws, reconnect>>

\* ws.onclose of the current socket, whether it was open or never opened.
OnClose(s) ==
    /\ sock[s] \in {"opening", "open"}
    /\ sock' = [sock EXCEPT ![s] = "unused"]
    /\ feed' = [feed EXCEPT ![s] = {}]
    /\ ws = s
    /\ ws' = NoSocket
    /\ subscribed' = {}
    /\ ping' = FALSE
    /\ state' = "DISCONNECTED"
    /\ ArmReconnect
    /\ UNCHANGED desired

\* The close of a socket the stream has let go of arrives: dropped.
\* Mutant: the close of an old socket is taken for the current one's.
LateCloseTaken(s) ==
    /\ sock[s] = "closing"
    /\ ws # s
    /\ sock' = [sock EXCEPT ![s] = "unused"]
    /\ feed' = [feed EXCEPT ![s] = {}]
    /\ ws' = NoSocket
    /\ subscribed' = {}
    /\ ping' = FALSE
    /\ IF desired = {}
       THEN state' = "IDLE" /\ UNCHANGED <<reconnect, attempts>>
       ELSE state' = "DISCONNECTED" /\ ArmReconnect
    /\ UNCHANGED desired

LateClose(s) ==
    /\ sock[s] = "closing"
    /\ ws # s
    /\ sock' = [sock EXCEPT ![s] = "unused"]
    /\ feed' = [feed EXCEPT ![s] = {}]
    /\ UNCHANGED stream

Next ==
    \/ ForgetsCoins
    \/ \E coins \in SUBSET Coins : SetCoins(coins)
    \/ ReconnectTimer
    \/ \E s \in Sockets : OnOpen(s) \/ OnClose(s) \/ LateClose(s)

Spec == Init /\ [][Next]_vars

-----------------------------------------------------------------------------
(* Properties                                                              *)

TypeOK ==
    /\ state \in {"IDLE", "CONNECTING", "CONNECTED", "DISCONNECTED", "UNAVAILABLE"}
    /\ desired \subseteq Coins
    /\ subscribed \subseteq Coins
    /\ ws \in Sockets \cup {NoSocket}
    /\ attempts \in 0..LastBackoff
    /\ reconnect \in BOOLEAN
    /\ ping \in BOOLEAN
    /\ sock \in [Sockets -> {"unused", "opening", "open", "closing"}]
    /\ feed \in [Sockets -> SUBSET Coins]

\* At most one socket lives, the current one; every other has been told to close.  So a
\* coin's prints reach the monitor once, whatever late events of old sockets arrive.
OneLiveSocket ==
    \A s \in Sockets : sock[s] \in {"opening", "open"} <=> s = ws

\* While a position is held the stream never gives up: it has a socket, or the timer
\* that will open one.  With nothing held it has neither, nor the ping.
NeverGivesUp ==
    Available => IF desired = {} THEN ws = NoSocket /\ ~reconnect /\ ~ping
                 ELSE ws # NoSocket <=> ~reconnect

\* A connected stream is sent the prints of exactly the coins asked for last, whatever
\* was asked for before and while it was connecting.
FeedsWhatIsHeld == state = "CONNECTED" => ws # NoSocket /\ sock[ws] = "open" /\ feed[ws] = desired
=============================================================================
