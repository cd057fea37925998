---------------------------- MODULE MCPresence ----------------------------
(* An instance of Presence for TLC: a page that calls initRoundTable and   *)
(* setupRoundTable, another page, and a server that the table lists.       *)
EXTENDS Presence, TLC

CONSTANTS first, second, other, server, alice, bob, chat

MCPageOf == first :> 1 @@ second :> 1 @@ other :> 2
MCUserOf == first :> alice @@ second :> alice @@ other :> bob

Listing(servers, channels) == [servers |-> servers, channels |-> channels]

MCTables == {Listing({server}, {chat, PresenceChannel}), Listing({server}, {chat})}
MCDefault == Listing({}, {})

=============================================================================
