---------------------------- MODULE MCChannelCalls ----------------------------
(* Callers 1 and 2 share a channel, 2 also uses another; 3 and 4 serve them.     *)
EXTENDS ChannelCalls, TLC

MCCallers == [c \in Channels |-> IF c = 11 THEN {1, 2} ELSE {2}]
MCReaders == [c \in Channels |-> IF c = 11 THEN {3, 4} ELSE {3}]
MCBase == 1 :> 2 @@ 2 :> 3 @@ 3 :> 1 @@ 4 :> 3
MCRequests == 1 :> 1 @@ 2 :> 2 @@ 3 :> 0 @@ 4 :> 0
===============================================================================
