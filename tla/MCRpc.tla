------------------------------- MODULE MCRpc -------------------------------
(***************************************************************************)
(* An instance of Rpc with two responders.  The stream of one can run      *)
(* ahead of the history, inside it and past it; the other sends one        *)
(* response, which is enough to make the requester tell remotes apart.     *)
(***************************************************************************)
EXTENDS Rpc

CONSTANTS talker, teller

MCResponders == {talker, teller}
MCMaxSeqno == [r \in MCResponders |-> IF r = talker THEN 2 ELSE 0]
=============================================================================
