-------------------------------- MODULE Pipe --------------------------------
(* What a connection promises to the two programs at its ends: what one    *)
(* sends the other gets, each message whole, once and in order, or the     *)
(* connection ends.                                                        *)
EXTENDS Integers, SequencesExt

CONSTANTS Peer, Message

VARIABLES
    given,    \* [Peer -> Seq(Message)], what each peer has sent
    arrived   \* [Peer -> Seq(Message)], what of it the other has received

PipeInit ==
    /\ given = [p \in Peer |-> <<>>]
    /\ arrived = [p \in Peer |-> <<>>]

Give(p, m) ==
    /\ given' = [given EXCEPT ![p] = Append(@, m)]
    /\ UNCHANGED arrived

Arrive(p) ==
    /\ Len(arrived[p]) < Len(given[p])
    /\ arrived' = [arrived EXCEPT ![p] = Append(@, given[p][Len(@) + 1])]
    /\ UNCHANGED given

PipeNext == \E p \in Peer : (\E m \in Message : Give(p, m)) \/ Arrive(p)

PipeSpec == PipeInit /\ [][PipeNext]_<<given, arrived>>
=============================================================================
