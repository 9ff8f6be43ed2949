-------------------------- MODULE ObservationChannel --------------------------
(***************************************************************************)
(* What RecordingSession relies on in a recording adapter: the commands it *)
(* accepted are dealt with one by one, in the order of their acceptance. A *)
(* stop that returns has dealt with all of them and nothing follows; after *)
(* one that raises the rest may still be dealt with, or not.               *)
(***************************************************************************)
EXTENDS Naturals, Sequences

CONSTANT Commands

VARIABLES
  sent,        \* commands accepted so far
  delivered,   \* how many of them were dealt with
  status       \* of the adapter

channel == <<sent, delivered, status>>

ChannelInit == sent = <<>> /\ delivered = 0 /\ status = "open"

Send ==
  /\ status = "open"
  /\ \E c \in Commands : sent' = Append(sent, c)
  /\ UNCHANGED <<delivered, status>>

Deliver ==
  /\ status # "closed" /\ delivered < Len(sent)
  /\ delivered' = delivered + 1
  /\ UNCHANGED <<sent, status>>

Close ==
  /\ status # "closed" /\ delivered = Len(sent)
  /\ status' = "closed"
  /\ UNCHANGED <<sent, delivered>>

Break ==
  /\ status = "open"
  /\ status' = "broken"
  /\ UNCHANGED <<sent, delivered>>

ChannelNext == Send \/ Deliver \/ Close \/ Break

ChannelSpec == ChannelInit /\ [][ChannelNext]_channel
=============================================================================
