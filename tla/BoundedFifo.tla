----------------------------- MODULE BoundedFifo -----------------------------
(***************************************************************************)
(* What the event queue of vt_msgQueue.c promises to its users: a bounded  *)
(* first-in first-out channel between the threads that put events and the  *)
(* one thread that processes them.  Events are numbered in the order in    *)
(* which they were put, so that two events are never confused.             *)
(***************************************************************************)
EXTENDS Naturals, Sequences

CONSTANT Capacity   (* a positive number                                      *)

VARIABLES
  channel,   (* events put and not yet taken, oldest first                *)
  inHand,    (* the event the processor is handling, 0 when there is none *)
  total      (* how many events were ever put                             *)

vars == <<channel, inHand, total>>

NoEvent == 0

Init ==
  /\ channel = << >>
  /\ inHand = NoEvent
  /\ total = 0

(* A full channel blocks the thread that puts.                             *)
Push ==
  /\ Len(channel) < Capacity
  /\ channel' = Append(channel, total + 1)
  /\ total' = total + 1
  /\ UNCHANGED inHand

(* The processor takes the oldest event, and never a second one before it  *)
(* is done with the first.                                                 *)
Pop ==
  /\ channel # << >>
  /\ inHand = NoEvent
  /\ inHand' = Head(channel)
  /\ channel' = Tail(channel)
  /\ UNCHANGED total

Done ==
  /\ inHand # NoEvent
  /\ inHand' = NoEvent
  /\ UNCHANGED <<channel, total>>

(* An operator's clear, refresh or reconnect drops every event that waits, *)
(* but not the one in the processor's hand.                                *)
Discard ==
  /\ channel' = << >>
  /\ UNCHANGED <<inHand, total>>

Next == Push \/ Pop \/ Done \/ Discard

Spec == Init /\ [][Next]_vars
=============================================================================
