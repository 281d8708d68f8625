------------------------------- MODULE Restate -------------------------------
(***************************************************************************)
(* The part of the Restate runtime that RideCo's Virtual Objects rely on.  *)
(* The runtime is not in the repository: this is what the code under       *)
(* src/rideco uses of it.                                                  *)
(*                                                                         *)
(*   ctx.object_send       a durable message to another object, delivered  *)
(*                         exactly once; the messages from one object to   *)
(*                         another keep their order, the messages of two   *)
(*                         senders may be taken in either order.           *)
(*   ctx.awakeable         a durable one-shot promise.  Trip.confirm       *)
(*                         creates one and suspends on it, Dispatch        *)
(*                         resolves it with a driver.  A trip holds its    *)
(*                         key while it waits, so it has one at a time.    *)
(*                                                                         *)
(* A handler that fails is run again over its journal, so a handler is     *)
(* observed as the sequence of its durable effects, each taken once: a     *)
(* crash between two of them is a delay.                                   *)
(***************************************************************************)
EXTENDS Naturals, Sequences, FiniteSets

CONSTANTS Trips, Drivers, Regions, NoDriver, NoRegion, NoTrip

ASSUME NamesAreDistinct ==
  /\ NoDriver \notin Drivers
  /\ NoRegion \notin Regions
  /\ NoTrip \notin Trips

VARIABLES
  tripToDispatch,       \* [trip][region]: enqueue_trip, note_completion
  tripToLocations,      \* [trip][driver]: accept_trip, set_status
  locationsToDispatch,  \* [driver][region]: register_driver, deregister_driver
  agentToDispatch,      \* [region]: set_active, of the region's safety agent
  awakeable             \* [trip]: what the trip's promise was resolved with

channels == <<tripToDispatch, tripToLocations, locationsToDispatch, agentToDispatch>>
restateVars == <<channels, awakeable>>

\* ctx.object_send(handler, key = to), executed by the object `from'.
Send(channel, from, to, message) ==
  [channel EXCEPT ![from][to] = Append(@, message)]

\* The object `to' takes the oldest message `from' sent it.
Take(channel, from, to) == [channel EXCEPT ![from][to] = Tail(@)]

Arrived(channel, from, to, message) ==
  /\ channel[from][to] # << >>
  /\ Head(channel[from][to]) = message

InFlight(channel, from, to, message) ==
  \E i \in 1..Len(channel[from][to]) : channel[from][to][i] = message

NoMessages(Senders, Receivers) == [from \in Senders |-> [to \in Receivers |-> << >>]]

\* A message of Locations' inbox.  set_status carries the region it names.
AcceptTripMsg == [handler |-> "accept_trip", region |-> NoRegion]
SetIdleMsg(r) == [handler |-> "set_status", region |-> r]
LocationsMsgs == {AcceptTripMsg} \cup {SetIdleMsg(r) : r \in Regions}

RestateInit ==
  /\ tripToDispatch = NoMessages(Trips, Regions)
  /\ tripToLocations = NoMessages(Trips, Drivers)
  /\ locationsToDispatch = NoMessages(Drivers, Regions)
  /\ agentToDispatch = [r \in Regions |-> << >>]
  /\ awakeable = [t \in Trips |-> NoDriver]

RestateTypeOK ==
  /\ tripToDispatch \in [Trips -> [Regions -> Seq({"enqueue_trip", "note_completion"})]]
  /\ tripToLocations \in [Trips -> [Drivers -> Seq(LocationsMsgs)]]
  /\ locationsToDispatch \in [Drivers -> [Regions -> Seq({"register_driver", "deregister_driver"})]]
  /\ agentToDispatch \in [Regions -> Seq(BOOLEAN)]
  /\ awakeable \in [Trips -> Drivers \cup {NoDriver}]
==============================================================================
